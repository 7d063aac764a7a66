---------------------- MODULE StreamReplayPage_proofs ----------------------
(* Proofs about StreamReplay, the page's side: what it shows of a turn is   *)
(* exact, what it calls done is whole, and the service and the page         *)
(* implement TurnView, when no other task of the page runs between the      *)
(* events that end a turn and the end of their stream.                      *)
EXTENDS StreamReplay_proofs

LEMMA Element ==
    ASSUME NEW q \in Seq(Wire), NEW i \in DOMAIN q
    PROVE  /\ i \in Nat /\ i >= 1 /\ i <= Len(q) /\ Len(q) \in Nat
           /\ q[i] \in Wire /\ q[i].n \in Nat
  <1>1. q[i] \in Wire /\ i \in 1 .. Len(q) /\ Len(q) \in Nat
    OBVIOUS
  <1>2. QED
    BY <1>1 DEF Wire

(* One loop and the registry it reads from, apart from the rest. *)

ItemIn(reg, k, i, n) ==
    /\ IsTurnEvent(k.wire[i]) =>
           /\ k.turn # NoTurn /\ k.wire[i].turn = k.turn
           /\ k.wire[i].n = n + i - 1
           /\ k.wire[i].n < reg[k.turn].totalEmitted
           /\ Placed(k.wire[i], reg[k.turn].finishedAt)
    /\ ~IsTurnEvent(k.wire[i]) => i = Len(k.wire)
    /\ k.wire[i].kind = "ring_overflow" =>
           k.kind = "replay" /\ k.wire[i].n <= reg[k.turn].startOffset

StartIn(reg, k) == k.from = 0 \/ (k.kind = "replay" /\ k.from <= reg[k.turn].startOffset)

ShownIn(k, shown) ==
    \A i \in DOMAIN shown : shown[i].turn = k.turn /\ shown[i].n = k.from + i - 1

\* A loop that has seen done has seen everything up to the end.
WholeIn(reg, k, shown) ==
    k.saw = "done" => /\ k.turn # NoTurn /\ reg[k.turn].status # "running"
                      /\ reg[k.turn].finishedAt \in 1 .. k.from + Len(shown)

LoopIn(reg, k, shown, id) ==
    /\ k.phase = "request" => shown = <<>>
    /\ k.phase = "request" /\ k.kind = "turn" => k.turn = NoTurn
    /\ WholeIn(reg, k, shown)
    /\ StartIn(reg, k)
    /\ id \in {NoTurn, k.turn}
    /\ ShownIn(k, shown)
    /\ \A i \in DOMAIN k.wire : ItemIn(reg, k, i, k.from + Len(shown))

LEMMA LoopInvIs ==
    LoopInv <=> \A c \in Conn : conn[c].live =>
        /\ LoopIn(registry, conn[c], entry.shown, entry.turnId)
        /\ conn[c].saw = "nothing" => Busy
        /\ conn[c].saw = "done" => ~Busy
        /\ \A t \in Turn : c \in Readers(t) =>
               conn[c].from + Len(entry.shown) + Len(conn[c].wire) = registry[t].totalEmitted
  BY DEF LoopInv, LoopIn, WholeIn, StartIn, ShownIn, ItemOK, ItemIn, Live, Running

\* What the service may do to a turn it knows: an end is behind all that was
\* there before, and stays.
Lasts(a, b) ==
    /\ b.status # "none"
    /\ b.totalEmitted >= a.totalEmitted
    /\ b.startOffset >= a.startOffset
    /\ a.status # "running" => b.status # "running"
    /\ a.finishedAt > 0 => b.finishedAt = a.finishedAt
    /\ a.finishedAt = 0 => b.finishedAt = 0 \/ b.finishedAt > a.totalEmitted

Grows(reg, v) == \A t \in Turn : reg[t].status # "none" => Lasts(reg[t], v[t])

\* Regrouping a sum.
LEMMA SumShift ==
    \A a, b, c, d \in Nat : a + b + (c + d) = (a + b + c) + d
  OBVIOUS

LEMMA SumNext == \A a, b \in Nat : a + (b + 1) = a + b + 1
  OBVIOUS

LEMMA LastsPlaced ==
    ASSUME NEW a, NEW b, Lasts(a, b), a.finishedAt \in Nat, b.finishedAt \in Nat,
           a.totalEmitted \in Nat,
           NEW e, e.n \in Nat, e.n < a.totalEmitted, Placed(e, a.finishedAt)
    PROVE  Placed(e, b.finishedAt)
  <1>1. CASE a.finishedAt > 0
    BY <1>1 DEF Lasts
  <1>2. CASE a.finishedAt = 0 /\ b.finishedAt = 0
    BY <1>2
  <1>3. CASE a.finishedAt = 0 /\ b.finishedAt > a.totalEmitted
    <2>1. e.kind # "done"
      BY <1>3 DEF Placed
    <2>2. QED
      BY <1>3, <2>1 DEF Placed
  <1>4. QED
    BY <1>1, <1>2, <1>3 DEF Lasts

\* What holds of a loop survives what the service does to the turns.
LEMMA LoopGrows ==
    ASSUME NEW reg \in [Turn -> Entry], NEW v \in [Turn -> Entry], Grows(reg, v),
           NEW k, ConnOK(k), NEW shown \in Seq(Wire), NEW id,
           k.turn # NoTurn => reg[k.turn].status # "none",
           LoopIn(reg, k, shown, id)
    PROVE  LoopIn(v, k, shown, id)
  <1>1. /\ k.turn \in Turn \cup {NoTurn} /\ k.from \in Nat /\ k.wire \in Seq(Wire)
        /\ k.kind = "replay" => k.turn # NoTurn
    BY ConnTypes DEF ConnOK
  <1>2. k.turn # NoTurn => /\ reg[k.turn] \in Entry /\ v[k.turn] \in Entry
                           /\ Lasts(reg[k.turn], v[k.turn])
    BY <1>1 DEF Grows
  <1>3. k.turn # NoTurn =>
            /\ reg[k.turn].totalEmitted \in Nat /\ reg[k.turn].startOffset \in Nat
            /\ reg[k.turn].finishedAt \in Nat
            /\ v[k.turn].totalEmitted \in Nat /\ v[k.turn].startOffset \in Nat
    BY <1>2 DEF Entry
  <1>4. StartIn(v, k)
    BY <1>1, <1>2, <1>3 DEF LoopIn, StartIn, Lasts
  <1>5. ASSUME NEW i \in DOMAIN k.wire
        PROVE  ItemIn(v, k, i, k.from + Len(shown))
    <2>1. ItemIn(reg, k, i, k.from + Len(shown))
      BY DEF LoopIn
    <2>2. k.wire[i].n \in Nat
      BY <1>1, Element
    <2>3. PICK e : e = k.wire[i]
      OBVIOUS
    <2>4. CASE k.turn = NoTurn
      <3>1. ~IsTurnEvent(e) /\ i = Len(k.wire) /\ e.kind # "ring_overflow"
        BY <1>1, <2>1, <2>3, <2>4 DEF ItemIn
      <3>2. QED
        BY <2>3, <3>1 DEF ItemIn
    <2>5. CASE k.turn # NoTurn
      <3>1. PICK a \in Entry, b \in Entry : a = reg[k.turn] /\ b = v[k.turn] /\ Lasts(a, b)
        BY <1>2, <2>5
      <3>2. /\ a.totalEmitted \in Nat /\ b.totalEmitted \in Nat /\ a.finishedAt \in Nat
            /\ a.startOffset \in Nat /\ b.startOffset \in Nat /\ e.n \in Nat
        BY <1>3, <2>2, <2>3, <2>5, <3>1
      <3>a. b.finishedAt \in Nat
        BY <3>1 DEF Entry
      <3>3. IsTurnEvent(e) =>
                /\ e.turn = k.turn /\ e.n = k.from + Len(shown) + i - 1 /\ e.n < a.totalEmitted
                /\ Placed(e, a.finishedAt)
        BY <2>1, <2>3, <3>1 DEF ItemIn
      <3>4. /\ ~IsTurnEvent(e) => i = Len(k.wire)
            /\ e.kind = "ring_overflow" => k.kind = "replay" /\ e.n <= a.startOffset
        BY <2>1, <2>3, <3>1 DEF ItemIn
      <3>5. e.n < a.totalEmitted => e.n < b.totalEmitted
        BY <3>1, <3>2 DEF Lasts
      <3>6. e.n <= a.startOffset => e.n <= b.startOffset
        BY <3>1, <3>2 DEF Lasts
      <3>7. Placed(e, a.finishedAt) /\ e.n < a.totalEmitted => Placed(e, b.finishedAt)
        BY <3>1, <3>2, <3>a, LastsPlaced
      <3>8. IsTurnEvent(e) =>
                /\ k.turn # NoTurn /\ e.turn = k.turn
                /\ e.n = k.from + Len(shown) + i - 1 /\ e.n < b.totalEmitted
                /\ Placed(e, b.finishedAt)
        BY <2>5, <3>1, <3>3, <3>5, <3>7
      <3>9. QED
        BY <2>3, <3>1, <3>4, <3>6, <3>8 DEF ItemIn
    <2>6. QED
      BY <2>4, <2>5
  <1>6. WholeIn(v, k, shown)
    <2>1. SUFFICES ASSUME k.saw = "done"
                   PROVE  /\ k.turn # NoTurn /\ v[k.turn].status # "running"
                          /\ v[k.turn].finishedAt \in 1 .. k.from + Len(shown)
      BY DEF WholeIn
    <2>2. /\ k.turn # NoTurn /\ reg[k.turn].status # "running"
          /\ reg[k.turn].finishedAt \in 1 .. k.from + Len(shown)
      BY <2>1 DEF LoopIn, WholeIn
    <2>3. reg[k.turn].finishedAt > 0
      BY <2>2
    <2>4. QED
      BY <1>2, <2>2, <2>3 DEF Lasts
  <1>7. QED
    BY <1>4, <1>5, <1>6 DEF LoopIn

\* What the service sends after n events of its turn.
SentIn(reg, t, es, n) ==
    \A j \in DOMAIN es :
        /\ IsTurnEvent(es[j]) =>
               /\ es[j].turn = t /\ es[j].n = n + j - 1
               /\ es[j].n < reg[t].totalEmitted
               /\ Placed(es[j], reg[t].finishedAt)
        /\ ~IsTurnEvent(es[j]) => j = Len(es)
        /\ es[j].kind = "ring_overflow" => es[j].n <= reg[t].startOffset

\* More of the turn is written to the connection of a loop.
LEMMA LoopWritten ==
    ASSUME NEW reg \in [Turn -> Entry], NEW k, ConnOK(k), k.phase # "ended",
           NEW shown \in Seq(Wire), NEW id, LoopIn(reg, k, shown, id),
           NEW w, ConnOK(w), SameLoop(k, w), w.phase # "request",
           NEW es \in Seq(Wire), w.wire = k.wire \o es,
           k.turn = NoTurn => \A j \in DOMAIN es : ~IsTurnEvent(es[j]),
           SentIn(reg, k.turn, es, k.from + Len(shown) + Len(k.wire))
    PROVE  LoopIn(reg, w, shown, id)
  <1>1. PICK q \in Seq(Wire) : q = k.wire
    BY ConnTypes DEF ConnOK
  <1>2. PICK x \in Seq(Wire) : x = w.wire
    BY ConnTypes DEF ConnOK
  <1>3. x = q \o es
    BY <1>1, <1>2
  <1>4. /\ Len(x) = Len(q) + Len(es) /\ Len(q) \in Nat /\ Len(es) \in Nat
        /\ DOMAIN x = 1 .. Len(q) + Len(es) /\ DOMAIN q = 1 .. Len(q)
        /\ DOMAIN es = 1 .. Len(es)
        /\ \A i \in 1 .. Len(q) : x[i] = q[i]
        /\ \A i \in Len(q) + 1 .. Len(q) + Len(es) : x[i] = es[i - Len(q)]
    BY <1>3, Concat
  <1>5. /\ k.from \in Nat /\ Len(shown) \in Nat
        /\ w.turn = k.turn /\ w.from = k.from /\ w.kind = k.kind
    BY ConnTypes DEF ConnOK, SameLoop
  <1>6. PICK n \in Nat : n = k.from + Len(shown)
    BY <1>5
  <1>7. \A i \in DOMAIN q : IsTurnEvent(q[i])
    BY <1>1 DEF ConnOK
  <1>8. ASSUME NEW i \in DOMAIN x
        PROVE  ItemIn(reg, w, i, n)
    <2>1. i \in Nat /\ i >= 1 /\ i <= Len(x) /\ x[i].n \in Nat
      BY Element
    <2>2. CASE i <= Len(q)
      <3>1. i \in DOMAIN q /\ x[i] = q[i] /\ IsTurnEvent(q[i])
        BY <1>4, <1>7, <2>1, <2>2
      <3>2. ItemIn(reg, k, i, n)
        BY <1>1, <1>6, <3>1 DEF LoopIn
      <3>3. x[i].kind # "ring_overflow"
        BY <3>1 DEF IsTurnEvent, TurnKind
      <3>4. QED
        BY <1>1, <1>2, <1>5, <3>1, <3>2, <3>3 DEF ItemIn
    <2>3. CASE i > Len(q)
      <3>1. PICK j \in DOMAIN es : j = i - Len(q) /\ x[i] = es[j]
        <4>1. i - Len(q) \in DOMAIN es /\ x[i] = es[i - Len(q)]
          <5>1. Len(x) = Len(q) + Len(es) /\ Len(q) \in Nat /\ Len(es) \in Nat
            BY <1>4
          <5>2. i \in Len(q) + 1 .. Len(q) + Len(es) /\ i - Len(q) \in 1 .. Len(es)
            BY <2>1, <2>3, <5>1
          <5>3. QED
            BY <1>4, <5>2
        <4>2. QED
          BY <4>1
      <3>2. j \in Nat /\ i = Len(q) + j
        BY <1>4, <2>1, <3>1
      <3>3. SentIn(reg, k.turn, es, n + Len(q))
        BY <1>1, <1>6
      <3>4. /\ IsTurnEvent(x[i]) =>
                 /\ x[i].turn = k.turn /\ x[i].n = n + Len(q) + j - 1
                 /\ x[i].n < reg[k.turn].totalEmitted
                 /\ Placed(x[i], reg[k.turn].finishedAt)
            /\ ~IsTurnEvent(x[i]) => j = Len(es)
            /\ x[i].kind = "ring_overflow" => x[i].n <= reg[k.turn].startOffset
        BY <3>1, <3>3 DEF SentIn
      <3>5. n + Len(q) + j - 1 = n + i - 1
        BY <1>4, <1>6, <3>2
      <3>6. j = Len(es) => i = Len(x)
        BY <1>4, <3>2
      <3>7. x[i].kind = "ring_overflow" => w.kind = "replay"
        BY <1>2 DEF ConnOK
      <3>8. QED
        BY <1>2, <1>5, <3>1, <3>4, <3>5, <3>6, <3>7 DEF ItemIn
    <2>4. QED
      BY <1>4, <2>1, <2>2, <2>3
  <1>9. StartIn(reg, w) /\ ShownIn(w, shown) /\ WholeIn(reg, w, shown)
    BY <1>5 DEF LoopIn, StartIn, ShownIn, WholeIn, SameLoop
  <1>10. QED
    BY <1>2, <1>5, <1>6, <1>8, <1>9 DEF LoopIn
LEMMA LoopInvNext ==
    ASSUME \A c \in Conn : conn'[c].live =>
               /\ LoopIn(registry', conn'[c], entry'.shown, entry'.turnId)
               /\ conn'[c].saw = "nothing" => entry'.status \in {"loading", "streaming"}
               /\ conn'[c].saw = "done" => entry'.status \notin {"loading", "streaming"}
               /\ \A t \in Turn : c \in Readers(t)' =>
                      conn'[c].from + Len(entry'.shown) + Len(conn'[c].wire)
                          = registry'[t].totalEmitted
    PROVE  LoopInv'
  BY DEF LoopInv, LoopIn, WholeIn, StartIn, ShownIn, ItemOK, ItemIn, Live, Running, Busy

\* What PageInv says, in the form the steps use.
LEMMA Loops ==
    ASSUME ServiceInv, PageInv
    PROVE  /\ \A c \in Conn : conn[c].live =>
                  /\ c = entry.cancel
                  /\ LoopIn(registry, conn[c], entry.shown, entry.turnId)
                  /\ conn[c].saw = "nothing" => Busy
                  /\ conn[c].saw = "done" => ~Busy
                  /\ \A t \in Turn : c \in Readers(t) =>
                         conn[c].from + Len(entry.shown) + Len(conn[c].wire)
                             = registry[t].totalEmitted
           /\ entry.cancel # NoConn => entry.cancel \in Conn /\ conn[entry.cancel].live
           /\ Busy => entry.cancel # NoConn
           /\ entry.shown \in Seq(Wire) /\ Len(entry.shown) \in Nat
  <1>1. entry.shown \in Seq(Wire)
    BY Given DEF Stream
  <1>2. {c \in Conn : conn[c].live} = {entry.cancel} \ {NoConn}
    BY DEF PageInv, HandleOwned, Live
  <1>3. Busy => entry.cancel # NoConn
    BY DEF PageInv, HandleOwned
  <1>4. QED
    BY <1>1, <1>2, <1>3, LoopInvIs DEF PageInv
-----------------------------------------------------------------------------
(* The steps of the service. *)

\* What a page shows comes from turns the service knows.
LEMMA ShownGrows ==
    ASSUME ServiceInv, PageInv, registry' \in [Turn -> Entry], Grows(registry, registry'),
           NEW i \in DOMAIN entry.shown
    PROVE  /\ entry.shown[i].turn \in Turn /\ entry.shown[i].n \in Nat
           /\ registry'[entry.shown[i].turn].status # "none"
           /\ registry'[entry.shown[i].turn].startOffset
                  >= registry[entry.shown[i].turn].startOffset
           /\ registry'[entry.shown[i].turn].startOffset \in Nat
           /\ registry[entry.shown[i].turn].startOffset \in Nat
           /\ registry[entry.shown[i].turn].finishedAt > 0 =>
                  registry'[entry.shown[i].turn].finishedAt
                      = registry[entry.shown[i].turn].finishedAt
           /\ registry[entry.shown[i].turn].status # "running" =>
                  registry'[entry.shown[i].turn].status # "running"
           /\ registry[entry.shown[i].turn].finishedAt \in Nat
  <1>1. entry.shown[i].n \in Nat
    BY Element, Loops
  <1>2. PICK t \in Turn : t = entry.shown[i].turn /\ registry[t].status # "none"
    BY DEF PageInv, ShownInv
  <1>3. /\ registry[t].startOffset \in Nat /\ registry'[t].startOffset \in Nat
        /\ registry[t].finishedAt \in Nat
    BY Given DEF Entry
  <1>4. Lasts(registry[t], registry'[t])
    BY <1>2 DEF Grows
  <1>5. QED
    BY <1>1, <1>2, <1>3, <1>4 DEF Lasts

LEMMA PageService ==
    ASSUME ServiceInv, PageInv, registry' \in [Turn -> Entry], Grows(registry, registry'),
           entry' = entry,
           \A c \in Conn : conn'[c].live = conn[c].live,
           \A c \in Conn : conn[c].live =>
               /\ conn'[c].saw = conn[c].saw /\ conn'[c].from = conn[c].from
               /\ LoopIn(registry', conn'[c], entry.shown, entry.turnId)
               /\ \A t \in Turn : c \in Readers(t)' =>
                      conn[c].from + Len(entry.shown) + Len(conn'[c].wire)
                          = registry'[t].totalEmitted
    PROVE  PageInv'
  <1>1. HandleOwned'
    BY DEF PageInv, HandleOwned, Live, Busy
  <1>2. LoopInv'
    <2>1. ASSUME NEW c \in Conn, conn'[c].live
          PROVE  /\ LoopIn(registry', conn'[c], entry'.shown, entry'.turnId)
                 /\ conn'[c].saw = "nothing" => entry'.status \in {"loading", "streaming"}
                 /\ conn'[c].saw = "done" => entry'.status \notin {"loading", "streaming"}
                 /\ \A t \in Turn : c \in Readers(t)' =>
                        conn'[c].from + Len(entry'.shown) + Len(conn'[c].wire)
                            = registry'[t].totalEmitted
      BY <2>1, Loops DEF Busy
    <2>2. QED
      BY <2>1, LoopInvNext
  <1>3. ShownInv'
    BY ShownGrows DEF ShownInv
  <1>4. ShownExactly'
    <2>1. SUFFICES ASSUME NEW i \in DOMAIN entry.shown
                   PROVE  /\ entry.turnId \in {NoTurn, entry.shown[1].turn}
                          /\ entry.shown[i].turn = entry.shown[1].turn
                          /\ entry.shown[i].n = entry.shown[1].n + i - 1
                          /\ \/ entry.shown[1].n = 0
                             \/ entry.shown[1].n <= registry'[entry.shown[1].turn].startOffset
                          /\ entry.cancel # NoConn =>
                                 entry.shown[1].n = conn'[entry.cancel].from
      BY DEF ShownExactly
    <2>2. 1 \in DOMAIN entry.shown
      BY Loops
    <2>3. /\ entry.turnId \in {NoTurn, entry.shown[1].turn}
          /\ entry.shown[i].turn = entry.shown[1].turn
          /\ entry.shown[i].n = entry.shown[1].n + i - 1
          /\ \/ entry.shown[1].n = 0
             \/ entry.shown[1].n <= registry[entry.shown[1].turn].startOffset
          /\ entry.cancel # NoConn => entry.shown[1].n = conn[entry.cancel].from
      BY DEF PageInv, ShownExactly
    <2>4. \/ entry.shown[1].n = 0
          \/ entry.shown[1].n <= registry'[entry.shown[1].turn].startOffset
      <3>1. /\ entry.shown[1].n \in Nat
            /\ registry'[entry.shown[1].turn].startOffset
                  >= registry[entry.shown[1].turn].startOffset
            /\ registry'[entry.shown[1].turn].startOffset \in Nat
            /\ registry[entry.shown[1].turn].startOffset \in Nat
        BY <2>2, ShownGrows
      <3>2. QED
        BY <2>3, <3>1
    <2>5. entry.cancel # NoConn => conn'[entry.cancel].from = conn[entry.cancel].from
      BY Loops
    <2>6. QED
      BY <2>3, <2>4, <2>5
  <1>5. DoneIsWhole'
    <2>1. SUFFICES ASSUME entry.status = "done"
                   PROVE  \E i \in DOMAIN entry.shown :
                              /\ entry.shown[i].kind = "done"
                              /\ entry.shown[i].n
                                   = registry'[entry.shown[i].turn].finishedAt - 1
                              /\ registry'[entry.shown[i].turn].status # "running"
                              /\ \A j \in i + 1 .. Len(entry.shown) :
                                     entry.shown[j].kind = "artifact"
      BY DEF DoneIsWhole, Running
    <2>2. PICK i \in DOMAIN entry.shown :
              /\ entry.shown[i].kind = "done"
              /\ entry.shown[i].n = registry[entry.shown[i].turn].finishedAt - 1
              /\ registry[entry.shown[i].turn].status # "running"
              /\ \A j \in i + 1 .. Len(entry.shown) : entry.shown[j].kind = "artifact"
      BY <2>1 DEF PageInv, DoneIsWhole, Running
    <2>3. /\ entry.shown[i].n \in Nat /\ registry[entry.shown[i].turn].finishedAt \in Nat
          /\ registry[entry.shown[i].turn].finishedAt > 0 =>
                 registry'[entry.shown[i].turn].finishedAt
                     = registry[entry.shown[i].turn].finishedAt
          /\ registry'[entry.shown[i].turn].status # "running"
      BY <2>2, ShownGrows
    <2>4. registry[entry.shown[i].turn].finishedAt > 0
      BY <2>2, <2>3
    <2>5. QED
      BY <2>2, <2>3, <2>4
  <1>6. QED
    BY <1>1, <1>2, <1>3, <1>4, <1>5 DEF PageInv
\* A loop whose connection the step leaves alone.
LEMMA LoopSame ==
    ASSUME ServiceInv, PageInv, registry' \in [Turn -> Entry], Grows(registry, registry'),
           NEW c \in Conn, conn[c].live, conn'[c] = conn[c]
    PROVE  /\ conn'[c].saw = conn[c].saw /\ conn'[c].from = conn[c].from
           /\ LoopIn(registry', conn'[c], entry.shown, entry.turnId)
  <1>1. PICK k : k = conn[c]
    OBVIOUS
  <1>2. PICK v : v = registry'
    OBVIOUS
  <1>3. ConnOK(k) /\ (k.turn # NoTurn => registry[k.turn].status # "none")
    BY <1>1, Given
  <1>4. LoopIn(registry, k, entry.shown, entry.turnId)
    BY <1>1, Loops
  <1>5. LoopIn(v, k, entry.shown, entry.turnId)
    BY <1>2, <1>3, <1>4, Given, Loops, LoopGrows
  <1>6. QED
    BY <1>1, <1>2, <1>5

\* The turns are left alone.
LEMMA SameGrows ==
    ASSUME ServiceInv, registry' = registry
    PROVE  registry' \in [Turn -> Entry] /\ Grows(registry, registry')
  <1>1. \A t \in Turn : registry[t].totalEmitted \in Nat /\ registry[t].startOffset \in Nat
    BY Given DEF Entry
  <1>2. QED
    BY <1>1, Given DEF Grows, Lasts

LEMMA PageLeak ==
    ASSUME ServiceInv, PageInv, NEW t \in Turn, Leak(t)
    PROVE  PageInv'
  <1>1. registry' = registry /\ conn' = conn /\ entry' = entry
    BY DEF Leak
  <1>2. \A u \in Turn : handler'[u].response = handler[u].response
    BY Given DEF Leak
  <1>3. \A u \in Turn : Readers(u)' = Readers(u)
    BY <1>1, <1>2 DEF Readers
  <1>4. QED
    BY <1>1, <1>3, SameGrows, LoopSame, Loops, PageService

LEMMA PageSweep ==
    ASSUME ServiceInv, PageInv, NEW t \in Turn, Sweep(t)
    PROVE  PageInv'
  <1>1. handler' = handler /\ conn' = conn /\ entry' = entry
    BY DEF Sweep
  <1>2. /\ registry' = [registry EXCEPT ![t] = Deleted(registry[t])]
        /\ registry[t].status # "none"
    BY Given DEF Sweep, Deleted, Running
  <1>3. PICK q : q = Deleted(registry[t])
    OBVIOUS
  <1>4. /\ q \in Entry /\ q.status = "swept" /\ q.listeners = {}
        /\ q.startOffset = registry[t].startOffset
        /\ q.totalEmitted = registry[t].totalEmitted
        /\ q.finishedAt = registry[t].finishedAt
    BY <1>2, <1>3, Given, RingDeleted
  <1>5. /\ registry' \in [Turn -> Entry]
        /\ \A u \in Turn : registry'[u] = IF u = t THEN q ELSE registry[u]
    BY <1>2, <1>3, <1>4, Given
  <1>6. \A u \in Turn : registry[u].totalEmitted \in Nat /\ registry[u].startOffset \in Nat
    BY Given DEF Entry
  <1>7. Grows(registry, registry')
    BY <1>4, <1>5, <1>6 DEF Grows, Lasts
  <1>8. \A u \in Turn : /\ Readers(u)' \subseteq Readers(u)
                        /\ registry'[u].totalEmitted = registry[u].totalEmitted
    BY <1>1, <1>4, <1>5 DEF Readers
  <1>9. QED
    BY <1>1, <1>5, <1>7, <1>8, LoopSame, Loops, PageService

\* A response of a page that has gone ends.
LEMMA PageGone ==
    ASSUME ServiceInv, PageInv, NEW c \in Conn, ~conn[c].live,
           registry' \in [Turn -> Entry], Grows(registry, registry'),
           \A t \in Turn : /\ Readers(t)' \subseteq Readers(t)
                           /\ registry'[t].totalEmitted = registry[t].totalEmitted,
           conn' = [conn EXCEPT ![c] = Free], entry' = entry
    PROVE  PageInv'
  <1>1. \A d \in Conn : conn'[d] = IF d = c THEN Free ELSE conn[d]
    BY Given
  <1>2. conn[c].live = FALSE
    BY Given, ConnTypes
  <1>3. \A d \in Conn : conn'[d].live = conn[d].live
    BY <1>1, <1>2, FreeIs
  <1>4. \A d \in Conn : conn[d].live => conn'[d] = conn[d]
    BY <1>1
  <1>5. QED
    BY <1>3, <1>4, LoopSame, Loops, PageService

LEMMA PageVanish ==
    ASSUME ServiceInv, PageInv, NEW c \in Conn, Vanish(c)
    PROVE  PageInv'
  <1>1. registry' = registry /\ handler' = handler
    BY DEF Vanish
  <1>2. \A t \in Turn : Readers(t)' = Readers(t)
    BY <1>1 DEF Readers
  <1>3. QED
    BY <1>1, <1>2, SameGrows, PageGone DEF Vanish, Live

\* What the close event of a response leaves.
LEMMA UnsubscribedIs ==
    ASSUME ServiceInv, NEW c \in Conn, Unsubscribed(c)
    PROVE  /\ registry' \in [Turn -> Entry] /\ Grows(registry, registry')
           /\ \A t \in Turn : /\ Readers(t)' = Readers(t) \ {c}
                              /\ registry'[t].totalEmitted = registry[t].totalEmitted
  <1>1. registry' = [t \in Turn |-> [registry[t] EXCEPT !.listeners = @ \ {c}]]
    BY DEF Unsubscribed
  <1>2. ASSUME NEW t \in Turn
        PROVE  /\ registry'[t] \in Entry
               /\ registry'[t].startOffset = registry[t].startOffset
               /\ registry'[t].totalEmitted = registry[t].totalEmitted
               /\ registry'[t].status = registry[t].status
               /\ registry'[t].finishedAt = registry[t].finishedAt
               /\ registry'[t].listeners = registry[t].listeners \ {c}
               /\ registry[t].totalEmitted \in Nat /\ registry[t].startOffset \in Nat
    <2>1. PICK r \in Entry : r = registry[t]
      BY Given
    <2>2. registry'[t] = [r EXCEPT !.listeners = r.listeners \ {c}]
      BY <1>1, <2>1
    <2>3. r.listeners \ {c} \subseteq Conn
      BY DEF Entry
    <2>4. QED
      BY <2>1, <2>2, <2>3 DEF Entry
  <1>3. registry' \in [Turn -> Entry]
    BY <1>1, <1>2
  <1>4. Grows(registry, registry')
    BY <1>2 DEF Grows, Lasts
  <1>5. \A t \in Turn : handler'[t].response = IF handler[t].response = c THEN NoConn
                                                ELSE handler[t].response
    BY Given DEF Unsubscribed
  <1>6. \A t \in Turn : Readers(t)' = Readers(t) \ {c}
    <2>1. c # NoConn
      BY StreamReplayAssumption
    <2>2. QED
      BY <1>2, <1>5, <2>1 DEF Readers
  <1>7. QED
    BY <1>2, <1>3, <1>4, <1>6

LEMMA PageHangup ==
    ASSUME ServiceInv, PageInv, NEW c \in Conn, Hangup(c)
    PROVE  PageInv'
  <1>1. \A t \in Turn : Readers(t)' \subseteq Readers(t)
    BY UnsubscribedIs DEF Hangup
  <1>2. QED
    BY <1>1, UnsubscribedIs, PageGone DEF Hangup, Live
\* An answer that fails is all that comes.
LEMMA FailedSent ==
    ASSUME NEW es, es = <<Item("failed")>>, NEW reg, NEW t, NEW n
    PROVE  /\ es \in Seq(Wire) /\ SentIn(reg, t, es, n)
           /\ \A j \in DOMAIN es : ~IsTurnEvent(es[j]) /\ es[j].kind # "ring_overflow"
  <1>1. es \in Seq(Wire) /\ Len(es) = 1 /\ DOMAIN es = {1} /\ es[1].kind = "failed"
    BY FailedIs
  <1>2. ~IsTurnEvent(es[1])
    BY <1>1 DEF IsTurnEvent, TurnKind
  <1>3. QED
    BY <1>1, <1>2 DEF SentIn

\* The end of the stream after es.
LEMMA LastSent ==
    ASSUME NEW es \in Seq(Wire), NEW w, w = Last(es), NEW reg, NEW t, NEW n, SentIn(reg, t, es, n),
           \A j \in DOMAIN es : IsTurnEvent(es[j])
    PROVE  /\ w \in Seq(Wire) /\ SentIn(reg, t, w, n)
           /\ \A j \in DOMAIN w : w[j].kind # "ring_overflow"
  <1>1. /\ w \in Seq(Wire) /\ Len(w) = Len(es) + 1 /\ Len(es) \in Nat
        /\ DOMAIN w = 1 .. Len(es) + 1 /\ DOMAIN es = 1 .. Len(es)
        /\ \A i \in DOMAIN es : w[i] = es[i]
        /\ w[Len(es) + 1].kind = "eof"
    BY LastIs
  <1>2. ASSUME NEW j \in DOMAIN w
        PROVE  \/ j \in DOMAIN es /\ w[j] = es[j] /\ IsTurnEvent(w[j])
               \/ j = Len(w) /\ w[j].kind = "eof"
    BY <1>1
  <1>3. SentIn(reg, t, w, n)
    BY <1>2 DEF SentIn, IsTurnEvent, TurnKind
  <1>4. QED
    BY <1>1, <1>2, <1>3 DEF IsTurnEvent, TurnKind

\* The responses that have ended are nobody's.
LEMMA NotReader ==
    ASSUME ServiceInv', NEW c \in Conn, conn'[c].phase # "open", NEW t \in Turn
    PROVE  c \notin Readers(t)'
  <1>1. registry'[t].listeners = {d \in Conn : /\ conn'[d].kind = "replay"
                                               /\ conn'[d].phase = "open" /\ conn'[d].turn = t
                                               /\ registry'[t].status = "running"}
    BY DEF ServiceInv, ListenersExact, Running
  <1>2. handler'[t].response # c
    BY DEF ServiceInv, HandlerInv
  <1>3. QED
    BY <1>1, <1>2 DEF Readers

LEMMA PageRefuse ==
    ASSUME ServiceInv, PageInv, NEW c \in Conn, Refuse(c)
    PROVE  PageInv'
  <1>1. UNCHANGED <<registry, handler, entry>> /\ conn[c].phase = "request"
    BY DEF Refuse
  <1>2. PICK es : es = <<Item("failed")>>
    OBVIOUS
  <1>3. /\ es \in Seq(Wire)
        /\ \A j \in DOMAIN es : ~IsTurnEvent(es[j]) /\ es[j].kind # "ring_overflow"
    BY <1>2, FailedSent
  <1>4. PICK k : k = conn[c]
    OBVIOUS
  <1>5. PICK w : w = Closed(Written(k, es))
    OBVIOUS
  <1>6. ConnOK(k) /\ k.phase = "request" /\ k.wire = <<>> /\ k \in Connection
    BY <1>1, <1>4, Given DEF ConnOK
  <1>7. /\ ConnOK(w) /\ w.phase = "ended"
        /\ ~k.live => w = Free
        /\ k.live => SameLoop(k, w) /\ w.live = TRUE /\ w.wire = k.wire \o es
    BY <1>3, <1>5, <1>6, ClosedWritten
  <1>8. \A d \in Conn : conn'[d] = IF d = c THEN w ELSE conn[d]
    BY <1>2, <1>4, <1>5, Given DEF Refuse
  <1>9. w.live = k.live
    BY <1>6, <1>7, FreeIs, ConnTypes
  <1>10. k.live => LoopIn(registry, w, entry.shown, entry.turnId)
    <2>1. SUFFICES ASSUME k.live PROVE LoopIn(registry, w, entry.shown, entry.turnId)
      OBVIOUS
    <2>2. LoopIn(registry, k, entry.shown, entry.turnId) /\ entry.shown \in Seq(Wire)
      BY <1>4, <2>1, Loops
    <2>3. SentIn(registry, k.turn, es, k.from + Len(entry.shown) + Len(k.wire))
      BY <1>2, FailedSent
    <2>4. QED
      BY <1>3, <1>6, <1>7, <2>1, <2>2, <2>3, Given, LoopWritten
  <1>11. \A t \in Turn : Readers(t)' = Readers(t) /\ c \notin Readers(t)
    <2>1. \A t \in Turn : Readers(t)' = Readers(t)
      BY <1>1 DEF Readers
    <2>2. \A t \in Turn : c \notin Readers(t)
      BY <1>1, ReadersOpen
    <2>3. QED
      BY <2>1, <2>2
  <1>12. ASSUME NEW d \in Conn, conn[d].live
         PROVE  /\ conn'[d].saw = conn[d].saw /\ conn'[d].from = conn[d].from
                /\ LoopIn(registry', conn'[d], entry.shown, entry.turnId)
                /\ \A t \in Turn : d \in Readers(t)' =>
                       conn[d].from + Len(entry.shown) + Len(conn'[d].wire)
                           = registry'[t].totalEmitted
    <2>1. CASE d = c
      BY <1>1, <1>4, <1>7, <1>8, <1>10, <1>11, <1>12, <2>1 DEF SameLoop
    <2>2. CASE d # c
      BY <1>1, <1>8, <1>11, <1>12, <2>2, Loops
    <2>3. QED
      BY <2>1, <2>2
  <1>13. QED
    BY <1>1, <1>4, <1>8, <1>9, <1>12, SameGrows, PageService

\* What a broken connection leaves of a loop.
LEMMA LoopBroken ==
    ASSUME NEW reg \in [Turn -> Entry], NEW k, ConnOK(k), k.live, k.phase = "open",
           NEW shown \in Seq(Wire), NEW id, LoopIn(reg, k, shown, id),
           NEW how \in {"eof", "failed"}, NEW w, w = Broken(k, how)
    PROVE  LoopIn(reg, w, shown, id) /\ SameLoop(k, w) /\ w.live = TRUE
  <1>1. /\ ConnOK(w) /\ w.phase = "ended" /\ SameLoop(k, w) /\ w.live = TRUE
        /\ how = "eof" => w.wire = Last(k.wire)
        /\ how # "eof" => w.wire = <<Item("failed")>>
    BY BrokenOK
  <1>2. CASE how = "eof"
    <2>1. PICK es : es = <<Item("eof")>>
      OBVIOUS
    <2>2. es \in Seq(Wire) /\ Len(es) = 1 /\ DOMAIN es = {1} /\ es[1].kind = "eof"
      <3>1. PICK e \in Wire : e = Item("eof") /\ e.kind = "eof"
        BY EventTypes DEF WireKind
      <3>2. QED
        BY <2>1, <3>1, Single
    <2>3. ~IsTurnEvent(es[1])
      BY <2>2 DEF IsTurnEvent, TurnKind
    <2>4. SentIn(reg, k.turn, es, k.from + Len(shown) + Len(k.wire))
      BY <2>2, <2>3 DEF SentIn
    <2>5. w.wire = k.wire \o es
      BY <1>1, <1>2, <2>1 DEF Last
    <2>6. LoopIn(reg, w, shown, id)
      BY <1>1, <2>2, <2>3, <2>4, <2>5, LoopWritten
    <2>7. QED
      BY <1>1, <2>6 DEF SameLoop
  <1>3. CASE how # "eof"
    <2>1. PICK es : es = <<Item("failed")>>
      OBVIOUS
    <2>2. es \in Seq(Wire) /\ Len(es) = 1 /\ DOMAIN es = {1} /\ es[1].kind = "failed"
      BY <2>1, FailedIs
    <2>3. w.wire = es /\ ~IsTurnEvent(es[1]) /\ es[1].kind # "ring_overflow"
      BY <1>1, <1>3, <2>1, <2>2 DEF IsTurnEvent, TurnKind
    <2>4. \A i \in DOMAIN w.wire : ItemIn(reg, w, i, w.from + Len(shown))
      BY <2>2, <2>3 DEF ItemIn
    <2>5. StartIn(reg, w) /\ ShownIn(w, shown) /\ WholeIn(reg, w, shown)
      BY <1>1 DEF LoopIn, StartIn, ShownIn, WholeIn, SameLoop
    <2>6. LoopIn(reg, w, shown, id)
      BY <1>1, <2>4, <2>5 DEF LoopIn, SameLoop
    <2>7. QED
      BY <1>1, <2>6 DEF SameLoop
  <1>4. QED
    BY <1>2, <1>3

LEMMA PageBreak ==
    ASSUME ServiceInv, PageInv, NEW c \in Conn, NEW how \in {"eof", "failed"}, Break(c, how)
    PROVE  PageInv'
  <1>1. /\ registry' \in [Turn -> Entry] /\ Grows(registry, registry')
        /\ \A t \in Turn : /\ Readers(t)' = Readers(t) \ {c}
                           /\ registry'[t].totalEmitted = registry[t].totalEmitted
    BY UnsubscribedIs DEF Break
  <1>2. PICK k : k = conn[c]
    OBVIOUS
  <1>3. ConnOK(k) /\ k.live = TRUE /\ k.phase = "open"
    BY <1>2, Given, ConnTypes DEF Break, Live, ConnOK
  <1>4. PICK w : w = Broken(k, how)
    OBVIOUS
  <1>5. \A d \in Conn : conn'[d] = IF d = c THEN w ELSE conn[d]
    BY <1>2, <1>4, Given DEF Break
  <1>6. entry' = entry
    BY DEF Break
  <1>7. PICK v \in [Turn -> Entry] : v = registry'
    BY <1>1
  <1>8. LoopIn(v, k, entry.shown, entry.turnId)
    <2>1. /\ LoopIn(registry, k, entry.shown, entry.turnId) /\ entry.shown \in Seq(Wire)
          /\ k.turn # NoTurn => registry[k.turn].status # "none"
      BY <1>2, <1>3, Given, Loops
    <2>2. QED
      BY <1>1, <1>3, <1>7, <2>1, Given, LoopGrows
  <1>9. LoopIn(v, w, entry.shown, entry.turnId) /\ w.saw = k.saw /\ w.from = k.from /\ w.live = TRUE
    <2>1. k.live /\ entry.shown \in Seq(Wire)
      BY <1>3, Loops
    <2>2. PICK shown \in Seq(Wire) : shown = entry.shown
      BY <2>1
    <2>3. PICK id : id = entry.turnId
      OBVIOUS
    <2>4. LoopIn(v, k, shown, id)
      BY <1>8, <2>2, <2>3
    <2>5. ConnOK(k) /\ k.phase = "open"
      BY <1>3
    <2>6. LoopIn(v, w, shown, id) /\ SameLoop(k, w) /\ w.live = TRUE
      BY <1>4, <1>7, <2>1, <2>2, <2>4, <2>5, LoopBroken
    <2>7. QED
      BY <2>2, <2>6, <2>3 DEF SameLoop
  <1>10. ASSUME NEW d \in Conn, conn[d].live
         PROVE  /\ conn'[d].saw = conn[d].saw /\ conn'[d].from = conn[d].from
                /\ LoopIn(registry', conn'[d], entry.shown, entry.turnId)
                /\ \A t \in Turn : d \in Readers(t)' =>
                       conn[d].from + Len(entry.shown) + Len(conn'[d].wire)
                           = registry'[t].totalEmitted
    <2>1. CASE d = c
      BY <1>1, <1>2, <1>5, <1>7, <1>9, <2>1
    <2>2. CASE d # c
      BY <1>1, <1>5, <1>10, <2>2, LoopSame, Loops
    <2>3. QED
      BY <2>1, <2>2
  <1>11. \A d \in Conn : conn'[d].live = conn[d].live
    BY <1>2, <1>3, <1>5, <1>9
  <1>12. QED
    BY <1>1, <1>6, <1>10, <1>11, PageService
\* es is written to everybody who reads turn t.
Wrote(t, es) ==
    /\ registry' \in [Turn -> Entry] /\ Grows(registry, registry')
    /\ SentIn(registry', t, es, registry[t].totalEmitted)
    /\ \A c \in Conn : c \notin Readers(t) => conn'[c] = conn[c]
    /\ \A c \in Conn : conn'[c].live = conn[c].live
    /\ \A c \in Readers(t) : conn[c].live =>
           /\ ConnOK(conn'[c]) /\ SameLoop(conn[c], conn'[c]) /\ conn'[c].phase # "request"
           /\ conn'[c].wire = conn[c].wire \o es
    /\ \A u \in Turn : Readers(u)' \subseteq Readers(u)
    /\ \A u \in Turn : u # t => registry'[u].totalEmitted = registry[u].totalEmitted
    /\ \A c \in Readers(t)' : registry'[t].totalEmitted = registry[t].totalEmitted + Len(es)

LEMMA PageWrote ==
    ASSUME ServiceInv, PageInv, NEW t \in Turn, NEW es \in Seq(Wire), Wrote(t, es),
           entry' = entry
    PROVE  PageInv'
  <1>1. ASSUME NEW c \in Conn, c \in Readers(t), conn[c].live
        PROVE  /\ conn'[c].saw = conn[c].saw /\ conn'[c].from = conn[c].from
               /\ LoopIn(registry', conn'[c], entry.shown, entry.turnId)
               /\ Len(conn'[c].wire) = Len(conn[c].wire) + Len(es)
               /\ conn[c].turn = t
    <2>1. PICK k : k = conn[c]
      OBVIOUS
    <2>2. ConnOK(k) /\ k.phase = "open" /\ k.turn = t /\ k.turn # NoTurn
      BY <1>1, <2>1, Given, ReadersOpen DEF Turn, NoTurn
    <2>3. PICK w : w = conn'[c]
      OBVIOUS
    <2>4. /\ ConnOK(w) /\ SameLoop(k, w) /\ w.phase # "request"
          /\ w.wire = k.wire \o es
      BY <1>1, <2>1, <2>3 DEF Wrote
    <2>5. PICK shown, id : shown = entry.shown /\ shown \in Seq(Wire) /\ id = entry.turnId
      BY Loops
    <2>6. PICK v \in [Turn -> Entry] : v = registry' /\ Grows(registry, v)
      BY DEF Wrote
    <2>7. LoopIn(v, k, shown, id)
      <3>1. LoopIn(registry, k, shown, id)
        BY <1>1, <2>1, <2>5, Loops
      <3>2. k.turn # NoTurn => registry[k.turn].status # "none"
        BY <2>1, Given
      <3>3. QED
        BY <2>2, <2>5, <2>6, <3>1, <3>2, Given, LoopGrows
    <2>8. registry[t].totalEmitted = k.from + Len(shown) + Len(k.wire)
      BY <1>1, <2>1, <2>5, Loops
    <2>9. SentIn(v, k.turn, es, k.from + Len(shown) + Len(k.wire))
      BY <2>2, <2>6, <2>8 DEF Wrote
    <2>10. LoopIn(v, w, shown, id)
      BY <2>2, <2>4, <2>5, <2>6, <2>7, <2>9, LoopWritten
    <2>11. Len(w.wire) = Len(k.wire) + Len(es)
      BY <2>2, <2>4, ConnTypes, Concat DEF ConnOK
    <2>12. QED
      BY <2>1, <2>2, <2>3, <2>4, <2>5, <2>6, <2>10, <2>11 DEF SameLoop
  <1>2. ASSUME NEW c \in Conn, conn[c].live
        PROVE  /\ conn'[c].saw = conn[c].saw /\ conn'[c].from = conn[c].from
               /\ LoopIn(registry', conn'[c], entry.shown, entry.turnId)
               /\ \A u \in Turn : c \in Readers(u)' =>
                      conn[c].from + Len(entry.shown) + Len(conn'[c].wire)
                          = registry'[u].totalEmitted
    <2>1. CASE c \in Readers(t)
      <3>1. /\ conn'[c].saw = conn[c].saw /\ conn'[c].from = conn[c].from
            /\ LoopIn(registry', conn'[c], entry.shown, entry.turnId)
            /\ Len(conn'[c].wire) = Len(conn[c].wire) + Len(es) /\ conn[c].turn = t
        BY <1>1, <1>2, <2>1
      <3>2. SUFFICES ASSUME NEW u \in Turn, c \in Readers(u)'
                     PROVE  conn[c].from + Len(entry.shown) + Len(conn'[c].wire)
                                = registry'[u].totalEmitted
        BY <3>1
      <3>3. c \in Readers(u)
        BY <3>2 DEF Wrote
      <3>4. u = t
        BY <3>1, <3>3, ReadersOpen
      <3>5. registry'[t].totalEmitted = registry[t].totalEmitted + Len(es)
        BY <3>2, <3>4 DEF Wrote
      <3>6. registry[t].totalEmitted = conn[c].from + Len(entry.shown) + Len(conn[c].wire)
        BY <1>2, <2>1, Loops
      <3>7. /\ conn[c].from \in Nat /\ Len(entry.shown) \in Nat
            /\ Len(conn[c].wire) \in Nat /\ Len(es) \in Nat
        <4>1. conn[c].from \in Nat /\ conn[c].wire \in Seq(Wire)
          BY Given, ConnTypes
        <4>2. QED
          BY <4>1, Loops
      <3>8. Len(conn'[c].wire) = Len(conn[c].wire) + Len(es)
        BY <3>1
      <3>9. conn[c].from + Len(entry.shown) + (Len(conn[c].wire) + Len(es))
                = (conn[c].from + Len(entry.shown) + Len(conn[c].wire)) + Len(es)
        <4>1. PICK m \in Nat, n \in Nat, o \in Nat, p \in Nat :
                  /\ m = conn[c].from /\ n = Len(entry.shown)
                  /\ o = Len(conn[c].wire) /\ p = Len(es)
          BY <3>7
        <4>2. m + n + (o + p) = (m + n + o) + p
          OBVIOUS
        <4>3. m + n + (o + p) = conn[c].from + Len(entry.shown) + (Len(conn[c].wire) + Len(es))
          BY <4>1, Zenon
        <4>4. (m + n + o) + p = (conn[c].from + Len(entry.shown) + Len(conn[c].wire)) + Len(es)
          BY <4>1, Zenon
        <4>5. QED
          BY <4>2, <4>3, <4>4, Zenon
      <3>10. conn[c].from + Len(entry.shown) + Len(conn'[c].wire)
                 = registry[t].totalEmitted + Len(es)
        BY <3>6, <3>8, <3>9
      <3>11. QED
        BY <3>4, <3>5, <3>10
    <2>2. CASE c \notin Readers(t)
      <3>1. conn'[c] = conn[c] /\ registry' \in [Turn -> Entry] /\ Grows(registry, registry')
        BY <2>2 DEF Wrote
      <3>2. /\ conn'[c].saw = conn[c].saw /\ conn'[c].from = conn[c].from
            /\ LoopIn(registry', conn'[c], entry.shown, entry.turnId)
        BY <1>2, <3>1, LoopSame
      <3>3. SUFFICES ASSUME NEW u \in Turn, c \in Readers(u)'
                     PROVE  conn[c].from + Len(entry.shown) + Len(conn'[c].wire)
                                = registry'[u].totalEmitted
        BY <3>2
      <3>4. c \in Readers(u) /\ u # t
        BY <2>2, <3>3 DEF Wrote
      <3>5. registry'[u].totalEmitted = registry[u].totalEmitted
        BY <3>4 DEF Wrote
      <3>6. QED
        BY <1>2, <3>1, <3>4, <3>5, Loops
    <2>3. QED
      BY <2>1, <2>2
  <1>3. QED
    BY <1>2, PageService DEF Wrote

LEMMA PageEmit ==
    ASSUME ServiceInv, PageInv, NEW t \in Turn, Emit(t)
    PROVE  PageInv'
  <1>1. PICK es \in Seq(Wire), p \in Entry :
             /\ es = Emitted(t, "token")
             /\ p.status = "running" /\ p.listeners = registry[t].listeners
             /\ p.finishedAt = 0
             /\ p.totalEmitted = registry[t].totalEmitted + 1
             /\ p.startOffset >= registry[t].startOffset
             /\ registry' \in [Turn -> Entry]
             /\ \A u \in Turn : registry'[u] = IF u = t THEN p ELSE registry[u]
             /\ \A c \in Conn : conn'[c] = IF c \in Readers(t) THEN Written(conn[c], es)
                                                               ELSE conn[c]
             /\ \A c \in Conn : ConnOK(conn'[c])
             /\ \A c \in Readers(t) : SameLoop(conn[c], conn'[c]) /\ conn'[c].phase = "open"
    BY EmitIs
  <1>2. /\ Len(es) = 1 /\ Numbering(es, t, registry[t].totalEmitted)
        /\ \A i \in DOMAIN es : IsTurnEvent(es[i]) /\ es[i].kind = "token"
    BY <1>1, TokenIs
  <1>3. /\ handler' = handler /\ entry' = entry
        /\ registry[t].status = "running" /\ registry[t].finishedAt = 0
    BY RunningRing DEF Emit
  <1>4. \A u \in Turn : registry[u].totalEmitted \in Nat /\ registry[u].startOffset \in Nat
    BY Given DEF Entry
  <1>5. Grows(registry, registry')
    BY <1>1, <1>3, <1>4 DEF Grows, Lasts
  <1>6. SentIn(registry', t, es, registry[t].totalEmitted)
    <2>1. SUFFICES ASSUME NEW j \in DOMAIN es
                   PROVE  /\ IsTurnEvent(es[j]) /\ es[j].turn = t
                          /\ es[j].n = registry[t].totalEmitted + j - 1
                          /\ es[j].n < registry'[t].totalEmitted
                          /\ Placed(es[j], registry'[t].finishedAt)
                          /\ es[j].kind # "ring_overflow"
      BY DEF SentIn
    <2>2. j = 1
      BY <1>2
    <2>3. registry'[t].totalEmitted = registry[t].totalEmitted + 1
      BY <1>1
    <2>4. Placed(es[j], registry'[t].finishedAt)
      BY <1>1, <1>2 DEF Placed
    <2>5. QED
      BY <1>2, <1>4, <2>2, <2>3, <2>4 DEF Numbering
  <1>7. ASSUME NEW c \in Conn
        PROVE  /\ conn'[c].live = conn[c].live
               /\ c \in Readers(t) /\ conn[c].live => conn'[c].wire = conn[c].wire \o es
    <2>1. PICK k \in Connection : k = conn[c]
      BY Given
    <2>2. PICK w : w = Written(k, es)
      OBVIOUS
    <2>3. w.live = k.live /\ (k.live => w.wire = k.wire \o es)
      BY <2>2, WrittenIs
    <2>4. QED
      BY <1>1, <2>1, <2>2, <2>3
  <1>8. \A u \in Turn : Readers(u)' = Readers(u)
    BY <1>1, <1>3 DEF Readers
  <1>9. Wrote(t, es)
    <2>1. \A c \in Readers(t) : conn[c].live =>
              /\ ConnOK(conn'[c]) /\ SameLoop(conn[c], conn'[c]) /\ conn'[c].phase # "request"
              /\ conn'[c].wire = conn[c].wire \o es
      BY <1>1, <1>7, ReadersOpen
    <2>2. registry'[t].totalEmitted = registry[t].totalEmitted + Len(es)
      BY <1>1, <1>2
    <2>3. \A u \in Turn : u # t => registry'[u].totalEmitted = registry[u].totalEmitted
      BY <1>1
    <2>4. \A c \in Conn : c \notin Readers(t) => conn'[c] = conn[c]
      BY <1>1
    <2>5. QED
      BY <1>1, <1>5, <1>6, <1>7, <1>8, <2>1, <2>2, <2>3, <2>4 DEF Wrote
  <1>10. QED
    BY <1>1, <1>3, <1>9, PageWrote

\* What a late tool adds reaches the ring alone.
LEMMA PageEmitLate ==
    ASSUME ServiceInv, PageInv, NEW t \in Turn, EmitLate(t)
    PROVE  PageInv'
  <1>1. handler' = handler /\ conn' = conn /\ entry' = entry
        /\ registry[t].status \in {"done", "error"}
    BY DEF EmitLate
  <1>2. PICK p \in Entry :
             /\ p.status = registry[t].status /\ p.listeners = registry[t].listeners
             /\ p.finishedAt = registry[t].finishedAt
             /\ p.totalEmitted = registry[t].totalEmitted + 1
             /\ p.startOffset >= registry[t].startOffset
             /\ registry' \in [Turn -> Entry]
             /\ \A u \in Turn : registry'[u] = IF u = t THEN p ELSE registry[u]
    BY LateIs
  <1>3. \A u \in Turn : /\ registry[u].totalEmitted \in Nat /\ registry[u].startOffset \in Nat
                        /\ registry[u].finishedAt \in Nat
    BY Given DEF Entry
  <1>4. Grows(registry, registry')
    BY <1>2, <1>3 DEF Grows, Lasts
  <1>5. \A u \in Turn : Readers(u)' = Readers(u)
    BY <1>1, <1>2 DEF Readers
  <1>6. Readers(t) = {}
    <2>1. registry[t].listeners = {}
      BY <1>1, Given DEF ListenersExact, Running
    <2>2. handler[t].response \in Conn \cup {NoConn} /\ handler[t].response \notin Conn
      BY <1>1, Given DEF HandlerInv
    <2>3. QED
      BY <2>1, <2>2 DEF Readers
  <1>7. \A u \in Turn : u # t => registry'[u].totalEmitted = registry[u].totalEmitted
    BY <1>2
  <1>8. QED
    BY <1>1, <1>2, <1>4, <1>5, <1>6, <1>7, LoopSame, Loops, PageService

LEMMA PageEnd ==
    ASSUME ServiceInv, PageInv, NEW t \in Turn,
           NEW how \in {"done", "aborted", "error"}, End(t, how)
    PROVE  PageInv'
  <1>1. PICK es \in Seq(Wire), q \in Entry : EndEffect(t, how, es, q)
    BY EndIs
  <1>2. entry' = entry /\ registry[t].status = "running" /\ registry[t].finishedAt = 0
    BY RunningRing DEF End
  <1>3. \A u \in Turn : registry[u].totalEmitted \in Nat /\ registry[u].startOffset \in Nat
    BY Given DEF Entry
  <1>4. /\ q.listeners = {} /\ q.status \in {"done", "error"}
        /\ q.finishedAt = q.totalEmitted /\ Len(es) \in 1 .. 2 /\ InPlace(es, q.finishedAt)
        /\ q.totalEmitted = registry[t].totalEmitted + Len(es)
        /\ q.startOffset >= registry[t].startOffset
        /\ registry' \in [Turn -> Entry]
        /\ \A u \in Turn : registry'[u] = IF u = t THEN q ELSE registry[u]
    BY <1>1 DEF EndEffect
  <1>5. Len(es) \in Nat /\ DOMAIN es = 1 .. Len(es)
    OBVIOUS
  <1>6. Grows(registry, registry')
    <2>1. q.finishedAt > registry[t].totalEmitted /\ q.totalEmitted >= registry[t].totalEmitted
      <3>1. PICK n \in Nat : n = registry[t].totalEmitted
        BY <1>3
      <3>a. PICK l \in 1 .. 2 : l = Len(es)
        BY <1>4
      <3>2. q.finishedAt = n + l /\ q.totalEmitted = n + l
        BY <1>4, <3>1, <3>a
      <3>3. QED
        BY <3>1, <3>2
    <2>2. QED
      BY <1>2, <1>3, <1>4, <2>1 DEF Grows, Lasts
  <1>7. SentIn(registry', t, es, registry[t].totalEmitted) /\ \A j \in DOMAIN es : IsTurnEvent(es[j])
    <2>1. SUFFICES ASSUME NEW j \in DOMAIN es
                   PROVE  /\ IsTurnEvent(es[j]) /\ es[j].turn = t
                          /\ es[j].n = registry[t].totalEmitted + j - 1
                          /\ es[j].n < registry'[t].totalEmitted
                          /\ Placed(es[j], registry'[t].finishedAt)
                          /\ es[j].kind # "ring_overflow"
      BY DEF SentIn
    <2>2. /\ IsTurnEvent(es[j]) /\ es[j].turn = t
          /\ es[j].n = registry[t].totalEmitted + j - 1
      BY <1>1 DEF EndEffect, Numbering
    <2>3. registry'[t].totalEmitted = registry[t].totalEmitted + Len(es)
      BY <1>4
    <2>4. Placed(es[j], registry'[t].finishedAt)
      BY <1>4 DEF InPlace
    <2>5. QED
      BY <1>3, <1>5, <2>2, <2>3, <2>4 DEF IsTurnEvent, TurnKind
  <1>8. PICK w : w = Last(es)
    OBVIOUS
  <1>9. w \in Seq(Wire) /\ SentIn(registry', t, w, registry[t].totalEmitted)
    <2>1. PICK v, n : v = registry' /\ n = registry[t].totalEmitted
      OBVIOUS
    <2>2. SentIn(v, t, w, n) /\ w \in Seq(Wire)
      BY <1>7, <1>8, <2>1, LastSent
    <2>3. QED
      BY <2>1, <2>2
  <1>10. ASSUME NEW c \in Conn
         PROVE  /\ conn'[c].live = conn[c].live
                /\ c \in Readers(t) /\ conn[c].live =>
                       conn'[c].wire = conn[c].wire \o w /\ SameLoop(conn[c], conn'[c])
    <2>1. conn[c].live \in BOOLEAN
      BY Given, ConnTypes
    <2>2. c \in Readers(t) /\ conn[c].live =>
              /\ conn'[c].live = TRUE /\ conn'[c].wire = conn[c].wire \o w
              /\ SameLoop(conn[c], conn'[c])
      BY <1>1, <1>8 DEF EndEffect
    <2>3. c \in Readers(t) /\ ~conn[c].live => conn'[c].live = FALSE
      BY <1>1, FreeIs DEF EndEffect
    <2>4. c \notin Readers(t) => conn'[c] = conn[c]
      BY <1>1 DEF EndEffect
    <2>5. QED
      BY <2>1, <2>2, <2>3, <2>4
  <1>11. /\ \A u \in Turn : Readers(u)' \subseteq Readers(u)
         /\ Readers(t)' = {}
    <2>1. handler' = [handler EXCEPT ![t].response = NoConn]
      BY DEF End
    <2>2. \A u \in Turn : handler'[u].response = IF u = t THEN NoConn ELSE handler[u].response
      BY <2>1, Given
    <2>3. QED
      BY <1>4, <2>2 DEF Readers
  <1>12. Wrote(t, w)
    <2>1. \A c \in Readers(t) : conn[c].live =>
              /\ ConnOK(conn'[c]) /\ SameLoop(conn[c], conn'[c]) /\ conn'[c].phase # "request"
              /\ conn'[c].wire = conn[c].wire \o w
      BY <1>1, <1>10, ReadersOpen DEF EndEffect
    <2>2. \A u \in Turn : u # t => registry'[u].totalEmitted = registry[u].totalEmitted
      BY <1>4
    <2>3. \A c \in Conn : c \notin Readers(t) => conn'[c] = conn[c]
      BY <1>1 DEF EndEffect
    <2>4. QED
      BY <1>4, <1>6, <1>9, <1>10, <1>11, <2>1, <2>2, <2>3 DEF Wrote
  <1>13. QED
    BY <1>2, <1>9, <1>12, PageWrote
LEMMA PageRestart ==
    ASSUME ServiceInv, PageInv, NEW how \in {"eof", "failed"}, Restart(how)
    PROVE  PageInv'
  <1>1. /\ registry' = [t \in Turn |-> IF registry[t].status = "none" THEN registry[t]
                                                                     ELSE Deleted(registry[t])]
        /\ \A c \in Conn : conn'[c] = IF conn[c].phase = "open" THEN Broken(conn[c], how)
                                                                ELSE conn[c]
        /\ entry' = entry
    BY DEF Restart
  <1>2. ASSUME NEW t \in Turn
        PROVE  /\ registry'[t] \in Entry
               /\ registry'[t].startOffset = registry[t].startOffset
               /\ registry'[t].totalEmitted = registry[t].totalEmitted
               /\ registry'[t].finishedAt = registry[t].finishedAt
               /\ registry[t].status # "none" => registry'[t].status = "swept"
               /\ registry[t].totalEmitted \in Nat /\ registry[t].startOffset \in Nat
    <2>1. PICK r \in Entry : r = registry[t] /\ RingOK(r, t)
      BY Given
    <2>2. CASE r.status = "none"
      BY <1>1, <2>1, <2>2 DEF Entry
    <2>3. CASE r.status # "none"
      <3>1. registry'[t] = Deleted(r)
        BY <1>1, <2>1, <2>3
      <3>2. PICK q : q = Deleted(r)
        OBVIOUS
      <3>3. /\ q \in Entry /\ q.status = "swept" /\ q.startOffset = r.startOffset
            /\ q.totalEmitted = r.totalEmitted /\ q.finishedAt = r.finishedAt
        BY <2>1, <2>3, <3>2, RingDeleted
      <3>4. r.totalEmitted \in Nat /\ r.startOffset \in Nat
        BY DEF Entry
      <3>5. QED
        BY <2>1, <3>1, <3>2, <3>3, <3>4
    <2>4. QED
      BY <2>2, <2>3
  <1>3. PICK v \in [Turn -> Entry] : v = registry'
    BY <1>1, <1>2
  <1>4. Grows(registry, v)
    BY <1>2, <1>3 DEF Grows, Lasts
  <1>5. ASSUME NEW c \in Conn
        PROVE  /\ conn'[c].phase # "open"
               /\ conn'[c].live = conn[c].live
               /\ conn[c].live =>
                      /\ conn'[c].saw = conn[c].saw /\ conn'[c].from = conn[c].from
                      /\ LoopIn(v, conn'[c], entry.shown, entry.turnId)
    <2>1. PICK k : k = conn[c]
      OBVIOUS
    <2>2. ConnOK(k) /\ k.live \in BOOLEAN
      BY <2>1, Given, ConnTypes
    <2>3. CASE k.phase # "open"
      <3>1. conn'[c] = conn[c]
        BY <1>1, <2>1, <2>3
      <3>2. conn[c].live => LoopIn(registry', conn'[c], entry.shown, entry.turnId)
        BY <1>3, <1>4, <3>1, LoopSame
      <3>3. QED
        BY <1>3, <2>1, <2>3, <3>1, <3>2
    <2>4. CASE k.phase = "open"
      <3>1. PICK w : w = Broken(k, how)
        OBVIOUS
      <3>2. conn'[c] = w
        BY <1>1, <2>1, <2>4, <3>1
      <3>3. CASE ~k.live
        <4>1. w = Free /\ k.live = FALSE
          BY <2>2, <3>1, <3>3, BrokenOK
        <4>2. QED
          BY <2>1, <3>2, <3>3, <4>1, FreeIs
      <3>4. CASE k.live
        <4>1. PICK shown, id : shown = entry.shown /\ shown \in Seq(Wire) /\ id = entry.turnId
          BY Loops
        <4>2. LoopIn(registry, k, shown, id)
          BY <2>1, <3>4, <4>1, Loops
        <4>3. k.turn # NoTurn => registry[k.turn].status # "none"
          BY <2>1, Given
        <4>4. LoopIn(v, k, shown, id)
          BY <1>3, <1>4, <2>2, <4>1, <4>2, <4>3, Given, LoopGrows
        <4>5. LoopIn(v, w, shown, id) /\ SameLoop(k, w) /\ w.live = TRUE
          BY <1>3, <2>2, <2>4, <3>1, <3>4, <4>1, <4>4, LoopBroken
        <4>6. w.phase = "ended"
          BY <2>2, <3>1, BrokenOK
        <4>7. k.live = TRUE
          BY <2>2, <3>4
        <4>8. QED
          BY <2>1, <3>2, <4>1, <4>5, <4>6, <4>7 DEF SameLoop
      <3>5. QED
        BY <3>3, <3>4
    <2>5. QED
      BY <2>3, <2>4
  <1>6. ServiceInv'
    BY ServiceRestart
  <1>7. \A c \in Conn : \A t \in Turn : c \notin Readers(t)'
    BY <1>5, <1>6, NotReader
  <1>8. QED
    BY <1>1, <1>3, <1>4, <1>5, <1>7, PageService

\* A step that changes one connection and perhaps the entry of its turn.
LEMMA PageServed ==
    ASSUME ServiceInv, PageInv, registry' \in [Turn -> Entry], Grows(registry, registry'),
           entry' = entry, NEW c \in Conn, conn[c].phase = "request",
           NEW w, conn' = [conn EXCEPT ![c] = w], w.live = conn[c].live,
           conn[c].live =>
               /\ w.saw = conn[c].saw /\ w.from = conn[c].from
               /\ LoopIn(registry', w, <<>>, entry.turnId)
               /\ \A t \in Turn : c \in Readers(t)' =>
                      conn[c].from + Len(w.wire) = registry'[t].totalEmitted,
           \A t \in Turn : \A d \in Conn \ {c} : d \in Readers(t)' =>
               d \in Readers(t) /\ registry'[t].totalEmitted = registry[t].totalEmitted
    PROVE  PageInv'
  <1>1. \A d \in Conn : conn'[d] = IF d = c THEN w ELSE conn[d]
    BY Given
  <1>2. ASSUME NEW d \in Conn, conn[d].live
        PROVE  /\ conn'[d].saw = conn[d].saw /\ conn'[d].from = conn[d].from
               /\ LoopIn(registry', conn'[d], entry.shown, entry.turnId)
               /\ \A t \in Turn : d \in Readers(t)' =>
                      conn[d].from + Len(entry.shown) + Len(conn'[d].wire)
                          = registry'[t].totalEmitted
    <2>1. CASE d = c
      <3>1. entry.shown = <<>>
        BY <1>2, <2>1, Loops DEF LoopIn
      <3>2. Len(entry.shown) = 0
        BY <3>1
      <3>3. conn[c].from + 0 = conn[c].from
        BY Given, ConnTypes
      <3>4. QED
        BY <1>1, <1>2, <2>1, <3>1, <3>2, <3>3
    <2>2. CASE d # c
      BY <1>1, <1>2, <2>2, LoopSame, Loops
    <2>3. QED
      BY <2>1, <2>2
  <1>3. \A d \in Conn : conn'[d].live = conn[d].live
    BY <1>1
  <1>4. QED
    BY <1>2, <1>3, PageService

LEMMA PageAccept ==
    ASSUME ServiceInv, PageInv, NEW c \in Conn, Accept(c)
    PROVE  PageInv'
  <1>1. PICK t \in Turn, es \in Seq(Wire), p \in Entry, w \in Connection :
            AcceptEffect(c, t, es, p, w)
    BY AcceptIs
  <1>2. entry' = entry
    BY DEF Accept
  <1>3. /\ conn[c].kind = "turn" /\ conn[c].phase = "request" /\ registry[t].status = "none"
        /\ Len(es) = 1 /\ Numbering(es, t, 0) /\ es = Started(t)
        /\ p.status = "running" /\ p.listeners = {} /\ p.totalEmitted = 1 /\ p.finishedAt = 0
        /\ ConnOK(w) /\ w.kind = "turn" /\ w.turn = t /\ w.phase = "open"
        /\ w.live = conn[c].live /\ w.from = conn[c].from /\ w.saw = conn[c].saw
        /\ conn[c].live => w.wire = <<>> \o es
        /\ conn' = [conn EXCEPT ![c] = w]
    BY <1>1 DEF AcceptEffect
  <1>4. /\ registry' \in [Turn -> Entry]
        /\ \A u \in Turn : registry'[u] = IF u = t THEN p ELSE registry[u]
        /\ \A u \in Turn : handler'[u].response = IF u = t THEN c ELSE handler[u].response
    BY <1>1, Given DEF AcceptEffect
  <1>5. \A u \in Turn : registry[u].totalEmitted \in Nat /\ registry[u].startOffset \in Nat
    BY Given DEF Entry
  <1>6. Grows(registry, registry')
    BY <1>3, <1>4, <1>5 DEF Grows, Lasts
  <1>7. w.live => /\ w.from = 0 /\ entry.turnId = NoTurn
                  /\ LoopIn(registry', w, <<>>, entry.turnId)
                  /\ Len(w.wire) = 1
    <2>1. SUFFICES ASSUME w.live
                   PROVE  /\ w.from = 0 /\ entry.turnId = NoTurn
                          /\ LoopIn(registry', w, <<>>, entry.turnId)
                          /\ Len(w.wire) = 1
      OBVIOUS
    <2>2. conn[c].live /\ w.wire = es
      <3>1. <<>> \o es = es
        OBVIOUS
      <3>2. QED
        BY <1>3, <2>1, <3>1
    <2>3. LoopIn(registry, conn[c], entry.shown, entry.turnId)
      BY <2>2, Loops
    <2>4. conn[c].turn = NoTurn
      BY <1>3, <2>3 DEF LoopIn
    <2>5. w.from = 0 /\ entry.turnId = NoTurn
      BY <1>3, <2>3, <2>4 DEF LoopIn, StartIn
    <2>6. Len(<<>>) = 0 /\ DOMAIN <<>> = {}
      OBVIOUS
    <2>7. \A i \in DOMAIN w.wire : ItemIn(registry', w, i, w.from + 0)
      <3>1. DOMAIN es = {1}
        BY <1>3
      <3>2. /\ IsTurnEvent(es[1]) /\ es[1].turn = t /\ es[1].n = 0
            /\ es[1].kind # "done"
        <4>1. 1 \in DOMAIN es /\ 0 + 1 - 1 = 0
          BY <3>1
        <4>2. IsTurnEvent(es[1]) /\ es[1].turn = t /\ es[1].n = 0 + 1 - 1
          BY <1>3, <4>1 DEF Numbering
        <4>3. es[1].kind # "done"
          BY <1>3, <4>1, StartedIs
        <4>4. QED
          BY <4>1, <4>2, <4>3
      <3>3. /\ registry'[t].totalEmitted = 1 /\ t # NoTurn
            /\ Placed(es[1], registry'[t].finishedAt)
        BY <1>3, <1>4, <3>2 DEF Turn, NoTurn, Placed
      <3>4. es[1].kind # "ring_overflow"
        BY <3>2 DEF IsTurnEvent, TurnKind
      <3>5. QED
        BY <1>3, <2>2, <2>5, <3>1, <3>2, <3>3, <3>4 DEF ItemIn
    <2>8. StartIn(registry', w) /\ ShownIn(w, <<>>) /\ WholeIn(registry', w, <<>>)
      <3>1. w.saw # "done"
        BY <1>3, <2>3, <2>4 DEF LoopIn, WholeIn
      <3>2. QED
        BY <2>5, <2>6, <3>1 DEF StartIn, ShownIn, WholeIn
    <2>9. QED
      BY <1>3, <2>2, <2>5, <2>6, <2>7, <2>8 DEF LoopIn
  <1>8. ASSUME NEW u \in Turn, NEW d \in Conn \ {c}, d \in Readers(u)'
        PROVE  d \in Readers(u) /\ registry'[u].totalEmitted = registry[u].totalEmitted
    BY <1>3, <1>4, <1>8 DEF Readers
  <1>9. \A u \in Turn : c \in Readers(u)' => u = t
    <2>1. \A u \in Turn : c \notin Readers(u)
      BY <1>3, ReadersOpen
    <2>2. QED
      BY <1>4, <2>1 DEF Readers
  <1>10. \A u \in Turn : c \in Readers(u)' =>
             (conn[c].live => conn[c].from + Len(w.wire) = registry'[u].totalEmitted)
    <2>1. registry'[t].totalEmitted = 1
      BY <1>3, <1>4
    <2>2. conn[c].live => conn[c].from + Len(w.wire) = 1
      <3>1. SUFFICES ASSUME conn[c].live PROVE conn[c].from + Len(w.wire) = 1
        OBVIOUS
      <3>2. w.from = 0 /\ Len(w.wire) = 1
        BY <1>3, <1>7, <3>1
      <3>3. conn[c].from = 0
        BY <1>3, <3>2
      <3>4. QED
        BY <3>2, <3>3
    <2>3. QED
      BY <1>9, <2>1, <2>2
  <1>11. QED
    BY <1>2, <1>3, <1>4, <1>6, <1>7, <1>8, <1>10, PageServed
\* What a replay gets of the ring.
LEMMA SuffixSent ==
    ASSUME NEW reg \in [Turn -> Entry], NEW t \in Turn, RingOK(reg[t], t),
           reg[t].status # "swept", NEW from \in Nat, from >= reg[t].startOffset,
           NEW es, es = Suffix(reg[t], from)
    PROVE  /\ es \in Seq(Wire) /\ SentIn(reg, t, es, from)
           /\ \A j \in DOMAIN es : IsTurnEvent(es[j])
           /\ from <= reg[t].totalEmitted => from + Len(es) = reg[t].totalEmitted
  <1>1. PICK r \in Entry : r = reg[t]
    OBVIOUS
  <1>2. /\ es \in Seq(Wire) /\ Numbering(es, t, from)
        /\ \A i \in DOMAIN es : es[i].n < r.totalEmitted /\ Placed(es[i], r.finishedAt)
        /\ from <= r.totalEmitted => Len(es) = r.totalEmitted - from
    BY <1>1, SuffixIs
  <1>3. \A j \in DOMAIN es : IsTurnEvent(es[j]) /\ es[j].kind # "ring_overflow"
    BY <1>2 DEF Numbering, IsTurnEvent, TurnKind
  <1>4. SentIn(reg, t, es, from)
    BY <1>1, <1>2, <1>3 DEF SentIn, Numbering
  <1>5. r.totalEmitted \in Nat
    BY DEF Entry
  <1>6. from <= reg[t].totalEmitted => from + Len(es) = reg[t].totalEmitted
    BY <1>1, <1>2, <1>5
  <1>7. QED
    BY <1>2, <1>3, <1>4, <1>6

\* The answers of the replay endpoint that end at once.
LEMMA AnswersSent ==
    ASSUME NEW reg \in [Turn -> Entry], NEW t \in Turn, RingOK(reg[t], t),
           NEW from \in Nat, NEW es, Answers(reg[t], from, es)
    PROVE  es \in Seq(Wire) /\ SentIn(reg, t, es, from)
  <1>1. CASE es = <<Item("failed")>>
    BY <1>1, FailedSent
  <1>2. CASE es = Overflow(reg[t].startOffset)
    <2>1. PICK n \in Nat : n = reg[t].startOffset
      BY DEF Entry
    <2>2. /\ es \in Seq(Wire) /\ Len(es) = 1 /\ DOMAIN es = {1}
          /\ es[1].kind = "ring_overflow" /\ es[1].n = n
      BY <1>2, <2>1, OverflowIs
    <2>3. ~IsTurnEvent(es[1])
      BY <2>2 DEF IsTurnEvent, TurnKind
    <2>4. SentIn(reg, t, es, from)
      BY <2>1, <2>2, <2>3 DEF SentIn
    <2>5. QED
      BY <2>2, <2>4
  <1>3. CASE /\ es = Last(Suffix(reg[t], from)) /\ from >= reg[t].startOffset
             /\ reg[t].status \in {"done", "error"}
    <2>1. PICK x : x = Suffix(reg[t], from)
      OBVIOUS
    <2>2. x \in Seq(Wire) /\ SentIn(reg, t, x, from) /\ \A j \in DOMAIN x : IsTurnEvent(x[j])
      BY <1>3, <2>1, SuffixSent
    <2>3. es = Last(x)
      BY <1>3, <2>1
    <2>4. QED
      BY <2>2, <2>3, LastSent
  <1>4. QED
    BY <1>1, <1>2, <1>3 DEF Answers

LEMMA PageServe ==
    ASSUME ServiceInv, PageInv, NEW c \in Conn, Serve(c)
    PROVE  PageInv'
  <1>1. PICK k : k = conn[c]
    OBVIOUS
  <1>2. PICK t \in Turn : t = k.turn
    BY <1>1, ServeIs
  <1>3. /\ ConnOK(k) /\ k.kind = "replay" /\ k.phase = "request" /\ k.wire = <<>>
        /\ k.from \in Nat /\ k.live \in BOOLEAN /\ k.turn # NoTurn
        /\ UNCHANGED <<handler, entry>>
    BY <1>1, <1>2, ServeIs, Given, ConnTypes DEF Serve, ConnOK, Turn, NoTurn
  <1>4. RingOK(registry[t], t) /\ registry[t] \in Entry
    BY Given
  <1>5. PICK id : id = entry.turnId
    OBVIOUS
  <1>6. k.live => LoopIn(registry, k, <<>>, id)
    <2>1. SUFFICES ASSUME k.live PROVE LoopIn(registry, k, <<>>, id)
      OBVIOUS
    <2>2. LoopIn(registry, k, entry.shown, id)
      BY <1>1, <1>5, <2>1, Loops
    <2>3. entry.shown = <<>>
      BY <1>3, <2>2 DEF LoopIn
    <2>4. QED
      BY <2>2, <2>3
  <1>7. Len(<<>>) = 0 /\ <<>> \in Seq(Wire)
    OBVIOUS
  <1>8. k.from + Len(<<>>) + Len(k.wire) = k.from
    BY <1>3, <1>7
  <1>9. \A u \in Turn : c \notin Readers(u)
    BY <1>1, <1>3, ReadersOpen
  <1>10. PICK es \in Seq(Wire), w \in Connection :
             AnswerEffect(c, es, w) \/ \E q \in Entry : StreamEffect(c, t, es, q, w)
    BY <1>1, <1>2, ServeIs
  <1>11. CASE AnswerEffect(c, es, w)
    <2>1. /\ registry' = registry /\ conn' = [conn EXCEPT ![c] = w]
          /\ ConnOK(w) /\ w.phase = "ended"
          /\ ~k.live => w = Free
          /\ k.live => SameLoop(k, w) /\ w.live = TRUE /\ w.wire = k.wire \o es
          /\ Answers(registry[t], k.from, es)
      BY <1>1, <1>2, <1>3, <1>11 DEF AnswerEffect
    <2>2. SentIn(registry, k.turn, es, k.from + Len(<<>>) + Len(k.wire))
      BY <1>2, <1>3, <1>4, <1>8, <2>1, Given, AnswersSent
    <2>3. k.live => LoopIn(registry, w, <<>>, id)
      <3>1. SUFFICES ASSUME k.live PROVE LoopIn(registry, w, <<>>, id)
        OBVIOUS
      <3>2. PICK q \in Seq(Wire) : q = <<>>
        BY <1>7
      <3>3. LoopIn(registry, k, q, id)
        BY <1>6, <3>1, <3>2
      <3>4. SentIn(registry, k.turn, es, k.from + Len(q) + Len(k.wire))
        BY <2>2, <3>2
      <3>5. LoopIn(registry, w, q, id)
        BY <1>3, <2>1, <3>1, <3>2, <3>3, <3>4, Given, LoopWritten
      <3>6. QED
        BY <3>2, <3>5
    <2>4. w.live = k.live
      BY <1>3, <2>1, FreeIs
    <2>5. \A u \in Turn : Readers(u)' = Readers(u)
      BY <1>3, <2>1 DEF Readers
    <2>6. k.live => w.saw = k.saw /\ w.from = k.from
      BY <2>1 DEF SameLoop
    <2>7. QED
      BY <1>1, <1>3, <1>5, <1>9, <2>1, <2>3, <2>4, <2>5, <2>6, SameGrows, PageServed
  <1>12. CASE \E q \in Entry : StreamEffect(c, t, es, q, w)
    <2>1. PICK q \in Entry : StreamEffect(c, t, es, q, w)
      BY <1>12
    <2>2. /\ k.from >= registry[t].startOffset
          /\ es = Suffix(registry[t], k.from)
          /\ registry[t].status = "running" /\ q.status = "running"
          /\ q.listeners = registry[t].listeners \cup {c}
          /\ q.startOffset = registry[t].startOffset /\ q.totalEmitted = registry[t].totalEmitted
          /\ q.finishedAt = registry[t].finishedAt
          /\ conn' = [conn EXCEPT ![c] = w]
          /\ ConnOK(w) /\ SameLoop(k, w) /\ w.phase = "open" /\ w.live = k.live
          /\ k.live => w.wire = k.wire \o es
      BY <1>1, <1>3, <2>1 DEF StreamEffect
    <2>3. PICK v \in [Turn -> Entry] : /\ v = registry'
                                       /\ \A u \in Turn : v[u] = IF u = t THEN q ELSE registry[u]
      <3>1. registry' = [registry EXCEPT ![t] = q]
        BY <2>1 DEF StreamEffect
      <3>2. /\ registry' \in [Turn -> Entry]
            /\ \A u \in Turn : registry'[u] = IF u = t THEN q ELSE registry[u]
        BY <3>1, Given
      <3>3. QED
        BY <3>2
    <2>4. \A u \in Turn : /\ registry[u].totalEmitted \in Nat /\ registry[u].startOffset \in Nat
                          /\ v[u].totalEmitted = registry[u].totalEmitted
                          /\ v[u].startOffset = registry[u].startOffset
                          /\ v[u].status = registry[u].status
                          /\ v[u].finishedAt = registry[u].finishedAt
      BY <2>2, <2>3, Given DEF Entry
    <2>5. Grows(registry, v)
      BY <2>4 DEF Grows, Lasts
    <2>6. /\ SentIn(registry, t, es, k.from)
          /\ \A j \in DOMAIN es : IsTurnEvent(es[j])
          /\ k.from <= registry[t].totalEmitted => k.from + Len(es) = registry[t].totalEmitted
      <3>1. PICK from \in Nat : from = k.from
        BY <1>3
      <3>2. PICK reg \in [Turn -> Entry] : reg = registry
        BY Given
      <3>3. /\ RingOK(reg[t], t) /\ from >= reg[t].startOffset /\ es = Suffix(reg[t], from)
            /\ reg[t].status # "swept"
        BY <1>4, <2>2, <3>1, <3>2
      <3>4. /\ SentIn(reg, t, es, from)
            /\ \A j \in DOMAIN es : IsTurnEvent(es[j])
            /\ from <= reg[t].totalEmitted => from + Len(es) = reg[t].totalEmitted
        BY <3>3, SuffixSent
      <3>5. QED
        BY <3>1, <3>2, <3>4
    <2>7. k.live => /\ LoopIn(v, w, <<>>, id) /\ k.from + Len(w.wire) = v[t].totalEmitted
      <3>1. SUFFICES ASSUME k.live
                     PROVE  LoopIn(v, w, <<>>, id) /\ k.from + Len(w.wire) = v[t].totalEmitted
        OBVIOUS
      <3>2. PICK x \in Seq(Wire) : x = <<>>
        BY <1>7
      <3>3. LoopIn(registry, k, x, id)
        BY <1>6, <3>1, <3>2
      <3>4. SentIn(registry, k.turn, es, k.from + Len(x) + Len(k.wire))
        BY <1>2, <1>8, <2>6, <3>2
      <3>5. w.wire = k.wire \o es
        BY <2>2, <3>1
      <3>6. LoopIn(registry, w, x, id)
        BY <1>3, <2>2, <3>1, <3>2, <3>3, <3>4, <3>5, Given, LoopWritten
      <3>7. w.turn # NoTurn => registry[w.turn].status # "none"
        BY <1>2, <2>2 DEF SameLoop
      <3>8. LoopIn(v, w, x, id)
        BY <2>2, <2>3, <2>5, <3>2, <3>6, <3>7, Given, LoopGrows
      <3>9. k.from <= registry[t].totalEmitted
        <4>1. k.from = 0 \/ k.from <= registry[t].startOffset
          BY <1>2, <3>3 DEF LoopIn, StartIn
        <4>2. registry[t].startOffset <= registry[t].totalEmitted
          <5>1. /\ registry[t].startOffset + Len(registry[t].events) = registry[t].totalEmitted
                /\ Len(registry[t].events) \in Nat
            BY <1>4, <2>2 DEF RingOK, Entry
          <5>2. QED
            BY <2>4, <5>1
        <4>3. QED
          BY <1>3, <2>4, <4>1, <4>2
      <3>10. Len(w.wire) = Len(es)
        <4>1. <<>> \o es = es
          OBVIOUS
        <4>2. QED
          BY <1>3, <3>5, <4>1
      <3>11. QED
        BY <2>4, <2>6, <3>2, <3>8, <3>9, <3>10
    <2>8. /\ \A u \in Turn : \A d \in Conn \ {c} : d \in Readers(u)' => d \in Readers(u)
          /\ \A u \in Turn : c \in Readers(u)' => u = t
      BY <1>3, <1>9, <2>2, <2>3 DEF Readers
    <2>9. k.live => w.saw = k.saw /\ w.from = k.from
      BY <2>2 DEF SameLoop
    <2>10. k.live => \A u \in Turn : c \in Readers(u)' =>
                         k.from + Len(w.wire) = registry'[u].totalEmitted
      BY <2>3, <2>7, <2>8
    <2>11. registry' \in [Turn -> Entry] /\ Grows(registry, registry')
      BY <2>3, <2>5
    <2>12. conn[c].phase = "request" /\ w.live = conn[c].live /\ entry' = entry
      BY <1>1, <1>3, <1>5, <2>2
    <2>13. conn[c].live =>
               /\ w.saw = conn[c].saw /\ w.from = conn[c].from
               /\ LoopIn(registry', w, <<>>, entry.turnId)
               /\ \A u \in Turn : c \in Readers(u)' =>
                      conn[c].from + Len(w.wire) = registry'[u].totalEmitted
      <3>1. k.live => LoopIn(registry', w, <<>>, entry.turnId)
        BY <1>5, <2>3, <2>7
      <3>2. conn[c] = k
        BY <1>1
      <3>3. QED
        BY <2>9, <2>10, <3>1, <3>2
    <2>14. \A u \in Turn : \A d \in Conn \ {c} : d \in Readers(u)' =>
               d \in Readers(u) /\ registry'[u].totalEmitted = registry[u].totalEmitted
      BY <2>3, <2>4, <2>8
    <2>15. QED
      BY <2>2, <2>11, <2>12, <2>13, <2>14, PageServed
  <1>13. QED
    BY <1>10, <1>11, <1>12
-----------------------------------------------------------------------------
(* The steps of the page. *)

\* A step that changes neither turns nor loops nor the entry.
LEMMA PageSame ==
    ASSUME ServiceInv, PageInv, UNCHANGED <<registry, handler, conn, entry>>
    PROVE  PageInv'
  <1>1. \A t \in Turn : Readers(t)' = Readers(t)
    BY DEF Readers
  <1>2. QED
    BY <1>1, SameGrows, LoopSame, Loops, PageService

\* A step after which no loop runs.
LEMMA PageQuiet ==
    ASSUME ServiceInv, PageInv, UNCHANGED <<registry, handler>>,
           \A c \in Conn : conn'[c].live = FALSE,
           entry'.cancel = NoConn, entry'.status \notin {"loading", "streaming"},
           \/ entry' = Idle
           \/ /\ entry'.shown = entry.shown /\ entry'.turnId = entry.turnId
              /\ entry'.status = "done" => entry.status = "done"
    PROVE  PageInv'
  <1>1. HandleOwned'
    BY DEF HandleOwned, Live, Busy
  <1>2. LoopInv'
    BY DEF LoopInv, Live
  <1>3. CASE entry' = Idle
    <2>1. entry'.shown = <<>> /\ DOMAIN <<>> = {} /\ entry'.status = "idle"
      BY <1>3 DEF Idle
    <2>2. ShownInv' /\ ShownExactly' /\ DoneIsWhole'
      BY <2>1 DEF ShownInv, ShownExactly, DoneIsWhole
    <2>3. QED
      BY <1>1, <1>2, <2>2 DEF PageInv
  <1>4. CASE /\ entry'.shown = entry.shown /\ entry'.turnId = entry.turnId
             /\ entry'.status = "done" => entry.status = "done"
    <2>1. ShownInv'
      BY <1>4 DEF PageInv, ShownInv
    <2>2. ShownExactly'
      BY <1>4 DEF PageInv, ShownExactly
    <2>3. DoneIsWhole'
      BY <1>4 DEF PageInv, DoneIsWhole, Running
    <2>4. QED
      BY <1>1, <1>2, <2>1, <2>2, <2>3 DEF PageInv
  <1>5. QED
    BY <1>3, <1>4

\* controller.abort() stops the one loop there is.
LEMMA AbortedQuiet ==
    ASSUME ServiceInv, PageInv, conn' = Aborted
    PROVE  \A c \in Conn : conn'[c].live = FALSE
  <1>1. SUFFICES ASSUME NEW c \in Conn PROVE conn'[c].live = FALSE
    OBVIOUS
  <1>2. ConnOK(conn[c]) /\ conn[c].live \in BOOLEAN
    BY Given, ConnTypes
  <1>3. conn'[c] = IF c = entry.cancel THEN Left(conn[c]) ELSE conn[c]
    BY AbortedIs
  <1>4. c # entry.cancel => ~conn[c].live
    BY Loops
  <1>5. QED
    BY <1>2, <1>3, <1>4, LeftOK

\* What the entry becomes where its loop is dropped.
Marked(s, st) == [s EXCEPT !.status = st]

LEMMA MarkedIs ==
    ASSUME NEW s \in Stream, NEW st \in Status, NEW m, m = Marked(s, st)
    PROVE  /\ m \in Stream /\ m.status = st
           /\ m.shown = s.shown /\ m.turnId = s.turnId /\ m.cancel = s.cancel
  BY DEF Stream, Marked

LEMMA StrippedIs ==
    ASSUME NEW s \in Stream, NEW m, m = Stripped(s)
    PROVE  /\ m.cancel = NoConn /\ m.status = s.status
           /\ m.shown = s.shown /\ m.turnId = s.turnId
  BY DEF Stream, Stripped

LEMMA IdleIs ==
    Idle.status = "idle" /\ Idle.cancel = NoConn /\ Idle.shown = <<>> /\ Idle.turnId = NoTurn
  BY DEF Idle

LEMMA PageWatchdog ==
    ASSUME ServiceInv, PageInv, NEW c \in Conn, Watchdog(c)
    PROVE  PageInv'
  <1>1. UNCHANGED <<registry, handler>> /\ \A d \in Conn : conn'[d].live = FALSE
    BY AbortedQuiet DEF Watchdog
  <1>2. CASE Busy
    <2>1. PICK s : s = Marked(entry, "disconnected")
      OBVIOUS
    <2>2. /\ s \in Stream /\ s.status = "disconnected"
          /\ s.shown = entry.shown /\ s.turnId = entry.turnId
      BY <2>1, Given, MarkedIs DEF Status
    <2>3. entry' = Stripped(s)
      BY <1>2, <2>1 DEF Watchdog, Marked
    <2>4. /\ entry'.cancel = NoConn /\ entry'.status = "disconnected"
          /\ entry'.shown = entry.shown /\ entry'.turnId = entry.turnId
      BY <2>2, <2>3, StrippedIs
    <2>5. QED
      BY <1>1, <2>4, PageQuiet
  <1>3. CASE ~Busy
    <2>1. entry' = Stripped(entry)
      BY <1>3 DEF Watchdog
    <2>2. /\ entry'.cancel = NoConn /\ entry'.status = entry.status
          /\ entry'.shown = entry.shown /\ entry'.turnId = entry.turnId
      BY <2>1, Given, StrippedIs
    <2>3. QED
      BY <1>1, <1>3, <2>2, PageQuiet DEF Busy
  <1>4. QED
    BY <1>2, <1>3

LEMMA PageStop ==
    ASSUME ServiceInv, PageInv, Stop
    PROVE  PageInv'
  <1>1. UNCHANGED <<registry, handler>> /\ \A d \in Conn : conn'[d].live = FALSE
    BY AbortedQuiet DEF Stop
  <1>2. CASE entry' = Idle
    BY <1>1, <1>2, IdleIs, PageQuiet
  <1>3. CASE entry' = Stripped([entry EXCEPT !.status = "aborted"])
    <2>1. PICK s : s = Marked(entry, "aborted")
      OBVIOUS
    <2>2. /\ s \in Stream /\ s.status = "aborted"
          /\ s.shown = entry.shown /\ s.turnId = entry.turnId
      BY <2>1, Given, MarkedIs DEF Status
    <2>3. entry' = Stripped(s)
      BY <1>3, <2>1 DEF Marked
    <2>4. /\ entry'.cancel = NoConn /\ entry'.status = "aborted"
          /\ entry'.shown = entry.shown /\ entry'.turnId = entry.turnId
      BY <2>2, <2>3, StrippedIs
    <2>5. QED
      BY <1>1, <2>4, PageQuiet
  <1>4. QED
    BY <1>2, <1>3 DEF Stop

LEMMA PageReset ==
    ASSUME ServiceInv, PageInv, Reset
    PROVE  PageInv'
  <1>1. UNCHANGED <<registry, handler>> /\ \A d \in Conn : conn'[d].live = FALSE
    BY AbortedQuiet DEF Reset
  <1>2. QED
    BY <1>1, IdleIs, PageQuiet DEF Reset

LEMMA PageRefresh ==
    ASSUME ServiceInv, PageInv, Refresh
    PROVE  PageInv'
  <1>1. \A c \in Conn : conn'[c].live = FALSE
    <2>1. SUFFICES ASSUME NEW c \in Conn PROVE conn'[c].live = FALSE
      OBVIOUS
    <2>2. ConnOK(conn[c]) /\ conn[c].live \in BOOLEAN
      BY Given, ConnTypes
    <2>3. conn'[c] = IF conn[c].live THEN Left(conn[c]) ELSE conn[c]
      BY DEF Refresh, Live
    <2>4. QED
      BY <2>2, <2>3, LeftOK
  <1>2. QED
    BY <1>1, IdleIs, PageQuiet DEF Refresh

\* A step that opens the one loop there will be.
LEMMA PageOpens ==
    ASSUME ServiceInv, PageInv, ServiceInv', UNCHANGED <<registry, handler>>,
           NEW c \in Conn, NEW k, conn' = [conn EXCEPT ![c] = k],
           \A d \in Conn \ {c} : ~conn[d].live,
           k.live = TRUE, k.phase = "request", k.wire = <<>>, k.saw = "nothing",
           StartIn(registry, k), k.kind = "turn" => k.turn = NoTurn,
           entry'.cancel = c, entry'.status = "loading",
           entry'.turnId \in {NoTurn, k.turn}, entry'.shown = <<>>
    PROVE  PageInv'
  <1>1. \A d \in Conn : conn'[d] = IF d = c THEN k ELSE conn[d]
    BY Given
  <1>2. HandleOwned'
    BY <1>1, StreamReplayAssumption DEF HandleOwned, Live, Busy
  <1>3. DOMAIN <<>> = {}
    OBVIOUS
  <1>4. LoopInv'
    <2>1. LoopIn(registry, k, <<>>, entry'.turnId)
      BY <1>3 DEF LoopIn, ShownIn, WholeIn
    <2>2. \A t \in Turn : c \notin Readers(t)'
      BY <1>1, NotReader
    <2>3. ASSUME NEW d \in Conn, conn'[d].live
          PROVE  /\ LoopIn(registry', conn'[d], entry'.shown, entry'.turnId)
                 /\ conn'[d].saw = "nothing" => entry'.status \in {"loading", "streaming"}
                 /\ conn'[d].saw = "done" => entry'.status \notin {"loading", "streaming"}
                 /\ \A t \in Turn : d \in Readers(t)' =>
                        conn'[d].from + Len(entry'.shown) + Len(conn'[d].wire)
                            = registry'[t].totalEmitted
      BY <1>1, <2>1, <2>2, <2>3
    <2>4. QED
      BY <2>3, LoopInvNext
  <1>5. ShownInv' /\ ShownExactly' /\ DoneIsWhole'
    BY <1>3 DEF ShownInv, ShownExactly, DoneIsWhole
  <1>6. QED
    BY <1>2, <1>4, <1>5 DEF PageInv

\* No loop runs while the page is idle between two turns.
LEMMA Alone ==
    ASSUME ServiceInv, PageInv, "late_end" \notin Env, ~Busy, Settled
    PROVE  \A c \in Conn : ~conn[c].live
  BY Loops DEF Settled, Live

LEMMA EntryIs ==
    ASSUME NEW c, NEW t
    PROVE  /\ [Idle EXCEPT !.status = "loading", !.cancel = c].cancel = c
           /\ [Idle EXCEPT !.status = "loading", !.cancel = c].status = "loading"
           /\ [Idle EXCEPT !.status = "loading", !.cancel = c].turnId = NoTurn
           /\ [Idle EXCEPT !.status = "loading", !.cancel = c].shown = <<>>
           /\ Attached(c, t).cancel = c /\ Attached(c, t).status = "loading"
           /\ Attached(c, t).turnId = t /\ Attached(c, t).shown = <<>>
  BY DEF Idle, Attached

LEMMA PageSend ==
    ASSUME ServiceInv, PageInv, "late_end" \notin Env, NEW c \in Conn, Send(c)
    PROVE  PageInv'
  <1>1. PICK k : k = Sent
    OBVIOUS
  <1>2. /\ k.kind = "turn" /\ k.turn = NoTurn /\ k.from = 0
        /\ k.phase = "request" /\ k.live = TRUE /\ k.saw = "nothing" /\ k.wire = <<>>
    BY <1>1, SendOK
  <1>3. conn' = [conn EXCEPT ![c] = k]
    BY <1>1, Given DEF Send, Requests, Sent
  <1>4. \A d \in Conn : ~conn[d].live
    BY Alone DEF Send
  <1>5. /\ entry'.cancel = c /\ entry'.status = "loading"
        /\ entry'.turnId = NoTurn /\ entry'.shown = <<>>
    BY EntryIs DEF Send
  <1>6. UNCHANGED <<registry, handler>> /\ ServiceInv'
    BY ServiceSend DEF Send
  <1>7. QED
    BY <1>2, <1>3, <1>4, <1>5, <1>6, PageOpens DEF StartIn

LEMMA PageAttach ==
    ASSUME ServiceInv, PageInv, "late_end" \notin Env, Attach
    PROVE  PageInv'
  <1>1. CASE UNCHANGED <<conn, entry>>
    BY <1>1, PageSame DEF Attach
  <1>2. CASE ~ UNCHANGED <<conn, entry>>
    <2>1. PICK c \in Conn : /\ ~Busy /\ Settled
                            /\ conn' = [conn EXCEPT ![c] = First(page.active)]
                            /\ entry' = Attached(c, page.active)
      BY <1>2, Given DEF Attach, First, Requests
    <2>2. PICK t \in Turn : t = page.active
      BY Given DEF Attach
    <2>3. PICK k : k = First(t)
      OBVIOUS
    <2>4. /\ k.kind = "replay" /\ k.turn = t /\ k.from = 0
          /\ k.phase = "request" /\ k.live = TRUE /\ k.saw = "nothing" /\ k.wire = <<>>
      BY <2>3, FirstOK
    <2>5. conn' = [conn EXCEPT ![c] = k]
      BY <2>1, <2>2, <2>3
    <2>6. \A d \in Conn : ~conn[d].live
      BY <2>1, Alone
    <2>7. /\ entry'.cancel = c /\ entry'.status = "loading"
          /\ entry'.turnId = t /\ entry'.shown = <<>>
      BY <2>1, <2>2, EntryIs
    <2>8. UNCHANGED <<registry, handler>> /\ ServiceInv'
      BY ServiceAttach DEF Attach
    <2>9. QED
      BY <2>4, <2>5, <2>6, <2>7, <2>8, PageOpens DEF StartIn
  <1>3. QED
    BY <1>1, <1>2

LEMMA AppendIs ==
    ASSUME NEW q \in Seq(Wire), NEW e \in Wire, NEW x, x = Append(q, e)
    PROVE  /\ x \in Seq(Wire) /\ x # <<>> /\ Len(q) \in Nat /\ Len(x) = Len(q) + 1
           /\ DOMAIN x = 1 .. Len(q) + 1 /\ DOMAIN q = 1 .. Len(q)
           /\ x[Len(q) + 1] = e /\ \A i \in DOMAIN q : x[i] = q[i]
           /\ 1 \in DOMAIN x
  OBVIOUS

\* The loop takes the next event of its turn.
Took(reg, k, shown, e, w, x, j) ==
    /\ LoopIn(reg, w, x, j)
    /\ k.turn # NoTurn /\ e.turn = k.turn
    /\ e.n = k.from + Len(shown) /\ e.n < reg[k.turn].totalEmitted
    /\ Placed(e, reg[k.turn].finishedAt)
    /\ w.from + Len(x) + Len(w.wire) = k.from + Len(shown) + Len(k.wire)
    /\ w.from = k.from /\ w.turn = k.turn

LEMMA LoopTaken ==
    ASSUME NEW reg \in [Turn -> Entry], NEW k, ConnOK(k), k.live, k.wire # <<>>,
           NEW shown \in Seq(Wire), NEW id, LoopIn(reg, k, shown, id),
           NEW e, e = Head(k.wire), IsTurnEvent(e),
           NEW saw \in {"nothing", "aborted", "done", "error"}, saw = Saw(k, e),
           NEW w, w = Taken(k, saw),
           NEW x, x = Append(shown, e), NEW j, j \in {id, e.turn},
           \A t \in Turn : reg[t].finishedAt > 0 => reg[t].status # "running"
    PROVE  Took(reg, k, shown, e, w, x, j)
  <1>1. PICK q \in Seq(Wire) : q = k.wire
    BY ConnTypes DEF ConnOK
  <1>2. PICK y : y = Tail(q)
    OBVIOUS
  <1>3. /\ e \in Wire /\ e = q[1] /\ 1 \in DOMAIN q
        /\ Len(y) = Len(q) - 1 /\ Len(q) \in Nat /\ Len(q) >= 1
        /\ \A i \in DOMAIN y : i \in Nat /\ i >= 1 /\ i + 1 \in DOMAIN q /\ y[i] = q[i + 1]
    BY <1>1, <1>2, HeadTail
  <1>4. /\ w.kind = k.kind /\ w.turn = k.turn /\ w.phase = k.phase /\ w.from = k.from
        /\ w.wire = y /\ w.saw = saw
    <2>1. w.wire = Tail(k.wire) /\ w.phase = k.phase /\ w.kind = k.kind
      BY TakenOK
    <2>2. w.turn = k.turn /\ w.from = k.from /\ w.saw = saw
      BY TakenOK
    <2>3. QED
      BY <1>1, <1>2, <2>1, <2>2
  <1>5. k.phase # "request"
    BY <1>1, <1>3 DEF ConnOK
  <1>6. k.from \in Nat /\ Len(shown) \in Nat
    BY ConnTypes DEF ConnOK
  <1>7. PICK n \in Nat : n = k.from + Len(shown)
    BY <1>6
  <1>8. /\ k.turn # NoTurn /\ e.turn = k.turn /\ e.n = n /\ e.n < reg[k.turn].totalEmitted
        /\ Placed(e, reg[k.turn].finishedAt)
    <2>1. ItemIn(reg, k, 1, n)
      BY <1>1, <1>3, <1>7 DEF LoopIn
    <2>2. n + 1 - 1 = n
      OBVIOUS
    <2>3. QED
      BY <1>1, <1>3, <2>1, <2>2 DEF ItemIn
  <1>9. /\ Len(x) = Len(shown) + 1
        /\ DOMAIN x = 1 .. Len(shown) + 1 /\ DOMAIN shown = 1 .. Len(shown)
        /\ x[Len(shown) + 1] = e /\ \A i \in DOMAIN shown : x[i] = shown[i]
    BY <1>3, AppendIs
  <1>10. ShownIn(w, x)
    <2>1. SUFFICES ASSUME NEW i \in DOMAIN x
                   PROVE  x[i].turn = k.turn /\ x[i].n = k.from + i - 1
      BY <1>4 DEF ShownIn
    <2>2. CASE i \in DOMAIN shown
      BY <1>9, <2>2 DEF LoopIn, ShownIn
    <2>3. CASE i = Len(shown) + 1
      BY <1>6, <1>7, <1>8, <1>9, <2>3
    <2>4. QED
      BY <1>6, <1>9, <2>2, <2>3
  <1>11. ASSUME NEW i \in DOMAIN y
         PROVE  ItemIn(reg, w, i, n + 1)
    <2>1. i \in Nat /\ i + 1 \in DOMAIN q /\ y[i] = q[i + 1]
      BY <1>3
    <2>2. ItemIn(reg, k, i + 1, n)
      BY <1>1, <1>7, <2>1 DEF LoopIn
    <2>3. n + (i + 1) - 1 = (n + 1) + i - 1
      BY <2>1
    <2>4. i + 1 = Len(q) => i = Len(y)
      BY <1>3, <2>1
    <2>5. PICK m : m = n + (i + 1) - 1
      OBVIOUS
    <2>6. PICK a : a = y[i]
      OBVIOUS
    <2>7. k.wire[i + 1] = a /\ w.wire[i] = a
      BY <1>1, <1>4, <2>1, <2>6
    <2>8. /\ IsTurnEvent(a) =>
                 /\ k.turn # NoTurn /\ a.turn = k.turn /\ a.n = m
                 /\ a.n < reg[k.turn].totalEmitted
                 /\ Placed(a, reg[k.turn].finishedAt)
          /\ ~IsTurnEvent(a) => i + 1 = Len(k.wire)
          /\ a.kind = "ring_overflow" =>
                 k.kind = "replay" /\ a.n <= reg[k.turn].startOffset
      BY <2>2, <2>5, <2>7 DEF ItemIn
    <2>9. /\ m = (n + 1) + i - 1 /\ w.turn = k.turn /\ w.kind = k.kind
          /\ i + 1 = Len(k.wire) => i = Len(w.wire)
      BY <1>1, <1>4, <2>3, <2>4, <2>5
    <2>10. QED
      BY <2>7, <2>8, <2>9 DEF ItemIn
  <1>12. w.from + Len(x) = n + 1
    <2>1. PICK a \in Nat, b \in Nat : a = k.from /\ b = Len(shown) /\ n = a + b
      BY <1>6, <1>7
    <2>2. w.from = a /\ Len(x) = b + 1
      BY <1>4, <1>9, <2>1
    <2>3. a + (b + 1) = n + 1
      <3>1. a + (b + 1) = a + b + 1
        BY <2>1, SumNext, Zenon
      <3>2. QED
        BY <2>1, <3>1
    <2>4. w.from + Len(x) = a + (b + 1)
      BY <2>2
    <2>5. QED
      BY <2>3, <2>4
  <1>13. StartIn(reg, w)
    BY <1>4 DEF LoopIn, StartIn
  <1>14. j \in {NoTurn, w.turn}
    BY <1>4, <1>8 DEF LoopIn
  <1>15. LoopIn(reg, w, x, j)
    <2>1. WholeIn(reg, w, x)
      <3>1. SUFFICES ASSUME saw = "done"
                     PROVE  /\ k.turn # NoTurn /\ reg[k.turn].status # "running"
                            /\ reg[k.turn].finishedAt \in 1 .. n + 1
        BY <1>4, <1>12 DEF WholeIn
      <3>2. e.kind = "done" \/ k.saw = "done"
        BY <3>1 DEF Saw
      <3>3. k.turn \in Turn /\ reg[k.turn].finishedAt \in Nat
        BY <1>1, <1>8, ConnTypes DEF ConnOK, Entry
      <3>4. CASE k.saw = "done"
        BY <1>7, <1>8, <3>4 DEF LoopIn, WholeIn
      <3>5. CASE e.kind = "done"
        <4>1. n = reg[k.turn].finishedAt - 1
          BY <1>8, <3>5 DEF Placed
        <4>2. QED
          BY <1>7, <1>8, <3>3, <4>1
      <3>6. QED
        BY <3>2, <3>4, <3>5
    <2>2. QED
      BY <1>4, <1>5, <1>10, <1>11, <1>12, <1>13, <1>14, <2>1 DEF LoopIn
  <1>16. w.from + Len(x) + Len(w.wire) = k.from + Len(shown) + Len(k.wire)
    <2>1. Len(w.wire) = Len(q) - 1 /\ Len(q) \in Nat /\ q = k.wire
      BY <1>1, <1>3, <1>4
    <2>2. (n + 1) + (Len(q) - 1) = n + Len(q)
      BY <1>7, <2>1
    <2>3. QED
      BY <1>7, <1>12, <2>1, <2>2
  <1>17. QED
    BY <1>4, <1>7, <1>8, <1>15, <1>16 DEF Took

\* What the loop makes of the entry.
LEMMA AppliedIs ==
    ASSUME entry \in Stream, NEW e \in Wire, IsTurnEvent(e), NEW a, a = Applied(e)
    PROVE  /\ a.shown = Append(entry.shown, e) /\ a.cancel = entry.cancel
           /\ a.turnId \in {entry.turnId, e.turn}
           /\ a.status = "done" => \/ e.kind = "done"
                                  \/ /\ e.kind \in {"turn_started", "artifact"}
                                     /\ entry.status = "done"
           /\ e.kind = "done" => a.status \in {"done", "aborted"}
           /\ e.kind = "token" => a.status = "streaming"
           /\ e.kind \in {"turn_started", "artifact"} => a.status = entry.status
  <1>1. /\ a.shown = Append(entry.shown, e) /\ a.cancel = entry.cancel
        /\ a.turnId \in {entry.turnId, e.turn}
    BY DEF Applied, Stream
  <1>2. a.status = CASE e.kind = "token" -> "streaming"
                     [] e.kind = "turn_aborted" -> "aborted"
                     [] e.kind = "done" -> IF entry.status = "aborted" THEN entry.status ELSE "done"
                     [] e.kind = "error" -> "error"
                     [] OTHER -> entry.status
    BY DEF Applied, Stream
  <1>3. e.kind \in {"turn_started", "token", "artifact", "turn_aborted", "done", "error"}
    BY DEF IsTurnEvent, TurnKind
  <1>4. QED
    BY <1>1, <1>2, <1>3

LEMMA PageTake ==
    ASSUME ServiceInv, PageInv, UNCHANGED <<registry, handler>>,
           NEW c \in Conn, NEW k, k = conn[c], k.live, k.wire # <<>>,
           NEW e, e = Head(k.wire), IsTurnEvent(e), entry' = Applied(e),
           NEW saw, saw = Saw(k, e), conn' = [conn EXCEPT ![c] = Taken(k, saw)]
    PROVE  PageInv'
  <1>1. ConnOK(k) /\ k.turn \in Turn \cup {NoTurn} /\ k.from \in Nat
    BY Given, ConnTypes
  <1>2. saw \in {"nothing", "aborted", "done", "error"}
    BY <1>1, SawType DEF ConnOK
  <1>3. PICK shown, id : shown = entry.shown /\ shown \in Seq(Wire) /\ id = entry.turnId
    BY Loops
  <1>4. PICK reg \in [Turn -> Entry] : reg = registry
    BY Given
  <1>5. LoopIn(reg, k, shown, id)
    BY <1>3, <1>4, Loops
  <1>6. PICK x : x = Append(shown, e)
    OBVIOUS
  <1>7. PICK w : w = Taken(k, saw)
    OBVIOUS
  <1>8. e \in Wire
    BY <1>1, ConnTypes, HeadTail DEF ConnOK
  <1>9. /\ entry'.shown = x /\ entry'.cancel = entry.cancel
        /\ entry'.turnId \in {id, e.turn}
        /\ entry'.status = "done" => \/ e.kind = "done"
                                     \/ /\ e.kind \in {"turn_started", "artifact"}
                                        /\ entry.status = "done"
        /\ e.kind = "done" => entry'.status \in {"done", "aborted"}
        /\ e.kind = "token" => entry'.status = "streaming"
        /\ e.kind \in {"turn_started", "artifact"} => entry'.status = entry.status
    <2>1. PICK a : a = Applied(e)
      OBVIOUS
    <2>2. entry' = a
      BY <2>1
    <2>3. QED
      BY <1>3, <1>6, <1>8, <2>1, <2>2, Given, AppliedIs
  <1>10. PICK j : j = entry'.turnId
    OBVIOUS
  <1>11. /\ LoopIn(reg, w, x, j)
         /\ k.turn # NoTurn /\ e.turn = k.turn
         /\ e.n = k.from + Len(shown) /\ e.n < reg[k.turn].totalEmitted
         /\ Placed(e, reg[k.turn].finishedAt)
         /\ w.from + Len(x) + Len(w.wire) = k.from + Len(shown) + Len(k.wire)
         /\ w.from = k.from /\ w.live = k.live /\ w.saw = saw /\ w.turn = k.turn
    <2>1. Took(reg, k, shown, e, w, x, j)
      <3>1. /\ reg \in [Turn -> Entry] /\ ConnOK(k) /\ k.live /\ k.wire # <<>>
            /\ shown \in Seq(Wire) /\ LoopIn(reg, k, shown, id)
        BY <1>1, <1>3, <1>4, <1>5
      <3>2. /\ e = Head(k.wire) /\ IsTurnEvent(e)
            /\ saw \in {"nothing", "aborted", "done", "error"} /\ saw = Saw(k, e)
            /\ w = Taken(k, saw) /\ x = Append(shown, e)
        BY <1>2, <1>6, <1>7
      <3>3. j \in {id, e.turn}
        BY <1>9, <1>10
      <3>4. \A t \in Turn : reg[t].finishedAt > 0 => reg[t].status # "running"
        BY <1>4, RunningRing DEF Running
      <3>5. QED
        BY <3>1, <3>2, <3>3, <3>4, LoopTaken
    <2>2. w.live = k.live /\ w.saw = saw
      <3>1. k.live \in BOOLEAN /\ k \in Connection
        BY <1>1, ConnTypes DEF ConnOK
      <3>2. w = [k EXCEPT !.wire = Tail(k.wire), !.saw = saw]
        BY <1>7 DEF Taken
      <3>3. QED
        BY <3>1, <3>2 DEF Connection
    <2>3. QED
      BY <2>1, <2>2 DEF Took
  <1>12. k.turn \in Turn /\ registry[k.turn].status # "none"
    BY <1>1, <1>11, Given
  <1>13. c = entry.cancel /\ entry.cancel # NoConn /\ \A d \in Conn \ {c} : ~conn[d].live
    BY Loops, StreamReplayAssumption
  <1>14. \A d \in Conn : conn'[d] = IF d = c THEN w ELSE conn[d]
    BY <1>7, Given
  <1>15. \A d \in Conn : conn'[d].live = conn[d].live
    BY <1>11, <1>14
  <1>16. HandleOwned'
    <2>1. {d \in Conn : conn[d].live} = {entry.cancel} \ {NoConn}
      BY DEF PageInv, HandleOwned, Live
    <2>2. {d \in Conn : conn'[d].live} = {entry'.cancel} \ {NoConn}
      BY <1>9, <1>15, <2>1
    <2>3. QED
      BY <1>9, <1>13, <2>2 DEF HandleOwned, Live, Busy
  <1>17. saw = "nothing" => entry'.status \in {"loading", "streaming"}
    <2>1. SUFFICES ASSUME saw = "nothing" PROVE entry'.status \in {"loading", "streaming"}
      OBVIOUS
    <2>2. k.saw = "nothing" /\ e.kind \in {"turn_started", "token", "artifact"}
      BY <2>1 DEF Saw, IsTurnEvent, TurnKind
    <2>3. Busy
      BY <2>2, Loops
    <2>4. QED
      BY <1>9, <2>2, <2>3 DEF Busy
  <1>25. saw = "done" => entry'.status \notin {"loading", "streaming"}
    <2>1. CASE e.kind = "done"
      BY <1>9, <2>1
    <2>2. CASE e.kind # "done" /\ saw = "done"
      \* Behind the end only a late tool's events come.
      <3>1. k.saw = "done"
        BY <2>2 DEF Saw
      <3>2. reg[k.turn].finishedAt \in 1 .. k.from + Len(shown) /\ ~Busy
        BY <1>5, <3>1, Loops DEF LoopIn, WholeIn
      <3>3. e.kind = "artifact"
        BY <1>11, <3>2 DEF Placed
      <3>4. QED
        BY <1>9, <3>2, <3>3 DEF Busy
    <2>3. QED
      BY <2>1, <2>2
  <1>18. LoopInv'
    <2>1. \A t \in Turn : Readers(t)' = Readers(t)
      BY DEF Readers
    <2>2. ASSUME NEW d \in Conn, conn'[d].live
          PROVE  /\ LoopIn(registry', conn'[d], entry'.shown, entry'.turnId)
                 /\ conn'[d].saw = "nothing" => entry'.status \in {"loading", "streaming"}
                 /\ conn'[d].saw = "done" => entry'.status \notin {"loading", "streaming"}
                 /\ \A t \in Turn : d \in Readers(t)' =>
                        conn'[d].from + Len(entry'.shown) + Len(conn'[d].wire)
                            = registry'[t].totalEmitted
      <3>1. d = c
        BY <1>13, <1>15, <2>2
      <3>2. \A t \in Turn : c \in Readers(t) =>
                k.from + Len(shown) + Len(k.wire) = registry[t].totalEmitted
        BY <1>3, Loops
      <3>3. QED
        BY <1>4, <1>9, <1>10, <1>11, <1>14, <1>17, <1>25, <2>1, <3>1, <3>2
    <2>3. QED
      BY <2>2, LoopInvNext
  <1>19. /\ x \in Seq(Wire) /\ x # <<>> /\ Len(shown) \in Nat /\ Len(x) = Len(shown) + 1
         /\ x[Len(x)] = e /\ 1 \in DOMAIN x
    BY <1>3, <1>6, <1>8, AppendIs
  <1>20. \A i \in DOMAIN x : x[i].turn = k.turn /\ x[i].n = k.from + i - 1
    BY <1>11 DEF LoopIn, ShownIn
  <1>21. ShownInv'
    BY <1>9, <1>12, <1>20 DEF ShownInv
  <1>22. ShownExactly'
    <2>1. x[1].turn = k.turn /\ x[1].n = k.from
      <3>1. x[1].turn = k.turn /\ x[1].n = k.from + 1 - 1
        BY <1>19, <1>20
      <3>2. k.from + 1 - 1 = k.from
        BY <1>1
      <3>3. QED
        BY <3>1, <3>2
    <2>2. entry'.turnId \in {NoTurn, x[1].turn}
      BY <1>10, <1>11, <2>1 DEF LoopIn
    <2>3. x[1].n = 0 \/ x[1].n <= registry[x[1].turn].startOffset
      BY <1>4, <1>5, <2>1 DEF LoopIn, StartIn
    <2>4. \A i \in DOMAIN x : x[i].turn = x[1].turn /\ x[i].n = x[1].n + i - 1
      BY <1>20, <2>1
    <2>5. x[1].n = conn'[entry'.cancel].from
      BY <1>9, <1>11, <1>13, <1>14, <2>1
    <2>6. QED
      BY <1>9, <2>2, <2>3, <2>4, <2>5 DEF ShownExactly
  <1>23. DoneIsWhole'
    <2>1. SUFFICES ASSUME entry'.status = "done"
                   PROVE  \E i \in DOMAIN x :
                              /\ x[i].kind = "done"
                              /\ x[i].n = registry[x[i].turn].finishedAt - 1
                              /\ registry[x[i].turn].status # "running"
                              /\ \A m \in i + 1 .. Len(x) : x[m].kind = "artifact"
      <3>1. entry'.shown = x /\ registry' = registry
        BY <1>9
      <3>2. QED
        BY <3>1 DEF DoneIsWhole, Running
    <2>2. registry[k.turn].finishedAt \in Nat
      BY <1>12, RunningRing
    <2>3. DOMAIN x = 1 .. Len(shown) + 1 /\ DOMAIN shown = 1 .. Len(shown)
          /\ x[Len(shown) + 1] = e /\ \A i \in DOMAIN shown : x[i] = shown[i]
      BY <1>3, <1>6, <1>8, AppendIs
    <2>4. CASE e.kind = "done"
      <3>1. e.n = registry[k.turn].finishedAt - 1
        BY <1>4, <1>11, <2>4 DEF Placed
      <3>2. e.n \in Nat
        BY <1>8 DEF Wire
      <3>3. registry[k.turn].finishedAt # 0
        BY <2>2, <3>1, <3>2
      <3>4. registry[k.turn].status # "running"
        BY <1>12, <3>3, RunningRing DEF Running
      <3>5. Len(x) \in DOMAIN x /\ Len(x) + 1 .. Len(x) = {}
        BY <1>19, <2>3
      <3>6. QED
        BY <1>11, <1>19, <2>4, <3>1, <3>4, <3>5
    <2>5. CASE e.kind # "done"
      <3>1. entry.status = "done"
        BY <1>9, <2>1, <2>5
      <3>2. PICK i \in DOMAIN shown :
                /\ shown[i].kind = "done"
                /\ shown[i].n = registry[shown[i].turn].finishedAt - 1
                /\ registry[shown[i].turn].status # "running"
                /\ \A m \in i + 1 .. Len(shown) : shown[m].kind = "artifact"
        BY <1>3, <3>1 DEF PageInv, DoneIsWhole, Running
      <3>3. shown[i].turn = k.turn /\ shown[i].n = k.from + i - 1
        BY <1>5 DEF LoopIn, ShownIn
      <3>4. i \in Nat /\ i >= 1 /\ i <= Len(shown) /\ shown[i].n \in Nat
        BY <1>3, Element
      <3>5. PICK fin \in Nat, a \in Nat, b \in Nat :
                fin = registry[k.turn].finishedAt /\ a = k.from /\ b = Len(shown)
        BY <1>1, <1>19, <2>2
      <3>6. fin > 0 /\ e.n >= fin
        <4>1. a + i - 1 = fin - 1 /\ e.n = a + b
          BY <1>11, <3>2, <3>3, <3>5
        <4>2. QED
          BY <3>4, <3>5, <4>1
      <3>7. e.kind = "artifact"
        BY <1>4, <1>11, <3>5, <3>6 DEF Placed
      <3>8. ASSUME NEW m \in i + 1 .. Len(x) PROVE x[m].kind = "artifact"
        <4>1. m = b + 1 \/ m \in i + 1 .. b
          BY <1>19, <3>4, <3>5
        <4>2. CASE m = b + 1
          BY <2>3, <3>5, <3>7, <4>2
        <4>3. CASE m \in i + 1 .. b
          <5>1. m \in DOMAIN shown
            BY <2>3, <3>4, <3>5, <4>3
          <5>2. QED
            BY <2>3, <3>2, <3>5, <4>3, <5>1
        <4>4. QED
          BY <4>1, <4>2, <4>3
      <3>9. i \in DOMAIN x /\ x[i] = shown[i]
        BY <2>3, <3>4, <1>19
      <3>10. QED
        BY <3>2, <3>8, <3>9
    <2>6. QED
      BY <2>4, <2>5
  <1>26. QED
    BY <1>16, <1>18, <1>21, <1>22, <1>23 DEF PageInv

LEMMA PageDeliver ==
    ASSUME ServiceInv, PageInv, NEW c \in Conn, Deliver(c)
    PROVE  PageInv'
  <1>1. PICK k : k = conn[c]
    OBVIOUS
  <1>2. ConnOK(k) /\ k.live /\ k.wire # <<>> /\ k.wire \in Seq(Wire)
    BY <1>1, Given, ConnTypes DEF Deliver, Live, ConnOK
  <1>3. PICK e : e = Head(k.wire)
    OBVIOUS
  <1>4. e \in Wire /\ 1 \in DOMAIN k.wire /\ e = k.wire[1]
    BY <1>2, <1>3, HeadTail
  <1>5. UNCHANGED <<registry, handler, page>>
    BY DEF Deliver
  <1>6. c = entry.cancel /\ c # NoConn /\ \A d \in Conn \ {c} : conn[d].live = FALSE
    BY <1>1, <1>2, Loops, Given, ConnTypes, StreamReplayAssumption
  <1>7. \/ IsTurnEvent(e) /\ entry' = Applied(e)
           /\ conn' = [conn EXCEPT ![c].wire = Tail(@), ![c].saw = Saw(k, e)]
        \/ /\ e.kind = "eof" /\ entry' = Stripped(AtEof(k.saw))
           /\ conn' = [conn EXCEPT ![c] = Left(@)]
        \/ /\ e.kind = "failed" /\ entry' = Stripped(Marked(entry, "error"))
           /\ conn' = [conn EXCEPT ![c] = Left(@)]
        \/ e.kind = "ring_overflow" /\ entry' = Idle /\ conn' = [conn EXCEPT ![c] = Free]
        \/ /\ e.kind = "ring_overflow" /\ entry' = Attached(c, k.turn)
           /\ conn' = [conn EXCEPT ![c] = Second(k.turn, e.n)]
    BY <1>1, <1>3 DEF Deliver, Second, Marked
  <1>8. ASSUME NEW w, w.live = FALSE, conn' = [conn EXCEPT ![c] = w]
        PROVE  \A d \in Conn : conn'[d].live = FALSE
    BY <1>6, <1>8, Given
  <1>9. CASE IsTurnEvent(e) /\ entry' = Applied(e)
             /\ conn' = [conn EXCEPT ![c].wire = Tail(@), ![c].saw = Saw(k, e)]
    <2>1. PICK saw : saw = Saw(k, e)
      OBVIOUS
    <2>2. conn' = [conn EXCEPT ![c] = Taken(k, saw)]
      BY <1>1, <1>9, <2>1, Given DEF Taken
    <2>3. UNCHANGED <<registry, handler>> /\ IsTurnEvent(e) /\ entry' = Applied(e)
      BY <1>5, <1>9
    <2>4. QED
      BY <1>1, <1>2, <1>3, <2>1, <2>2, <2>3, PageTake
  <1>10. ASSUME conn' = [conn EXCEPT ![c] = Left(@)]
         PROVE  \A d \in Conn : conn'[d].live = FALSE
    <2>1. PICK w : w = Left(k)
      OBVIOUS
    <2>2. w.live = FALSE
      BY <1>2, <2>1, LeftOK
    <2>3. conn' = [conn EXCEPT ![c] = w]
      BY <1>1, <1>10, <2>1
    <2>4. QED
      BY <1>8, <2>2, <2>3
  <1>11. CASE /\ e.kind = "eof" /\ entry' = Stripped(AtEof(k.saw))
              /\ conn' = [conn EXCEPT ![c] = Left(@)]
    <2>1. \A d \in Conn : conn'[d].live = FALSE
      BY <1>10, <1>11
    <2>2. PICK s : s = AtEof(k.saw)
      OBVIOUS
    <2>3. CASE s = entry /\ (k.saw = "done" \/ entry.status \in {"idle", "aborted", "error"})
      <3>1. /\ entry'.cancel = NoConn /\ entry'.status = entry.status
            /\ entry'.shown = entry.shown /\ entry'.turnId = entry.turnId
        BY <1>11, <2>2, <2>3, Given, StrippedIs
      <3>2. CASE Busy
        \* A loop that has seen done leaves an entry that is not in flight.
        <4>1. k.saw # "done"
          BY <1>1, <1>2, <3>2, Loops
        <4>2. entry.status \in {"idle", "aborted", "error"}
          BY <2>3, <4>1
        <4>3. QED
          BY <3>2, <4>2 DEF Busy
      <3>3. CASE ~Busy
        BY <1>5, <2>1, <3>1, <3>3, PageQuiet DEF Busy
      <3>4. QED
        BY <3>2, <3>3
    <2>4. CASE s = Marked(entry, "disconnected")
      <3>1. /\ s \in Stream /\ s.status = "disconnected"
            /\ s.shown = entry.shown /\ s.turnId = entry.turnId
        BY <2>4, Given, MarkedIs DEF Status
      <3>2. /\ entry'.cancel = NoConn /\ entry'.status = "disconnected"
            /\ entry'.shown = entry.shown /\ entry'.turnId = entry.turnId
        BY <1>11, <2>2, <3>1, StrippedIs
      <3>3. QED
        BY <1>5, <2>1, <3>2, PageQuiet
    <2>5. QED
      BY <2>2, <2>3, <2>4 DEF AtEof, Marked
  <1>12. CASE /\ e.kind = "failed" /\ entry' = Stripped(Marked(entry, "error"))
              /\ conn' = [conn EXCEPT ![c] = Left(@)]
    <2>1. \A d \in Conn : conn'[d].live = FALSE
      BY <1>10, <1>12
    <2>2. PICK s : s = Marked(entry, "error")
      OBVIOUS
    <2>3. /\ s \in Stream /\ s.status = "error"
          /\ s.shown = entry.shown /\ s.turnId = entry.turnId
      BY <2>2, Given, MarkedIs DEF Status
    <2>4. /\ entry'.cancel = NoConn /\ entry'.status = "error"
          /\ entry'.shown = entry.shown /\ entry'.turnId = entry.turnId
      BY <1>12, <2>2, <2>3, StrippedIs
    <2>5. QED
      BY <1>5, <2>1, <2>4, PageQuiet
  <1>13. CASE e.kind = "ring_overflow" /\ entry' = Idle /\ conn' = [conn EXCEPT ![c] = Free]
    <2>1. \A d \in Conn : conn'[d].live = FALSE
      BY <1>8, <1>13, FreeIs
    <2>2. QED
      BY <1>5, <1>13, <2>1, IdleIs, PageQuiet
  <1>14. CASE /\ e.kind = "ring_overflow" /\ entry' = Attached(c, k.turn)
              /\ conn' = [conn EXCEPT ![c] = Second(k.turn, e.n)]
    <2>1. k.kind = "replay" /\ k.turn \in Turn /\ e.n \in Nat
      BY <1>2, <1>4, <1>14, ConnTypes DEF ConnOK, Wire
    <2>2. PICK t \in Turn, n \in Nat : t = k.turn /\ n = e.n
      BY <2>1
    <2>3. PICK w : w = Second(t, n)
      OBVIOUS
    <2>4. /\ w.kind = "replay" /\ w.turn = t /\ w.from = n
          /\ w.phase = "request" /\ w.live = TRUE /\ w.saw = "nothing" /\ w.wire = <<>>
      <3>1. w = [kind |-> "replay", turn |-> t, from |-> n, retried |-> TRUE,
                 phase |-> "request", live |-> TRUE, saw |-> "nothing", wire |-> <<>>]
        BY <2>3 DEF Replay, Free, Second
      <3>2. QED
        BY <3>1
    <2>5. conn' = [conn EXCEPT ![c] = w]
      BY <1>14, <2>2, <2>3
    <2>6. StartIn(registry, w)
      <3>1. ItemIn(registry, k, 1, k.from + Len(entry.shown))
        BY <1>1, <1>2, <1>4, Loops DEF LoopIn
      <3>2. n <= registry[t].startOffset
        BY <1>4, <1>14, <2>2, <3>1 DEF ItemIn
      <3>3. QED
        BY <2>4, <3>2 DEF StartIn
    <2>7. /\ entry'.cancel = c /\ entry'.status = "loading"
          /\ entry'.turnId = t /\ entry'.shown = <<>>
      BY <1>14, <2>2, EntryIs
    <2>8. ServiceInv'
      BY ServiceDeliver
    <2>9. QED
      BY <1>5, <1>6, <2>4, <2>5, <2>6, <2>7, <2>8, PageOpens
  <1>15. QED
    BY <1>7, <1>9, <1>11, <1>12, <1>13, <1>14

-----------------------------------------------------------------------------
LEMMA PageInit ==
    ASSUME Init
    PROVE  PageInv
  <1>1. \A c \in Conn : conn[c].live = FALSE
    BY FreeIs DEF Init
  <1>2. entry.status = "idle" /\ entry.cancel = NoConn /\ entry.shown = <<>>
    BY DEF Init, Idle
  <1>3. DOMAIN entry.shown = {}
    BY <1>2
  <1>4. HandleOwned /\ LoopInv
    BY <1>1, <1>2 DEF HandleOwned, LoopInv, Live, Busy
  <1>5. QED
    BY <1>2, <1>3, <1>4 DEF PageInv, ShownInv, ShownExactly, DoneIsWhole

LEMMA PageNext ==
    ASSUME ServiceInv, PageInv, "late_end" \notin Env, [Next]_vars
    PROVE  PageInv'
  <1>1. ASSUME NEW c \in Conn, Accept(c)
        PROVE  PageInv'
    BY <1>1, PageAccept
  <1>2. ASSUME NEW c \in Conn, Refuse(c)
        PROVE  PageInv'
    BY <1>2, PageRefuse
  <1>3. ASSUME NEW c \in Conn, Vanish(c)
        PROVE  PageInv'
    BY <1>3, PageVanish
  <1>4. ASSUME NEW c \in Conn, Serve(c)
        PROVE  PageInv'
    BY <1>4, PageServe
  <1>5. ASSUME NEW c \in Conn, Hangup(c)
        PROVE  PageInv'
    BY <1>5, PageHangup
  <1>6. ASSUME NEW c \in Conn, NEW how \in {"eof", "failed"}, Break(c, how)
        PROVE  PageInv'
    BY <1>6, PageBreak
  <1>7. ASSUME NEW how \in {"eof", "failed"}, Restart(how)
        PROVE  PageInv'
    BY <1>7, PageRestart
  <1>8. ASSUME NEW t \in Turn, NEW how \in {"done", "aborted", "error"}, End(t, how)
        PROVE  PageInv'
    BY <1>8, PageEnd
  <1>9. ASSUME NEW t \in Turn, Emit(t)
        PROVE  PageInv'
    BY <1>9, PageEmit
  <1>10. ASSUME NEW t \in Turn, Leak(t)
         PROVE  PageInv'
    BY <1>10, PageLeak
  <1>11. ASSUME NEW t \in Turn, Sweep(t)
         PROVE  PageInv'
    BY <1>11, PageSweep
  <1>12. ASSUME NEW c \in Conn, Send(c)
         PROVE  PageInv'
    BY <1>12, PageSend
  <1>13. ASSUME NEW c \in Conn, Deliver(c)
         PROVE  PageInv'
    BY <1>13, PageDeliver
  <1>14. ASSUME NEW c \in Conn, Watchdog(c)
         PROVE  PageInv'
    BY <1>14, PageWatchdog
  <1>15. CASE FetchSession
    BY <1>15, PageSame DEF FetchSession
  <1>16. CASE Attach
    BY <1>16, PageAttach
  <1>17. CASE Stop
    BY <1>17, PageStop
  <1>18. CASE Reset
    BY <1>18, PageReset
  <1>19. CASE Refresh
    BY <1>19, PageRefresh
  <1>20. CASE UNCHANGED vars
    BY <1>20, PageSame DEF vars
  <1>21. ASSUME NEW t \in Turn, EmitLate(t)
         PROVE  PageInv'
    BY <1>21, PageEmitLate
  <1>22. QED
    BY <1>1, <1>2, <1>3, <1>4, <1>5, <1>6, <1>7, <1>8, <1>9, <1>10, <1>11, <1>12,
       <1>13, <1>14, <1>15, <1>16, <1>17, <1>18, <1>19, <1>20, <1>21 DEF Next, Service, Page

\* The page's invariant, when no other task of the page runs between the
\* events that end a turn and the end of their stream.
THEOREM PageCorrect ==
    ASSUME "late_end" \notin Env
    PROVE  Spec => []PageInv
  <1>1. Init => PageInv
    BY PageInit
  <1>2. PageInv /\ ServiceInv /\ [Next]_vars => PageInv'
    BY PageNext
  <1>3. QED
    BY <1>1, <1>2, ServiceCorrect, PTL DEF Spec

\* At most one loop feeds the entry of the session, and its handle is there
\* for Stop, reset and the watchdog (chat-stream-store.ts lines 304-315,
\* 395-406), for every number of turns, events and connections.
THEOREM HandleIsOwned ==
    ASSUME "late_end" \notin Env
    PROVE  Spec => []HandleOwned
  <1>1. PageInv => HandleOwned
    BY DEF PageInv
  <1>2. QED
    BY <1>1, PageCorrect, PTL

\* What a page shows is one turn's events, in order, without a hole or a
\* repetition, from where the loop asked (replay.ts lines 61-98,
\* chat-stream-store.ts lines 458-474), for every size of the ring.
THEOREM ShownIsExact ==
    ASSUME "late_end" \notin Env
    PROVE  Spec => []ShownExactly
  <1>1. PageInv => ShownExactly
    BY DEF PageInv
  <1>2. QED
    BY <1>1, PageCorrect, PTL

\* A page that calls a turn done shows it to its end, and behind it only what
\* a late tool added (chat-stream-store.ts lines 354-380), whatever breaks,
\* leaks or restarts.
THEOREM DoneWhole ==
    ASSUME "late_end" \notin Env
    PROVE  Spec => []DoneIsWhole
  <1>1. PageInv => DoneIsWhole
    BY DEF PageInv
  <1>2. QED
    BY <1>1, PageCorrect, PTL
-----------------------------------------------------------------------------
(* The refinement of TurnView: what the registry and the page do to the    *)
(* events of a turn and to the view of them.                               *)

OldestOf(n) == IF n > RingSize THEN n - RingSize ELSE 0

LEMMA OldestIs ==
    ASSUME NEW n \in Nat
    PROVE  /\ n > RingSize => OldestOf(n) = n - RingSize
           /\ ~(n > RingSize) => OldestOf(n) = 0
  BY StreamReplayAssumption DEF OldestOf

\* A ring that drops nothing before it is full still does not after append().
LEMMA PushedFull ==
    ASSUME NEW r \in Entry, NEW es \in Seq(Wire),
           r.startOffset + Len(r.events) = r.totalEmitted,
           r.startOffset = OldestOf(r.totalEmitted)
    PROVE  Pushed(r, es).startOffset = OldestOf(Pushed(r, es).totalEmitted)
  <1>1. /\ r.events \in Seq(Wire) /\ r.startOffset \in Nat /\ r.totalEmitted \in Nat
        /\ Len(r.events) \in Nat /\ Len(es) \in Nat
    BY DEF Entry
  <1>2. PICK all : all = r.events \o es
    OBVIOUS
  <1>3. Len(all) = Len(r.events) + Len(es)
    BY <1>1, <1>2, Concat
  <1>4. PICK d : d = IF Len(all) > RingSize THEN Len(all) - RingSize ELSE 0
    OBVIOUS
  <1>5. RingSize \in Nat
    BY StreamReplayAssumption
  <1>6. Pushed(r, es) = [r EXCEPT !.events = SubSeq(all, d + 1, Len(all)),
                                  !.startOffset = r.startOffset + d,
                                  !.totalEmitted = r.totalEmitted + Len(es)]
    BY <1>2, <1>4 DEF Pushed
  <1>7. /\ Pushed(r, es).startOffset = r.startOffset + d
        /\ Pushed(r, es).totalEmitted = r.totalEmitted + Len(es)
    BY <1>6 DEF Entry
  <1>8. PICK s \in Nat, l \in Nat, n \in Nat, m \in Nat :
            s = r.startOffset /\ l = Len(r.events) /\ n = r.totalEmitted /\ m = Len(es)
    BY <1>1
  <1>9. s + l = n
    BY <1>8
  <1>10. s = OldestOf(n)
    BY <1>8
  <1>a. PICK w \in Nat : w = l + m /\ w = Len(all)
    BY <1>3, <1>8
  <1>11. d = IF w > RingSize THEN w - RingSize ELSE 0
    BY <1>4, <1>a
  <1>12. s + d = OldestOf(n + m)
    <2>1. PICK v \in Nat : v = n + m
      OBVIOUS
    <2>2. CASE n > RingSize
      <3>1. s = n - RingSize /\ l = RingSize
        BY <1>5, <1>9, <1>10, <2>2, OldestIs
      <3>2. d = m
        BY <1>5, <1>a, <1>11, <3>1
      <3>3. v > RingSize /\ s + d = v - RingSize
        BY <1>5, <2>1, <2>2, <3>1, <3>2
      <3>4. QED
        BY <2>1, <3>3, OldestIs
    <2>3. CASE ~(n > RingSize)
      <3>1. s = 0 /\ l = n
        BY <1>5, <1>9, <1>10, <2>3, OldestIs
      <3>2. QED
        BY <1>5, <1>a, <1>11, <2>1, <3>1, OldestIs
    <2>4. QED
      BY <2>2, <2>3
  <1>13. /\ Pushed(r, es).startOffset = s + d /\ Pushed(r, es).totalEmitted = n + m
    BY <1>7, <1>8
  <1>14. QED
    BY <1>12, <1>13

LEMMA RingFullIs ==
    RingFull <=> \A t \in Turn : registry[t].startOffset = OldestOf(registry[t].totalEmitted)
  BY DEF RingFull, OldestOf

\* Nothing that the view tells of entry r differs in entry q.
SameTurn(r, q) ==
    /\ q.status = "none" <=> r.status = "none"
    /\ q.status = "running" <=> r.status = "running"
    /\ q.totalEmitted = r.totalEmitted /\ q.startOffset = r.startOffset
    /\ q.finishedAt = r.finishedAt

Steady == \A t \in Turn : SameTurn(registry[t], registry'[t])

\* Turn t comes to status st with n more events and end fin, and the others stay.
Moves(t, st, n, fin) ==
    /\ registry'[t].status = st
    /\ registry'[t].finishedAt = fin
    /\ registry'[t].totalEmitted = registry[t].totalEmitted + n
    /\ registry'[t].startOffset = OldestOf(registry'[t].totalEmitted)
    /\ \A u \in Turn \ {t} : SameTurn(registry[u], registry'[u])

Begins(t) ==
    /\ registry[t].status = "none" /\ registry[t].totalEmitted = 0
    /\ registry[t].finishedAt = 0
    /\ \A u \in Turn : registry[u].status # "running"
    /\ Moves(t, "running", 1, 0)

Goes(t) ==
    /\ registry[t].status = "running" /\ registry[t].finishedAt = 0
    /\ \/ Moves(t, "running", 1, 0)
       \/ \E n \in {1, 2}, st \in {"done", "error"} :
              Moves(t, st, n, registry[t].totalEmitted + n)
       \/ Moves(t, "swept", 0, 0)

\* A late tool adds an event to turn t.
Adds(t) ==
    /\ registry[t].status \in {"done", "error"} /\ registry[t].finishedAt > 0
    /\ Moves(t, registry[t].status, 1, registry[t].finishedAt)

TurnStep == Steady \/ \E t \in Turn : Begins(t) \/ Goes(t) \/ Adds(t)

LEMMA TurnAccept ==
    ASSUME ServiceInv, RingFull, NEW c \in Conn, Accept(c)
    PROVE  TurnStep /\ UNCHANGED entry
  <1>1. PICK t \in Turn : /\ registry[t].status = "none"
                          /\ \A u \in Turn : registry[u].status # "running"
                          /\ registry' = [registry EXCEPT ![t] = Pushed(Registered, Started(t))]
    BY Given DEF Accept, Registered, Started, Running
  <1>2. PICK r : r = Registered
    OBVIOUS
  <1>3. /\ r \in Entry /\ r.status = "running" /\ r.totalEmitted = 0 /\ r.startOffset = 0
        /\ r.finishedAt = 0 /\ Numbered(r, t)
    BY <1>2, RegisteredIs
  <1>4. PICK es : es = Started(t)
    OBVIOUS
  <1>5. es \in Seq(Wire) /\ Len(es) = 1
    BY <1>4, StartedIs
  <1>6. PICK p : p = Pushed(r, es)
    OBVIOUS
  <1>7. p.status = "running" /\ p.totalEmitted = 1 /\ p.finishedAt = 0
    <2>1. /\ p.status = r.status /\ p.totalEmitted = r.totalEmitted + Len(es)
          /\ p.finishedAt = r.finishedAt
      BY <1>3, <1>5, <1>6, PushedEntry
    <2>2. QED
      BY <1>3, <1>5, <2>1
  <1>8. p.startOffset = OldestOf(p.totalEmitted)
    <2>1. r.startOffset = OldestOf(r.totalEmitted)
      BY <1>3, StreamReplayAssumption DEF OldestOf
    <2>2. QED
      BY <1>3, <1>5, <1>6, <2>1, PushedFull DEF Numbered
  <1>9. \A u \in Turn : registry'[u] = IF u = t THEN p ELSE registry[u]
    BY <1>1, <1>2, <1>4, <1>6, Given
  <1>10. registry[t].totalEmitted = 0 /\ registry[t].finishedAt = 0
    BY <1>1, Given DEF RingOK, NoEntry
  <1>11. Begins(t)
    BY <1>1, <1>7, <1>8, <1>9, <1>10 DEF Begins, Moves, SameTurn
  <1>12. QED
    BY <1>11 DEF TurnStep, Accept

LEMMA TurnEmit ==
    ASSUME ServiceInv, RingFull, NEW t \in Turn, Emit(t)
    PROVE  TurnStep /\ UNCHANGED entry
  <1>1. PICK es \in Seq(Wire), p \in Entry :
             /\ p = Pushed(registry[t], es) /\ p.status = "running" /\ p.finishedAt = 0
             /\ p.totalEmitted = registry[t].totalEmitted + 1
             /\ \A u \in Turn : registry'[u] = IF u = t THEN p ELSE registry[u]
    BY EmitIs
  <1>2. PICK r \in Entry : r = registry[t] /\ Numbered(r, t) /\ r.finishedAt = 0
    BY RunningRing DEF Emit
  <1>3. r.startOffset = OldestOf(r.totalEmitted)
    BY <1>2, RingFullIs
  <1>4. p.startOffset = OldestOf(p.totalEmitted)
    BY <1>1, <1>2, <1>3, PushedFull DEF Numbered
  <1>5. registry[t].status = "running"
    BY DEF Emit, Running
  <1>6. Goes(t)
    BY <1>1, <1>2, <1>4, <1>5 DEF Goes, Moves, SameTurn
  <1>7. QED
    BY <1>6 DEF TurnStep, Emit

LEMMA TurnEmitLate ==
    ASSUME ServiceInv, RingFull, NEW t \in Turn, EmitLate(t)
    PROVE  TurnStep /\ UNCHANGED entry
  <1>1. PICK es \in Seq(Wire), p \in Entry :
             /\ p = Pushed(registry[t], es) /\ p.status = registry[t].status
             /\ p.finishedAt = registry[t].finishedAt /\ p.finishedAt > 0
             /\ p.totalEmitted = registry[t].totalEmitted + 1
             /\ \A u \in Turn : registry'[u] = IF u = t THEN p ELSE registry[u]
    BY LateIs
  <1>2. registry[t].status \in {"done", "error"}
    BY DEF EmitLate
  <1>3. PICK r \in Entry : r = registry[t] /\ Numbered(r, t)
    BY <1>2, RunningRing
  <1>4. r.startOffset = OldestOf(r.totalEmitted)
    BY <1>3, RingFullIs
  <1>5. p.startOffset = OldestOf(p.totalEmitted)
    BY <1>1, <1>3, <1>4, PushedFull DEF Numbered
  <1>6. Adds(t)
    BY <1>1, <1>2, <1>5 DEF Adds, Moves, SameTurn
  <1>7. QED
    BY <1>6 DEF TurnStep, EmitLate

LEMMA TurnEnd ==
    ASSUME ServiceInv, RingFull, NEW t \in Turn, NEW how \in {"done", "aborted", "error"}, End(t, how)
    PROVE  TurnStep /\ UNCHANGED entry
  <1>1. PICK r \in Entry : r = registry[t] /\ Numbered(r, t) /\ r.finishedAt = 0
    BY RunningRing DEF End
  <1>2. PICK es : es = Ending(t, how)
    OBVIOUS
  <1>3. es \in Seq(Wire) /\ Len(es) \in {1, 2}
    <2>1. registry[t].totalEmitted \in Nat
      BY RunningRing
    <2>2. es \in Seq(Wire) /\ Len(es) \in 1 .. 2
      BY <1>2, <2>1, EndingIs
    <2>3. QED
      BY <2>2
  <1>4. PICK p : p = Pushed(r, es)
    OBVIOUS
  <1>5. p \in Entry /\ p.totalEmitted = r.totalEmitted + Len(es)
    BY <1>3, <1>4, PushedEntry
  <1>6. p.startOffset = OldestOf(p.totalEmitted)
    <2>1. r.startOffset = OldestOf(r.totalEmitted)
      BY <1>1, RingFullIs
    <2>2. QED
      BY <1>1, <1>3, <1>4, <2>1, PushedFull DEF Numbered
  <1>7. PICK q : q = Finished(p, how, r.totalEmitted + Len(es))
    OBVIOUS
  <1>8. /\ q.status \in {"done", "error"} /\ q.startOffset = p.startOffset
        /\ q.totalEmitted = p.totalEmitted /\ q.finishedAt = r.totalEmitted + Len(es)
    <2>1. r.totalEmitted + Len(es) \in Nat
      BY <1>3 DEF Entry
    <2>2. QED
      BY <1>5, <1>7, <2>1, FinishedIs
  <1>9. \A u \in Turn : registry'[u] = IF u = t THEN q ELSE registry[u]
    <2>1. registry' = [registry EXCEPT
              ![t] = Finished(Pushed(registry[t], Ending(t, how)), how,
                              registry[t].totalEmitted + Len(Ending(t, how)))]
      BY Given DEF End, Finished
    <2>2. QED
      BY <1>1, <1>2, <1>4, <1>7, <2>1, Given
  <1>10. registry[t].status = "running"
    BY DEF End, Running
  <1>11. Moves(t, q.status, Len(es), registry[t].totalEmitted + Len(es))
    BY <1>1, <1>5, <1>6, <1>8, <1>9 DEF Moves, SameTurn
  <1>12. Goes(t)
    BY <1>1, <1>3, <1>8, <1>10, <1>11 DEF Goes
  <1>13. QED
    BY <1>12 DEF TurnStep, End

\* What is forgotten keeps what it has produced.
LEMMA SweptIs ==
    ASSUME NEW r \in Entry, NEW q, q = Deleted(r)
    PROVE  /\ q.status = "swept" /\ q.finishedAt = r.finishedAt
           /\ q.totalEmitted = r.totalEmitted /\ q.startOffset = r.startOffset
  BY DEF Entry, Deleted

LEMMA TurnSweep ==
    ASSUME ServiceInv, RingFull, NEW t \in Turn, Sweep(t)
    PROVE  TurnStep /\ UNCHANGED entry
  <1>1. PICK r \in Entry : r = registry[t]
    BY Given
  <1>2. PICK q : q = Deleted(r)
    OBVIOUS
  <1>3. /\ q.status = "swept" /\ q.totalEmitted = r.totalEmitted
        /\ q.startOffset = r.startOffset /\ q.finishedAt = r.finishedAt
    BY <1>2, SweptIs
  <1>4. registry' = [registry EXCEPT ![t] = q]
    BY <1>1, <1>2, Given DEF Sweep
  <1>5. \A u \in Turn : registry'[u] = IF u = t THEN q ELSE registry[u]
    BY <1>4, Given
  <1>6. r.status \in {"done", "error", "running"}
    BY <1>1 DEF Sweep, Running
  <1>7. CASE r.status = "running"
    <2>1. r.startOffset = OldestOf(r.totalEmitted) /\ r.totalEmitted + 0 = r.totalEmitted
      BY <1>1, RingFullIs DEF Entry
    <2>2. r.finishedAt = 0
      BY <1>1, <1>7, RunningRing DEF Running
    <2>3. Moves(t, "swept", 0, 0)
      BY <1>1, <1>3, <1>5, <2>1, <2>2 DEF Moves, SameTurn
    <2>4. QED
      BY <1>1, <1>7, <2>2, <2>3 DEF TurnStep, Goes, Sweep
  <1>8. CASE r.status # "running"
    BY <1>1, <1>3, <1>5, <1>6, <1>8 DEF TurnStep, Steady, SameTurn, Sweep
  <1>9. QED
    BY <1>7, <1>8

LEMMA TurnRestart ==
    ASSUME ServiceInv, RingFull, OneRunning, NEW how \in {"eof", "failed"}, Restart(how)
    PROVE  TurnStep /\ UNCHANGED entry
  <1>1. registry' = [t \in Turn |-> IF registry[t].status = "none" THEN registry[t]
                                                                  ELSE Deleted(registry[t])]
    BY DEF Restart
  <1>2. PICK t \in Turn : registry[t].status = "running" /\ registry[t].finishedAt = 0
    BY RunningRing DEF Restart, Running
  <1>3. ASSUME NEW u \in Turn
        PROVE  /\ registry'[u].totalEmitted = registry[u].totalEmitted
               /\ registry'[u].startOffset = registry[u].startOffset
               /\ registry'[u].finishedAt = registry[u].finishedAt
               /\ registry'[u].status =
                      IF registry[u].status = "none" THEN "none" ELSE "swept"
    <2>1. PICK r \in Entry : r = registry[u]
      BY Given
    <2>2. PICK q : q = Deleted(r)
      OBVIOUS
    <2>3. /\ q.status = "swept" /\ q.totalEmitted = r.totalEmitted
          /\ q.startOffset = r.startOffset /\ q.finishedAt = r.finishedAt
      BY <2>2, SweptIs
    <2>4. registry'[u] = IF r.status = "none" THEN r ELSE q
      BY <1>1, <2>1, <2>2
    <2>5. QED
      BY <2>1, <2>3, <2>4
  <1>4. \A u \in Turn \ {t} : registry[u].status # "running"
    BY <1>2 DEF OneRunning, Running
  <1>5. registry[t].totalEmitted + 0 = registry[t].totalEmitted
    BY Given DEF Entry
  <1>6. Moves(t, "swept", 0, 0)
    BY <1>2, <1>3, <1>4, <1>5, RingFullIs DEF Moves, SameTurn
  <1>7. QED
    BY <1>2, <1>6 DEF TurnStep, Goes, Restart

\* A response that is closed, and a turn that is only listened to.
LEMMA TurnUnsubscribed ==
    ASSUME ServiceInv, NEW c, Unsubscribed(c)
    PROVE  TurnStep
  <1>1. ASSUME NEW t \in Turn
        PROVE  SameTurn(registry[t], registry'[t])
    <2>1. PICK r \in Entry : r = registry[t]
      BY Given
    <2>2. registry'[t] = [r EXCEPT !.listeners = @ \ {c}]
      BY <2>1 DEF Unsubscribed
    <2>3. QED
      BY <2>1, <2>2 DEF SameTurn, Entry
  <1>2. QED
    BY <1>1 DEF TurnStep, Steady

LEMMA TurnServe ==
    ASSUME ServiceInv, NEW c \in Conn, Serve(c)
    PROVE  TurnStep /\ UNCHANGED entry
  <1>1. PICK es \in Seq(Wire), w \in Connection :
            \/ AnswerEffect(c, es, w)
            \/ \E q \in Entry : StreamEffect(c, conn[c].turn, es, q, w)
    BY ServeIs
  <1>2. CASE AnswerEffect(c, es, w)
    BY <1>2 DEF AnswerEffect, TurnStep, Steady, SameTurn, Serve
  <1>3. ASSUME NEW q \in Entry, StreamEffect(c, conn[c].turn, es, q, w)
        PROVE  TurnStep
    <2>1. PICK t \in Turn : t = conn[c].turn
      BY ServeIs
    <2>2. /\ registry[t].status = "running" /\ q.status = "running"
          /\ q.startOffset = registry[t].startOffset
          /\ q.totalEmitted = registry[t].totalEmitted
          /\ q.finishedAt = registry[t].finishedAt
          /\ registry' = [registry EXCEPT ![t] = q]
      BY <1>3, <2>1 DEF StreamEffect
    <2>3. \A u \in Turn : registry'[u] = IF u = t THEN q ELSE registry[u]
      BY <2>2, Given
    <2>4. QED
      BY <2>2, <2>3 DEF TurnStep, Steady, SameTurn
  <1>4. QED
    BY <1>1, <1>2, <1>3 DEF Serve

LEMMA TurnSame ==
    ASSUME UNCHANGED registry
    PROVE  TurnStep
  BY DEF TurnStep, Steady, SameTurn

\* What one step of the service may do to the turns, and that it leaves the
\* page alone.
LEMMA TurnSteps ==
    ASSUME ServiceInv, RingFull, OneRunning, Service
    PROVE  TurnStep /\ UNCHANGED entry
  <1>1. ASSUME NEW c \in Conn, Accept(c) PROVE TurnStep /\ UNCHANGED entry
    BY <1>1, TurnAccept
  <1>2. ASSUME NEW c \in Conn, Refuse(c) \/ Vanish(c) PROVE TurnStep /\ UNCHANGED entry
    BY <1>2, TurnSame DEF Refuse, Vanish
  <1>3. ASSUME NEW c \in Conn, Serve(c) PROVE TurnStep /\ UNCHANGED entry
    BY <1>3, TurnServe
  <1>4. ASSUME NEW c \in Conn, Hangup(c) PROVE TurnStep /\ UNCHANGED entry
    BY <1>4, TurnUnsubscribed DEF Hangup
  <1>5. ASSUME NEW c \in Conn, NEW how \in {"eof", "failed"}, Break(c, how)
        PROVE  TurnStep /\ UNCHANGED entry
    BY <1>5, TurnUnsubscribed DEF Break
  <1>6. ASSUME NEW how \in {"eof", "failed"}, Restart(how)
        PROVE  TurnStep /\ UNCHANGED entry
    BY <1>6, TurnRestart
  <1>7. ASSUME NEW t \in Turn, NEW how \in {"done", "aborted", "error"}, End(t, how)
        PROVE  TurnStep /\ UNCHANGED entry
    BY <1>7, TurnEnd
  <1>8. ASSUME NEW t \in Turn, Emit(t) PROVE TurnStep /\ UNCHANGED entry
    BY <1>8, TurnEmit
  <1>9. ASSUME NEW t \in Turn, Leak(t) PROVE TurnStep /\ UNCHANGED entry
    BY <1>9, TurnSame DEF Leak
  <1>10. ASSUME NEW t \in Turn, Sweep(t) PROVE TurnStep /\ UNCHANGED entry
    BY <1>10, TurnSweep
  <1>11. ASSUME NEW t \in Turn, EmitLate(t) PROVE TurnStep /\ UNCHANGED entry
    BY <1>11, TurnEmitLate
  <1>12. QED
    BY <1>1, <1>2, <1>3, <1>4, <1>5, <1>6, <1>7, <1>8, <1>9, <1>10, <1>11 DEF Service

\* The page does nothing to the turns.
LEMMA PageTurns ==
    ASSUME Page
    PROVE  UNCHANGED registry
  BY DEF Page, Send, Deliver, Watchdog, FetchSession, Attach, Stop, Reset, Refresh

LEMMA TurnsKept ==
    ASSUME ServiceInv, RingFull, OneRunning, Begun, TurnStep
    PROVE  RingFull' /\ OneRunning' /\ Begun'
  <1>1. /\ \A t \in Turn : registry[t].startOffset = OldestOf(registry[t].totalEmitted)
        /\ \A t, u \in Turn : registry[t].status = "running" /\ registry[u].status = "running" => t = u
    BY RingFullIs DEF OneRunning, Running
  <1>2. /\ \A t \in Turn : registry'[t].startOffset = OldestOf(registry'[t].totalEmitted)
        /\ \A t, u \in Turn :
               registry'[t].status = "running" /\ registry'[u].status = "running" => t = u
    BY <1>1 DEF TurnStep, Steady, SameTurn, Begins, Goes, Adds, Moves
  <1>3. Begun'
    <2>1. ASSUME NEW t \in Turn
          PROVE  registry'[t].status # "none" <=> registry'[t].totalEmitted > 0
      <3>1. PICK n \in Nat : n = registry[t].totalEmitted /\ (n > 0 <=> registry[t].status # "none")
        BY Given DEF Entry, Begun
      <3>2. CASE SameTurn(registry[t], registry'[t])
        BY <3>1, <3>2 DEF SameTurn
      <3>3. CASE Begins(t)
        BY <3>3 DEF Begins, Moves
      <3>4. CASE Goes(t)
        <4>1. registry[t].status = "running" /\ n > 0
          BY <3>1, <3>4 DEF Goes
        <4>2. \E st \in {"running", "done", "error", "swept"}, m \in {0, 1, 2} :
                  \E fin : Moves(t, st, m, fin)
          BY <3>4 DEF Goes
        <4>3. QED
          BY <3>1, <4>1, <4>2 DEF Moves
      <3>5. CASE Adds(t)
        BY <3>1, <3>5 DEF Adds, Moves
      <3>6. QED
        BY <3>2, <3>3, <3>4, <3>5 DEF TurnStep, Steady, Begins, Goes, Adds, Moves
    <2>2. QED
      BY <2>1 DEF Begun
  <1>4. QED
    BY <1>2, <1>3 DEF RingFull, OneRunning, OldestOf, Running
-----------------------------------------------------------------------------
(* Behind the end of a turn comes the end of its stream. *)

HasDone(q) == \E i \in DOMAIN q : q[i].kind = "done"
OnlyEof(q) == \A i \in DOMAIN q : ~IsTurnEvent(q[i]) => q[i].kind = "eof"

FinalIn(k, st, shown) ==
    /\ st = "done" => k.saw = "done"
    /\ st = "done" \/ HasDone(k.wire) => k.phase = "ended" /\ OnlyEof(k.wire)
    /\ \A i \in DOMAIN k.wire : k.wire[i].kind = "ring_overflow" =>
           shown = <<>> /\ Len(k.wire) = 1

LEMMA EndFinalIs ==
    EndFinal <=> \A c \in Conn : conn[c].live => FinalIn(conn[c], entry.status, entry.shown)
  BY DEF EndFinal, FinalIn, HasDone, OnlyEof, Live

LEMMA EndFinalNext ==
    ASSUME \A c \in Conn : conn'[c].live => FinalIn(conn'[c], entry'.status, entry'.shown)
    PROVE  EndFinal'
  BY DEF EndFinal, FinalIn, HasDone, OnlyEof, Live

\* A response that goes on.
LEMMA FinalOpen ==
    ASSUME NEW k, ConnOK(k), k.phase # "ended", NEW w, ConnOK(w), w.phase # "ended",
           w.saw = k.saw, NEW es \in Seq(Wire), w.wire = k.wire \o es, ~HasDone(es),
           NEW st, NEW shown, FinalIn(k, st, shown)
    PROVE  FinalIn(w, st, shown)
  <1>1. k.wire \in Seq(Wire) /\ st # "done" /\ ~HasDone(k.wire)
    BY ConnTypes DEF ConnOK, FinalIn
  <1>2. ~HasDone(w.wire)
    BY <1>1, Items DEF HasDone
  <1>3. \A i \in DOMAIN w.wire : w.wire[i].kind # "ring_overflow"
    BY DEF ConnOK, IsTurnEvent, TurnKind
  <1>4. QED
    BY <1>1, <1>2, <1>3 DEF FinalIn

\* A response that ends, after its turn or not.
LEMMA FinalEnded ==
    ASSUME NEW k, ConnOK(k), k.phase # "ended", NEW w, w.phase = "ended", w.saw = k.saw,
           NEW es \in Seq(Wire), w.wire = k.wire \o es, HasDone(es) => OnlyEof(es),
           \A i \in DOMAIN es : es[i].kind # "ring_overflow",
           NEW st, NEW shown, FinalIn(k, st, shown)
    PROVE  FinalIn(w, st, shown)
  <1>1. k.wire \in Seq(Wire) /\ st # "done" /\ ~HasDone(k.wire)
    BY ConnTypes DEF ConnOK, FinalIn
  <1>2. \A i \in DOMAIN k.wire : IsTurnEvent(k.wire[i])
    BY DEF ConnOK
  <1>3. ASSUME NEW i \in DOMAIN w.wire
        PROVE  \/ IsTurnEvent(w.wire[i]) /\ w.wire[i].kind # "done"
               \/ \E j \in DOMAIN es : w.wire[i] = es[j]
    BY <1>1, <1>2, <1>3, Items DEF HasDone
  <1>4. \A i \in DOMAIN w.wire : w.wire[i].kind # "ring_overflow"
    BY <1>3 DEF IsTurnEvent, TurnKind
  <1>5. HasDone(w.wire) => OnlyEof(w.wire)
    BY <1>3 DEF HasDone, OnlyEof
  <1>6. QED
    BY <1>1, <1>4, <1>5 DEF FinalIn

\* A response of which only one word comes through.
LEMMA FinalSingle ==
    ASSUME NEW k, k.phase # "ended", NEW w, w.phase = "ended", w.saw = k.saw,
           Len(w.wire) = 1, DOMAIN w.wire = {1}, w.wire[1].kind \in {"failed", "ring_overflow"},
           NEW st, NEW shown, FinalIn(k, st, shown),
           w.wire[1].kind = "ring_overflow" => shown = <<>>
    PROVE  FinalIn(w, st, shown)
  <1>1. st # "done" /\ ~HasDone(w.wire)
    BY DEF FinalIn, HasDone
  <1>2. QED
    BY <1>1 DEF FinalIn

\* The end of the stream after the events es.
LEMMA LastFinal ==
    ASSUME NEW es \in Seq(Wire), \A j \in DOMAIN es : IsTurnEvent(es[j]), NEW w, w = Last(es)
    PROVE  w \in Seq(Wire) /\ OnlyEof(w) /\ \A i \in DOMAIN w : w[i].kind # "ring_overflow"
  <1>1. /\ w \in Seq(Wire) /\ Len(es) \in Nat
        /\ DOMAIN w = 1 .. Len(es) + 1 /\ DOMAIN es = 1 .. Len(es)
        /\ \A i \in DOMAIN es : w[i] = es[i]
        /\ w[Len(es) + 1].kind = "eof"
    BY LastIs
  <1>2. ASSUME NEW i \in DOMAIN w
        PROVE  IsTurnEvent(w[i]) \/ w[i].kind = "eof"
    BY <1>1
  <1>3. QED
    BY <1>1, <1>2 DEF OnlyEof, IsTurnEvent, TurnKind

\* A step of the service, one loop at a time.
LEMMA FinalService ==
    ASSUME EndFinal, entry' = entry,
           \A c \in Conn : conn'[c].live =>
               \/ conn'[c] = conn[c]
               \/ FinalIn(conn'[c], entry.status, entry.shown)
    PROVE  EndFinal'
  <1>1. ASSUME NEW c \in Conn, conn'[c].live
        PROVE  FinalIn(conn'[c], entry'.status, entry'.shown)
    BY <1>1, EndFinalIs
  <1>2. QED
    BY <1>1, EndFinalNext

LEMMA FinalAccept ==
    ASSUME ServiceInv, EndFinal, NEW c \in Conn, Accept(c)
    PROVE  EndFinal'
  <1>1. PICK t \in Turn, es \in Seq(Wire), p \in Entry, w \in Connection :
            AcceptEffect(c, t, es, p, w)
    BY AcceptIs
  <1>2. PICK k : k = conn[c]
    OBVIOUS
  <1>3. /\ ConnOK(k) /\ k.phase = "request" /\ k.wire = <<>>
        /\ ConnOK(w) /\ w.phase = "open" /\ w.saw = k.saw /\ w.live = k.live
        /\ k.live => w.wire = <<>> \o es
        /\ conn' = [conn EXCEPT ![c] = w]
    BY <1>1, <1>2, Given DEF AcceptEffect, ConnOK
  <1>4. ~HasDone(es)
    BY <1>1, StartedIs DEF AcceptEffect, HasDone
  <1>5. k.live => FinalIn(w, entry.status, entry.shown)
    BY <1>2, <1>3, <1>4, EndFinalIs, FinalOpen
  <1>6. \A d \in Conn : conn'[d] = IF d = c THEN w ELSE conn[d]
    BY <1>3, Given
  <1>7. entry' = entry
    BY DEF Accept
  <1>8. QED
    BY <1>3, <1>5, <1>6, <1>7, FinalService

LEMMA FinalRefuse ==
    ASSUME ServiceInv, EndFinal, NEW c \in Conn, Refuse(c)
    PROVE  EndFinal'
  <1>1. PICK es : es = <<Item("failed")>>
    OBVIOUS
  <1>2. /\ es \in Seq(Wire) /\ DOMAIN es = {1} /\ es[1].kind = "failed"
    BY <1>1, FailedIs
  <1>3. PICK k : k = conn[c]
    OBVIOUS
  <1>4. ConnOK(k) /\ k.phase = "request"
    BY <1>3, Given DEF Refuse
  <1>5. PICK w : w = Closed(Written(k, es))
    OBVIOUS
  <1>6. ~HasDone(es) /\ \A i \in DOMAIN es : es[i].kind # "ring_overflow"
    BY <1>2 DEF HasDone
  <1>7. /\ w.phase = "ended"
        /\ ~k.live => w = Free
        /\ k.live => SameLoop(k, w) /\ w.wire = k.wire \o es
    BY <1>2, <1>4, <1>5, <1>6, ClosedWritten
  <1>8. k.live => FinalIn(w, entry.status, entry.shown)
    <2>1. SUFFICES ASSUME k.live PROVE FinalIn(w, entry.status, entry.shown)
      OBVIOUS
    <2>2. FinalIn(k, entry.status, entry.shown)
      BY <1>3, <2>1, EndFinalIs
    <2>3. w.saw = k.saw /\ w.wire = k.wire \o es /\ k.phase # "ended"
      BY <1>4, <1>7, <2>1 DEF SameLoop
    <2>4. QED
      BY <1>2, <1>4, <1>6, <1>7, <2>2, <2>3, FinalEnded
  <1>9. \A d \in Conn : conn'[d] = IF d = c THEN w ELSE conn[d]
    BY <1>1, <1>3, <1>5, Given DEF Refuse
  <1>10. entry' = entry
    BY DEF Refuse
  <1>11. QED
    BY <1>7, <1>8, <1>9, <1>10, FreeIs, FinalService

LEMMA FinalServe ==
    ASSUME ServiceInv, PageInv, EndFinal, NEW c \in Conn, Serve(c)
    PROVE  EndFinal'
  <1>1. PICK k : k = conn[c]
    OBVIOUS
  <1>2. PICK t \in Turn : t = k.turn
    BY <1>1, ServeIs
  <1>3. ConnOK(k) /\ k.phase = "request" /\ k.wire = <<>> /\ k.from \in Nat
    BY <1>1, Given, ServeIs, ConnTypes DEF ConnOK
  <1>4. PICK es \in Seq(Wire), w \in Connection :
            \/ AnswerEffect(c, es, w)
            \/ \E q \in Entry : StreamEffect(c, conn[c].turn, es, q, w)
    BY ServeIs
  <1>5. k.live => FinalIn(k, entry.status, entry.shown) /\ entry.shown = <<>>
    BY <1>1, <1>3, EndFinalIs, Loops DEF LoopIn
  <1>6. entry' = entry
    BY DEF Serve
  <1>7. PICK r : r = registry[t] /\ r \in Entry /\ RingOK(r, t) /\ r.startOffset \in Nat
    BY Given DEF Entry
  <1>8. CASE AnswerEffect(c, es, w)
    <2>1. /\ Answers(r, k.from, es) /\ conn' = [conn EXCEPT ![c] = w] /\ w.phase = "ended"
          /\ ~k.live => w = Free
          /\ k.live => w.saw = k.saw /\ w.wire = k.wire \o es
      BY <1>1, <1>2, <1>3, <1>7, <1>8 DEF AnswerEffect, SameLoop
    <2>2. k.live => FinalIn(w, entry.status, entry.shown)
      <3>1. SUFFICES ASSUME k.live PROVE FinalIn(w, entry.status, entry.shown)
        OBVIOUS
      <3>2. CASE es = <<Item("failed")>>
        <4>1. DOMAIN es = {1} /\ es[1].kind = "failed"
          BY <3>2, FailedIs
        <4>2. ~HasDone(es) /\ \A i \in DOMAIN es : es[i].kind # "ring_overflow"
          BY <4>1 DEF HasDone
        <4>3. QED
          BY <1>3, <1>5, <2>1, <3>1, <4>2, FinalEnded
      <3>3. CASE es = Overflow(r.startOffset)
        <4>1. Len(es) = 1 /\ DOMAIN es = {1} /\ es[1].kind = "ring_overflow"
          BY <1>7, <3>3, OverflowIs
        <4>2. w.wire = es
          BY <1>3, <2>1, <3>1
        <4>3. QED
          BY <1>3, <1>5, <2>1, <3>1, <4>1, <4>2, FinalSingle
      <3>4. CASE /\ es = Last(Suffix(r, k.from)) /\ k.from >= r.startOffset
                 /\ r.status \in {"done", "error"}
        <4>1. PICK x : x = Suffix(r, k.from)
          OBVIOUS
        <4>2. x \in Seq(Wire) /\ \A j \in DOMAIN x : IsTurnEvent(x[j])
          BY <1>3, <1>7, <3>4, <4>1, SuffixIs DEF Numbering
        <4>3. OnlyEof(es) /\ \A i \in DOMAIN es : es[i].kind # "ring_overflow"
          BY <3>4, <4>1, <4>2, LastFinal
        <4>4. QED
          BY <1>3, <1>5, <2>1, <3>1, <4>3, FinalEnded
      <3>5. QED
        BY <2>1, <3>2, <3>3, <3>4 DEF Answers
    <2>3. \A d \in Conn : conn'[d] = IF d = c THEN w ELSE conn[d]
      BY <2>1, Given
    <2>4. QED
      BY <1>6, <2>1, <2>2, <2>3, FreeIs, FinalService
  <1>9. ASSUME NEW q \in Entry, StreamEffect(c, conn[c].turn, es, q, w)
        PROVE  EndFinal'
    <2>1. /\ r.status = "running" /\ k.from >= r.startOffset /\ es = Suffix(r, k.from)
          /\ conn' = [conn EXCEPT ![c] = w]
          /\ ConnOK(w) /\ w.saw = k.saw /\ w.phase = "open" /\ w.live = k.live
          /\ k.live => w.wire = k.wire \o es
      BY <1>1, <1>2, <1>3, <1>7, <1>9 DEF StreamEffect, SameLoop
    <2>2. ~HasDone(es)
      <3>1. r.finishedAt = 0
        BY <1>7, <2>1, RunningRing DEF Running
      <3>2. es = Suffix(r, k.from) /\ r.status # "swept"
        BY <2>1
      <3>3. ASSUME NEW i \in DOMAIN es PROVE es[i].n \in Nat /\ Placed(es[i], 0)
        BY <1>3, <1>7, <2>1, <3>1, <3>2, SuffixIs, Element
      <3>4. QED
        BY <3>3 DEF HasDone, Placed
    <2>3. k.live => FinalIn(w, entry.status, entry.shown)
      BY <1>3, <1>5, <2>1, <2>2, FinalOpen
    <2>4. \A d \in Conn : conn'[d] = IF d = c THEN w ELSE conn[d]
      BY <2>1, Given
    <2>5. QED
      BY <1>6, <2>1, <2>3, <2>4, FinalService
  <1>10. QED
    BY <1>4, <1>8, <1>9

LEMMA FinalEmit ==
    ASSUME ServiceInv, EndFinal, NEW t \in Turn, Emit(t)
    PROVE  EndFinal'
  <1>1. PICK es \in Seq(Wire) :
             /\ es = Emitted(t, "token")
             /\ \A c \in Conn : conn'[c] = IF c \in Readers(t) THEN Written(conn[c], es)
                                                               ELSE conn[c]
             /\ \A c \in Conn : ConnOK(conn'[c])
             /\ \A c \in Readers(t) : SameLoop(conn[c], conn'[c]) /\ conn'[c].phase = "open"
    BY EmitIs
  <1>2. ~HasDone(es)
    BY <1>1, TokenIs DEF HasDone
  <1>3. ASSUME NEW c \in Conn, conn'[c].live
        PROVE  conn'[c] = conn[c] \/ FinalIn(conn'[c], entry.status, entry.shown)
    <2>1. CASE c \in Readers(t) /\ conn[c].live
      <3>1. PICK k : k = conn[c] /\ ConnOK(k) /\ k.phase = "open" /\ k.live
        BY <2>1, Given, ReadersOpen
      <3>2. PICK w : w = conn'[c] /\ ConnOK(w) /\ w.phase = "open" /\ w.saw = k.saw
        BY <1>1, <2>1, <3>1 DEF SameLoop
      <3>3. w = Written(k, es) /\ k \in Connection
        BY <1>1, <2>1, <3>1, <3>2 DEF ConnOK
      <3>a. w.wire = k.wire \o es
        BY <3>1, <3>3, WrittenIs
      <3>4. FinalIn(k, entry.status, entry.shown)
        BY <3>1, EndFinalIs
      <3>5. QED
        BY <1>2, <3>1, <3>2, <3>a, <3>4, FinalOpen
    <2>2. CASE c \notin Readers(t)
      BY <1>1, <2>2
    <2>3. CASE ~conn[c].live
      BY <1>1, <2>3 DEF Written
    <2>4. QED
      BY <2>1, <2>2, <2>3
  <1>4. entry' = entry
    BY DEF Emit
  <1>5. QED
    BY <1>3, <1>4, FinalService

LEMMA FinalEnd ==
    ASSUME ServiceInv, EndFinal, NEW t \in Turn, NEW how \in {"done", "aborted", "error"}, End(t, how)
    PROVE  EndFinal'
  <1>1. PICK es \in Seq(Wire), q \in Entry : EndEffect(t, how, es, q)
    BY EndIs
  <1>2. PICK x : x = Last(es)
    OBVIOUS
  <1>3. x \in Seq(Wire) /\ OnlyEof(x) /\ \A i \in DOMAIN x : x[i].kind # "ring_overflow"
    BY <1>1, <1>2, LastFinal DEF EndEffect, Numbering
  <1>4. ASSUME NEW c \in Conn, conn'[c].live
        PROVE  conn'[c] = conn[c] \/ FinalIn(conn'[c], entry.status, entry.shown)
    <2>1. CASE c \in Readers(t) /\ conn[c].live
      <3>1. PICK k : k = conn[c] /\ ConnOK(k) /\ k.phase = "open" /\ k.live
        BY <2>1, Given, ReadersOpen
      <3>2. PICK w : /\ w = conn'[c] /\ w.phase = "ended" /\ w.saw = k.saw
                     /\ w.wire = k.wire \o x
        BY <1>1, <1>2, <2>1, <3>1 DEF EndEffect, SameLoop
      <3>3. FinalIn(k, entry.status, entry.shown)
        BY <3>1, EndFinalIs
      <3>4. QED
        BY <1>3, <3>1, <3>2, <3>3, FinalEnded
    <2>2. CASE c \notin Readers(t)
      BY <1>1, <2>2 DEF EndEffect
    <2>3. CASE c \in Readers(t) /\ ~conn[c].live
      BY <1>1, <1>4, <2>3, FreeIs DEF EndEffect
    <2>4. QED
      BY <2>1, <2>2, <2>3
  <1>5. entry' = entry
    BY DEF End
  <1>6. QED
    BY <1>4, <1>5, FinalService

\* A connection that breaks.
LEMMA FinalBroken ==
    ASSUME NEW k, ConnOK(k), k.phase = "open", k.live, NEW how \in {"eof", "failed"},
           NEW w, w = Broken(k, how), NEW st, NEW shown, FinalIn(k, st, shown)
    PROVE  FinalIn(w, st, shown)
  <1>1. /\ w.phase = "ended" /\ w.saw = k.saw
        /\ how = "eof" => w.wire = Last(k.wire)
        /\ how # "eof" => w.wire = <<Item("failed")>>
    BY BrokenOK DEF SameLoop
  <1>2. CASE how = "eof"
    <2>1. PICK es : es = <<Item("eof")>>
      OBVIOUS
    <2>2. es \in Seq(Wire) /\ DOMAIN es = {1} /\ es[1].kind = "eof"
      <3>1. PICK x \in Wire : x = Item("eof") /\ x.kind = "eof"
        BY EventTypes DEF WireKind
      <3>2. es = <<x>>
        BY <2>1, <3>1
      <3>3. QED
        BY <3>1, <3>2, Single
    <2>3. OnlyEof(es) /\ \A i \in DOMAIN es : es[i].kind # "ring_overflow"
      BY <2>2 DEF OnlyEof
    <2>4. w.wire = k.wire \o es
      BY <1>1, <1>2, <2>1 DEF Last
    <2>5. QED
      BY <1>1, <2>2, <2>3, <2>4, FinalEnded
  <1>3. CASE how # "eof"
    BY <1>1, <1>3, FailedIs, FinalSingle
  <1>4. QED
    BY <1>2, <1>3

LEMMA FinalBreak ==
    ASSUME ServiceInv, EndFinal, NEW c \in Conn, NEW how \in {"eof", "failed"}, Break(c, how)
    PROVE  EndFinal'
  <1>1. PICK k : k = conn[c] /\ ConnOK(k) /\ k.phase = "open" /\ k.live
    BY Given DEF Break, Live
  <1>2. PICK w : w = Broken(k, how)
    OBVIOUS
  <1>3. FinalIn(w, entry.status, entry.shown)
    BY <1>1, <1>2, EndFinalIs, FinalBroken
  <1>4. entry' = entry /\ \A d \in Conn : conn'[d] = IF d = c THEN w ELSE conn[d]
    BY <1>1, <1>2, Given DEF Break
  <1>5. QED
    BY <1>3, <1>4, FinalService

LEMMA FinalRestart ==
    ASSUME ServiceInv, EndFinal, NEW how \in {"eof", "failed"}, Restart(how)
    PROVE  EndFinal'
  <1>1. entry' = entry
    BY DEF Restart
  <1>2. ASSUME NEW c \in Conn, conn'[c].live
        PROVE  conn'[c] = conn[c] \/ FinalIn(conn'[c], entry.status, entry.shown)
    <2>1. PICK k : k = conn[c] /\ ConnOK(k)
      BY Given
    <2>2. PICK w : w = Broken(k, how)
      OBVIOUS
    <2>3. conn'[c] = IF k.phase = "open" THEN w ELSE k
      BY <2>1, <2>2 DEF Restart
    <2>4. CASE k.phase = "open" /\ k.live
      BY <2>1, <2>2, <2>3, <2>4, EndFinalIs, FinalBroken
    <2>5. CASE k.phase = "open" /\ ~k.live
      <3>1. w = Free
        BY <2>1, <2>2, <2>5, BrokenOK
      <3>2. ~conn'[c].live
        BY <2>3, <2>5, <3>1, FreeIs
      <3>3. QED
        BY <1>2, <3>2
    <2>6. QED
      BY <2>1, <2>3, <2>4, <2>5
  <1>3. QED
    BY <1>1, <1>2, FinalService

\* A response of a page that has gone ends, or never begins.
LEMMA FinalGone ==
    ASSUME ServiceInv, EndFinal, NEW c \in Conn, conn' = [conn EXCEPT ![c] = Free], entry' = entry
    PROVE  EndFinal'
  <1>1. \A d \in Conn : conn'[d] = IF d = c THEN Free ELSE conn[d]
    BY Given
  <1>2. QED
    BY <1>1, FreeIs, FinalService

LEMMA FinalSame ==
    ASSUME EndFinal, UNCHANGED <<conn, entry>>
    PROVE  EndFinal'
  BY EndFinalIs, EndFinalNext

\* A page on which no loop runs.
LEMMA FinalQuiet ==
    ASSUME \A c \in Conn : conn'[c].live = FALSE
    PROVE  EndFinal'
  BY EndFinalNext

\* A loop that begins.
LEMMA FinalOpens ==
    ASSUME ServiceInv, NEW c \in Conn, NEW k, conn' = [conn EXCEPT ![c] = k],
           \A d \in Conn \ {c} : ~conn[d].live, k.wire = <<>>, entry'.status = "loading"
    PROVE  EndFinal'
  <1>1. \A d \in Conn : conn'[d] = IF d = c THEN k ELSE conn[d]
    BY Given
  <1>2. DOMAIN <<>> = {}
    OBVIOUS
  <1>3. FinalIn(k, "loading", entry'.shown)
    BY <1>2 DEF FinalIn, HasDone
  <1>4. QED
    BY <1>1, <1>3, EndFinalNext

LEMMA FinalWatchdog ==
    ASSUME ServiceInv, PageInv, NEW c \in Conn, Watchdog(c)
    PROVE  EndFinal'
  BY AbortedQuiet, FinalQuiet DEF Watchdog

LEMMA FinalStop ==
    ASSUME ServiceInv, PageInv, Stop
    PROVE  EndFinal'
  BY AbortedQuiet, FinalQuiet DEF Stop

LEMMA FinalReset ==
    ASSUME ServiceInv, PageInv, Reset
    PROVE  EndFinal'
  BY AbortedQuiet, FinalQuiet DEF Reset

LEMMA FinalRefresh ==
    ASSUME ServiceInv, Refresh
    PROVE  EndFinal'
  <1>1. SUFFICES ASSUME NEW c \in Conn PROVE conn'[c].live = FALSE
    BY FinalQuiet
  <1>2. ConnOK(conn[c]) /\ conn[c].live \in BOOLEAN
    BY Given, ConnTypes
  <1>3. conn'[c] = IF conn[c].live THEN Left(conn[c]) ELSE conn[c]
    BY DEF Refresh, Live
  <1>4. QED
    BY <1>2, <1>3, LeftOK

LEMMA FinalSend ==
    ASSUME ServiceInv, PageInv, "late_end" \notin Env, NEW c \in Conn, Send(c)
    PROVE  EndFinal'
  <1>1. PICK k : k = Sent
    OBVIOUS
  <1>2. k.wire = <<>>
    BY <1>1, SendOK
  <1>3. conn' = [conn EXCEPT ![c] = k]
    BY <1>1, Given DEF Send, Requests, Sent
  <1>4. \A d \in Conn : ~conn[d].live
    BY Alone DEF Send
  <1>5. entry'.status = "loading"
    BY EntryIs DEF Send
  <1>6. QED
    BY <1>2, <1>3, <1>4, <1>5, FinalOpens

LEMMA FinalAttach ==
    ASSUME ServiceInv, PageInv, EndFinal, "late_end" \notin Env, Attach
    PROVE  EndFinal'
  <1>1. CASE UNCHANGED <<conn, entry>>
    BY <1>1, FinalSame
  <1>2. CASE ~ UNCHANGED <<conn, entry>>
    <2>1. PICK c \in Conn : /\ ~Busy /\ Settled
                            /\ conn' = [conn EXCEPT ![c] = First(page.active)]
                            /\ entry' = Attached(c, page.active)
      BY <1>2, Given DEF Attach, First, Requests
    <2>2. PICK t \in Turn : t = page.active
      BY Given DEF Attach
    <2>3. PICK k : k = First(t)
      OBVIOUS
    <2>4. k.kind = "replay" /\ k.turn = t /\ k.wire = <<>>
      BY <2>3, FirstOK
    <2>5. conn' = [conn EXCEPT ![c] = k]
      BY <2>1, <2>2, <2>3
    <2>6. \A d \in Conn : ~conn[d].live
      BY <2>1, Alone
    <2>7. entry'.status = "loading"
      BY <2>1, EntryIs
    <2>8. QED
      BY <2>4, <2>5, <2>6, <2>7, FinalOpens
  <1>3. QED
    BY <1>1, <1>2

\* The loop takes an event of its turn.
LEMMA FinalTaken ==
    ASSUME NEW k, ConnOK(k), k.live, k.wire # <<>>, NEW e, e = Head(k.wire), IsTurnEvent(e),
           NEW saw \in {"nothing", "aborted", "done", "error"}, saw = Saw(k, e),
           NEW w, w = Taken(k, saw), NEW st, NEW shown, FinalIn(k, st, shown), NEW ts, NEW x,
           ts = "done" => \/ e.kind = "done"
                          \/ e.kind \in {"turn_started", "artifact"} /\ st = "done"
    PROVE  FinalIn(w, ts, x)
  <1>1. k.wire \in Seq(Wire) /\ w.phase = k.phase /\ w.wire = Tail(k.wire) /\ w.saw = saw
    BY TakenOK, ConnTypes DEF ConnOK
  <1>2. /\ 1 \in DOMAIN k.wire /\ e = k.wire[1]
        /\ \A i \in DOMAIN w.wire : i + 1 \in DOMAIN k.wire /\ w.wire[i] = k.wire[i + 1]
        /\ DOMAIN w.wire = 1 .. Len(k.wire) - 1
    <2>1. PICK q, u : q \in Seq(Wire) /\ q = k.wire /\ q # <<>> /\ u = Tail(q)
      BY <1>1
    <2>2. e = Head(q) /\ w.wire = u
      BY <1>1, <2>1
    <2>3. /\ 1 \in DOMAIN q /\ e = q[1]
          /\ \A i \in DOMAIN u : i + 1 \in DOMAIN q /\ u[i] = q[i + 1]
          /\ DOMAIN u = 1 .. Len(q) - 1
      BY <2>1, <2>2, HeadTail
    <2>4. QED
      BY <2>1, <2>2, <2>3
  <1>3. ts = "done" => saw = "done"
    BY DEF Saw, FinalIn
  <1>4. HasDone(w.wire) => HasDone(k.wire)
    BY <1>2 DEF HasDone
  <1>5. ts = "done" => st = "done" \/ HasDone(k.wire)
    BY <1>2 DEF HasDone
  <1>6. OnlyEof(k.wire) => OnlyEof(w.wire)
    BY <1>2 DEF OnlyEof
  <1>7. \A i \in DOMAIN w.wire : w.wire[i].kind # "ring_overflow"
    \* An overflow is all there is in its stream.
    <2>1. ASSUME NEW i \in DOMAIN w.wire, w.wire[i].kind = "ring_overflow" PROVE FALSE
      <3>1. Len(k.wire) = 1
        BY <1>2, <2>1 DEF FinalIn
      <3>2. DOMAIN w.wire = 1 .. 0
        BY <1>2, <3>1
      <3>3. QED
        BY <2>1, <3>2
    <2>2. QED
      BY <2>1
  <1>8. QED
    BY <1>1, <1>3, <1>4, <1>5, <1>6, <1>7 DEF FinalIn

LEMMA FinalDeliver ==
    ASSUME ServiceInv, PageInv, EndFinal, NEW c \in Conn, Deliver(c)
    PROVE  EndFinal'
  <1>1. PICK k : k = conn[c]
    OBVIOUS
  <1>2. /\ ConnOK(k) /\ k \in Connection /\ k.live /\ k.wire # <<>> /\ k.wire \in Seq(Wire)
    BY <1>1, Given, ConnTypes DEF Deliver, Live, ConnOK
  <1>3. PICK e : e = Head(k.wire)
    OBVIOUS
  <1>4. e \in Wire /\ 1 \in DOMAIN k.wire /\ e = k.wire[1]
    BY <1>2, <1>3, HeadTail
  <1>5. c = entry.cancel /\ \A d \in Conn \ {c} : conn[d].live = FALSE
    BY <1>1, <1>2, Loops, Given, ConnTypes
  <1>6. \/ IsTurnEvent(e) /\ entry' = Applied(e)
           /\ conn' = [conn EXCEPT ![c].wire = Tail(@), ![c].saw = Saw(k, e)]
        \/ conn' = [conn EXCEPT ![c] = Left(@)]
        \/ conn' = [conn EXCEPT ![c] = Free]
        \/ /\ e.kind = "ring_overflow" /\ entry' = Attached(c, k.turn)
           /\ conn' = [conn EXCEPT ![c] = Second(k.turn, e.n)]
    BY <1>1, <1>3 DEF Deliver, Second
  <1>7. ASSUME NEW w, w.live = FALSE, conn' = [conn EXCEPT ![c] = w]
        PROVE  EndFinal'
    BY <1>5, <1>7, Given, FinalQuiet
  <1>8. CASE IsTurnEvent(e) /\ entry' = Applied(e)
             /\ conn' = [conn EXCEPT ![c].wire = Tail(@), ![c].saw = Saw(k, e)]
    <2>1. PICK saw : saw = Saw(k, e)
      OBVIOUS
    <2>2. saw \in {"nothing", "aborted", "done", "error"}
      BY <1>2, <2>1, SawType
    <2>3. PICK w : w = Taken(k, saw)
      OBVIOUS
    <2>4. \A d \in Conn : conn'[d] = IF d = c THEN w ELSE conn[d]
      BY <1>1, <1>8, <2>1, <2>3, Given DEF Taken
    <2>5. entry'.status = "done" =>
              \/ e.kind = "done"
              \/ e.kind \in {"turn_started", "artifact"} /\ entry.status = "done"
      <3>1. PICK a : a = Applied(e)
        OBVIOUS
      <3>2. entry' = a
        BY <1>8, <3>1
      <3>3. QED
        BY <1>4, <1>8, <3>1, <3>2, Given, AppliedIs
    <2>6. FinalIn(k, entry.status, entry.shown)
      BY <1>1, <1>2, EndFinalIs
    <2>7. PICK st, ts, shown, x : /\ st = entry.status /\ ts = entry'.status
                                  /\ shown = entry.shown /\ x = entry'.shown
      OBVIOUS
    <2>8. FinalIn(w, ts, x)
      <3>1. /\ FinalIn(k, st, shown) /\ IsTurnEvent(e)
            /\ ts = "done" => \/ e.kind = "done"
                              \/ e.kind \in {"turn_started", "artifact"} /\ st = "done"
        BY <1>8, <2>5, <2>6, <2>7
      <3>2. QED
        BY <1>2, <1>3, <2>1, <2>2, <2>3, <3>1, FinalTaken
    <2>9. QED
      BY <1>5, <2>4, <2>7, <2>8, EndFinalNext
  <1>9. CASE conn' = [conn EXCEPT ![c] = Left(@)]
    <2>1. PICK w : w = Left(k)
      OBVIOUS
    <2>2. w.live = FALSE
      BY <1>2, <2>1, LeftOK
    <2>3. conn' = [conn EXCEPT ![c] = w]
      BY <1>1, <1>9, <2>1
    <2>4. QED
      BY <1>7, <2>2, <2>3
  <1>10. CASE conn' = [conn EXCEPT ![c] = Free]
    BY <1>7, <1>10, FreeIs
  <1>11. CASE /\ e.kind = "ring_overflow" /\ entry' = Attached(c, k.turn)
              /\ conn' = [conn EXCEPT ![c] = Second(k.turn, e.n)]
    <2>1. k.turn \in Turn /\ e.n \in Nat
      BY <1>2, <1>4, <1>11, ConnTypes DEF ConnOK, Wire
    <2>2. PICK t \in Turn, n \in Nat : t = k.turn /\ n = e.n
      BY <2>1
    <2>3. PICK w : w = Second(t, n)
      OBVIOUS
    <2>4. w.wire = <<>>
      BY <2>3 DEF Replay, Free, Second
    <2>5. conn' = [conn EXCEPT ![c] = w]
      BY <1>11, <2>2, <2>3
    <2>6. entry'.status = "loading"
      BY <1>11, EntryIs
    <2>7. \A d \in Conn \ {c} : ~conn[d].live
      BY <1>5
    <2>8. QED
      BY <2>4, <2>5, <2>6, <2>7, FinalOpens
  <1>12. QED
    BY <1>6, <1>8, <1>9, <1>10, <1>11
-----------------------------------------------------------------------------
LEMMA ViewInit ==
    ASSUME Init
    PROVE  ViewInv
  <1>1. \A t \in Turn : /\ registry[t].status = "none" /\ registry[t].totalEmitted = 0
                        /\ registry[t].startOffset = 0
    BY DEF Init, NoEntry
  <1>2. OneRunning /\ Begun
    BY <1>1 DEF OneRunning, Running, Begun
  <1>3. RingFull
    BY <1>1, RingFullIs, OldestIs, StreamReplayAssumption
  <1>4. \A c \in Conn : conn[c].live = FALSE
    BY FreeIs DEF Init
  <1>5. EndFinal
    BY <1>4, EndFinalIs
  <1>6. QED
    BY <1>2, <1>3, <1>5 DEF ViewInv

LEMMA FinalNext ==
    ASSUME ServiceInv, PageInv, EndFinal, "late_end" \notin Env, [Next]_vars
    PROVE  EndFinal'
  <1>1. ASSUME NEW c \in Conn, Accept(c) PROVE EndFinal'
    BY <1>1, FinalAccept
  <1>2. ASSUME NEW c \in Conn, Refuse(c) PROVE EndFinal'
    BY <1>2, FinalRefuse
  <1>3. ASSUME NEW c \in Conn, Vanish(c) \/ Hangup(c) PROVE EndFinal'
    BY <1>3, FinalGone DEF Vanish, Hangup
  <1>4. ASSUME NEW c \in Conn, Serve(c) PROVE EndFinal'
    BY <1>4, FinalServe
  <1>5. ASSUME NEW c \in Conn, NEW how \in {"eof", "failed"}, Break(c, how) PROVE EndFinal'
    BY <1>5, FinalBreak
  <1>6. ASSUME NEW how \in {"eof", "failed"}, Restart(how) PROVE EndFinal'
    BY <1>6, FinalRestart
  <1>7. ASSUME NEW t \in Turn, NEW how \in {"done", "aborted", "error"}, End(t, how)
        PROVE  EndFinal'
    BY <1>7, FinalEnd
  <1>8. ASSUME NEW t \in Turn, Emit(t) PROVE EndFinal'
    BY <1>8, FinalEmit
  <1>9. ASSUME NEW t \in Turn, EmitLate(t) \/ Leak(t) \/ Sweep(t) PROVE EndFinal'
    BY <1>9, FinalSame DEF EmitLate, Leak, Sweep
  <1>10. ASSUME NEW c \in Conn, Send(c) PROVE EndFinal'
    BY <1>10, FinalSend
  <1>11. ASSUME NEW c \in Conn, Deliver(c) PROVE EndFinal'
    BY <1>11, FinalDeliver
  <1>12. ASSUME NEW c \in Conn, Watchdog(c) PROVE EndFinal'
    BY <1>12, FinalWatchdog
  <1>13. CASE FetchSession \/ UNCHANGED vars
    BY <1>13, FinalSame DEF FetchSession, vars
  <1>14. CASE Attach
    BY <1>14, FinalAttach
  <1>15. CASE Stop
    BY <1>15, FinalStop
  <1>16. CASE Reset
    BY <1>16, FinalReset
  <1>17. CASE Refresh
    BY <1>17, FinalRefresh
  <1>18. QED
    BY <1>1, <1>2, <1>3, <1>4, <1>5, <1>6, <1>7, <1>8, <1>9, <1>10, <1>11, <1>12,
       <1>13, <1>14, <1>15, <1>16, <1>17 DEF Next, Service, Page

LEMMA ViewNext ==
    ASSUME ServiceInv, PageInv, ViewInv, "late_end" \notin Env, [Next]_vars
    PROVE  ViewInv'
  <1>1. EndFinal'
    BY FinalNext DEF ViewInv
  <1>2. TurnStep
    BY TurnSteps, PageTurns, TurnSame DEF ViewInv, Next, vars
  <1>3. QED
    BY <1>1, <1>2, TurnsKept DEF ViewInv

\* One turn runs at a time, a ring drops nothing before it is full, and behind
\* the end of a turn comes the end of its stream.
THEOREM ViewCorrect ==
    ASSUME "late_end" \notin Env
    PROVE  Spec => []ViewInv
  <1>1. Init => ViewInv
    BY ViewInit
  <1>2. ViewInv /\ PageInv /\ ServiceInv /\ [Next]_vars => ViewInv'
    BY ViewNext
  <1>3. QED
    BY <1>1, <1>2, ServiceCorrect, PageCorrect, PTL DEF Spec
-----------------------------------------------------------------------------
(* Every step is a step of TurnView, or none. *)

ViewOf(shown, isOpen, whole) ==
    [turn  |-> IF shown = <<>> THEN NoTurn ELSE shown[1].turn,
     first |-> IF shown = <<>> THEN 0 ELSE shown[1].n,
     next  |-> IF shown = <<>> THEN 0 ELSE shown[1].n + Len(shown),
     open  |-> isOpen, whole |-> whole]

LEMMA ViewIs ==
    /\ View = ViewOf(entry.shown, entry.cancel # NoConn, entry.status = "done")
    /\ View' = ViewOf(entry'.shown, entry'.cancel # NoConn, entry'.status = "done")
  BY DEF View, ViewOf

LEMMA BlankIs ==
    ASSUME NEW isOpen
    PROVE  Viewed!Blank(isOpen) = ViewOf(<<>>, isOpen, FALSE)
  BY DEF Viewed!Blank, ViewOf

LEMMA ViewClosed ==
    ASSUME NEW shown, NEW whole
    PROVE  /\ ViewOf(shown, FALSE, whole) = [ViewOf(shown, TRUE, whole) EXCEPT !.open = FALSE]
           /\ ViewOf(shown, TRUE, whole).open
  <1>1. PICK t : t = IF shown = <<>> THEN NoTurn ELSE shown[1].turn
    OBVIOUS
  <1>2. PICK m : m = IF shown = <<>> THEN 0 ELSE shown[1].n
    OBVIOUS
  <1>3. PICK n : n = IF shown = <<>> THEN 0 ELSE shown[1].n + Len(shown)
    OBVIOUS
  <1>4. ASSUME NEW isOpen
        PROVE  ViewOf(shown, isOpen, whole) =
                   [turn |-> t, first |-> m, next |-> n, open |-> isOpen, whole |-> whole]
    BY <1>1, <1>2, <1>3 DEF ViewOf
  <1>5. ASSUME NEW a, NEW b
        PROVE  ViewOf(shown, b, whole) = [ViewOf(shown, a, whole) EXCEPT !.open = b]
    BY <1>4
  <1>6. ViewOf(shown, TRUE, whole).open
    BY DEF ViewOf
  <1>7. QED
    BY <1>5, <1>6

\* A turn that TurnView calls running is running.
LEMMA RunsIs ==
    ASSUME ServiceInv, Begun, NEW t \in Turn
    PROVE  /\ Produced[t] = registry[t].totalEmitted /\ registry[t].totalEmitted \in Nat
           /\ Ended[t] = registry[t].finishedAt /\ registry[t].finishedAt \in Nat
           /\ t \in Over <=> registry[t].status \notin {"none", "running"}
           /\ Viewed!Runs(t) <=> registry[t].status = "running"
           /\ Viewed!Oldest(t) = OldestOf(registry[t].totalEmitted)
  <1>1. /\ registry[t].totalEmitted \in Nat /\ registry[t].finishedAt \in Nat
        /\ registry[t].status \in {"none", "running", "done", "error", "swept"}
    BY Given DEF Entry
  <1>2. Produced[t] = registry[t].totalEmitted /\ Ended[t] = registry[t].finishedAt
    BY DEF Produced, Ended
  <1>3. t \in Over <=> registry[t].status \notin {"none", "running"}
    BY <1>1 DEF Over
  <1>4. Viewed!Runs(t) <=> registry[t].status = "running"
    BY <1>1, <1>2, <1>3 DEF Viewed!Runs, Begun
  <1>5. Viewed!Oldest(t) = OldestOf(registry[t].totalEmitted)
    BY <1>2 DEF Viewed!Oldest, OldestOf
  <1>6. QED
    BY <1>1, <1>2, <1>3, <1>4, <1>5

\* What the abstraction makes of the turns before and after a step.
LEMMA Abstracted ==
    ASSUME ServiceInv, ServiceInv', NEW t \in Turn
    PROVE  /\ Produced[t] = registry[t].totalEmitted /\ Produced'[t] = registry'[t].totalEmitted
           /\ t \in Over <=> registry[t].status \notin {"none", "running"}
           /\ t \in Over' <=> registry'[t].status \notin {"none", "running"}
  <1>1. registry[t].status \in {"none", "running", "done", "error", "swept"}
    BY Given DEF Entry
  <1>2. registry'[t].status \in {"none", "running", "done", "error", "swept"}
    BY DEF ServiceInv, TypeOK, Entry
  <1>3. QED
    BY <1>1, <1>2 DEF Produced, Over

LEMMA ViewSteady ==
    ASSUME ServiceInv, ServiceInv', Steady
    PROVE  Produced' = Produced /\ Ended' = Ended /\ Over' = Over
  <1>1. Produced' = Produced /\ Ended' = Ended
    <2>1. \A t \in Turn : /\ registry'[t].totalEmitted = registry[t].totalEmitted
                          /\ registry'[t].finishedAt = registry[t].finishedAt
      BY DEF Steady, SameTurn
    <2>2. QED
      BY <2>1 DEF Produced, Ended
  <1>2. \A t \in Turn : t \in Over' <=> t \in Over
    BY Abstracted DEF Steady, SameTurn
  <1>3. Over \subseteq Turn /\ Over' \subseteq Turn
    BY DEF Over
  <1>4. QED
    BY <1>1, <1>2, <1>3

\* A turn that moves.
LEMMA ViewMoves ==
    ASSUME ServiceInv, ServiceInv', NEW t \in Turn, NEW st, NEW n, NEW fin, Moves(t, st, n, fin)
    PROVE  /\ Produced' = [Produced EXCEPT ![t] = registry[t].totalEmitted + n]
           /\ Ended' = [Ended EXCEPT ![t] = fin]
           /\ (st \in {"none", "running"} <=> registry[t].status \in {"none", "running"}) =>
                  Over' = Over
           /\ st \notin {"none", "running"} => Over' = Over \cup {t}
  <1>1. /\ registry'[t].status = st /\ registry'[t].finishedAt = fin
        /\ registry'[t].totalEmitted = registry[t].totalEmitted + n
        /\ \A u \in Turn \ {t} : SameTurn(registry[u], registry'[u])
    BY DEF Moves
  <1>2. Produced' = [Produced EXCEPT ![t] = registry[t].totalEmitted + n]
    <2>1. \A u \in Turn : registry'[u].totalEmitted =
                              IF u = t THEN registry[t].totalEmitted + n ELSE registry[u].totalEmitted
      BY <1>1 DEF SameTurn
    <2>2. QED
      BY <2>1 DEF Produced
  <1>3. Ended' = [Ended EXCEPT ![t] = fin]
    <2>1. \A u \in Turn : registry'[u].finishedAt = IF u = t THEN fin ELSE registry[u].finishedAt
      BY <1>1 DEF SameTurn
    <2>2. QED
      BY <2>1 DEF Ended
  <1>4. \A u \in Turn \ {t} : u \in Over' <=> u \in Over
    BY <1>1, Abstracted DEF SameTurn
  <1>5. /\ t \in Over <=> registry[t].status \notin {"none", "running"}
        /\ t \in Over' <=> st \notin {"none", "running"}
    BY <1>1, Abstracted
  <1>6. Over \subseteq Turn /\ Over' \subseteq Turn
    BY DEF Over
  <1>7. QED
    BY <1>2, <1>3, <1>4, <1>5, <1>6

\* What a turn has produced and where it ended, put where it was.
LEMMA PutBack ==
    ASSUME ServiceInv, NEW t \in Turn
    PROVE  /\ [Produced EXCEPT ![t] = registry[t].totalEmitted + 0] = Produced
           /\ [Ended EXCEPT ![t] = registry[t].finishedAt] = Ended
  <1>1. PICK m \in Nat : m = registry[t].totalEmitted /\ m + 0 = m
    BY Given DEF Entry
  <1>2. Produced = [u \in Turn |-> Produced[u]] /\ Produced[t] = m
    BY <1>1 DEF Produced
  <1>3. Ended = [u \in Turn |-> Ended[u]] /\ Ended[t] = registry[t].finishedAt
    BY DEF Ended
  <1>4. [Produced EXCEPT ![t] = m] = Produced
    BY <1>2
  <1>5. QED
    BY <1>1, <1>3, <1>4

LEMMA ViewService ==
    ASSUME ServiceInv, ServiceInv', Begun, TurnStep, UNCHANGED entry
    PROVE  [Viewed!Next]_<<Produced, Ended, Over, View>>
  <1>1. View' = View
    BY ViewIs
  <1>2. CASE Steady
    BY <1>1, <1>2, ViewSteady
  <1>3. ASSUME NEW t \in Turn, Begins(t)
        PROVE  Viewed!Produces
    <2>1. Produced' = [Produced EXCEPT ![t] = 1] /\ Ended' = Ended /\ Over' = Over
      <3>1. /\ Moves(t, "running", 1, 0) /\ registry[t].status = "none"
            /\ registry[t].totalEmitted = 0 /\ registry[t].finishedAt = 0
        BY <1>3 DEF Begins
      <3>2. QED
        BY <3>1, PutBack, ViewMoves
    <2>2. Produced[t] = 0 /\ \A u \in Turn : ~Viewed!Runs(u)
      BY <1>3, RunsIs DEF Begins
    <2>3. Viewed!Begin(t)
      BY <2>1, <2>2 DEF Viewed!Begin
    <2>4. QED
      BY <1>1, <2>3 DEF Viewed!Produces
  <1>4. ASSUME NEW t \in Turn, Goes(t)
        PROVE  Viewed!Produces
    <2>1. /\ registry[t].status = "running" /\ Viewed!Runs(t) /\ registry[t].finishedAt = 0
          /\ Produced[t] = registry[t].totalEmitted /\ Produced[t] \in Nat
      BY <1>4, RunsIs DEF Goes
    <2>2. CASE Moves(t, "running", 1, 0)
      <3>1. /\ Produced' = [Produced EXCEPT ![t] = registry[t].totalEmitted + 1]
            /\ Ended' = Ended /\ Over' = Over
        BY <2>1, <2>2, PutBack, ViewMoves
      <3>2. Viewed!Produce(t)
        BY <2>1, <3>1 DEF Viewed!Produce
      <3>3. QED
        BY <1>1, <3>2 DEF Viewed!Produces
    <2>3. ASSUME NEW n \in {1, 2}, NEW st \in {"done", "error"},
                 Moves(t, st, n, registry[t].totalEmitted + n)
          PROVE  Viewed!Produces
      <3>1. /\ Produced' = [Produced EXCEPT ![t] = registry[t].totalEmitted + n]
            /\ Ended' = [Ended EXCEPT ![t] = registry[t].totalEmitted + n]
            /\ Over' = Over \cup {t}
        BY <2>3, ViewMoves
      <3>2. Viewed!End(t, n)
        BY <2>1, <3>1 DEF Viewed!End
      <3>3. QED
        BY <1>1, <3>2 DEF Viewed!Produces
    <2>4. CASE Moves(t, "swept", 0, 0)
      <3>1. Produced' = Produced /\ Ended' = Ended /\ Over' = Over \cup {t}
        BY <2>1, <2>4, PutBack, ViewMoves
      <3>2. Viewed!Lose(t)
        BY <2>1, <3>1 DEF Viewed!Lose
      <3>3. QED
        BY <1>1, <3>2 DEF Viewed!Produces
    <2>5. QED
      BY <1>4, <2>2, <2>3, <2>4 DEF Goes
  <1>5. ASSUME NEW t \in Turn, Adds(t)
        PROVE  Viewed!Produces
    <2>1. /\ registry[t].status \in {"done", "error"} /\ registry[t].finishedAt > 0
          /\ Moves(t, registry[t].status, 1, registry[t].finishedAt)
      BY <1>5 DEF Adds
    <2>2. /\ Produced' = [Produced EXCEPT ![t] = registry[t].totalEmitted + 1]
          /\ Ended' = Ended /\ Over' = Over
      BY <2>1, PutBack, ViewMoves
    <2>3. Ended[t] > 0 /\ Produced[t] = registry[t].totalEmitted
      BY <2>1, RunsIs
    <2>4. Viewed!Late(t)
      BY <2>2, <2>3 DEF Viewed!Late
    <2>5. QED
      BY <1>1, <2>4 DEF Viewed!Produces
  <1>6. QED
    BY <1>2, <1>3, <1>4, <1>5 DEF TurnStep, Viewed!Next

\* The page leaves the turns as they are.
LEMMA ViewSame ==
    ASSUME UNCHANGED registry
    PROVE  Produced' = Produced /\ Ended' = Ended /\ Over' = Over
  BY DEF Produced, Ended, Over

LEMMA ViewStays ==
    ASSUME UNCHANGED <<registry, entry>>
    PROVE  [Viewed!Next]_<<Produced, Ended, Over, View>>
  BY ViewSame, ViewIs

LEMMA ViewClears ==
    ASSUME UNCHANGED registry, entry' = Idle
    PROVE  Viewed!Next
  <1>1. View' = Viewed!Blank(FALSE)
    BY ViewIs, BlankIs, IdleIs
  <1>2. Viewed!Clear
    BY <1>1, ViewSame DEF Viewed!Clear
  <1>3. QED
    BY <1>2 DEF Viewed!Next

LEMMA ViewCloses ==
    ASSUME UNCHANGED registry, entry.cancel # NoConn, entry'.cancel = NoConn,
           entry'.shown = entry.shown, entry'.status = "done" <=> entry.status = "done"
    PROVE  Viewed!Next
  <1>1. View' = [View EXCEPT !.open = FALSE] /\ View.open
    <2>1. PICK shown, whole : shown = entry.shown /\ whole = (entry.status = "done")
      OBVIOUS
    <2>2. whole = (entry'.status = "done") /\ shown = entry'.shown
      BY <2>1
    <2>3. View = ViewOf(shown, TRUE, whole) /\ View' = ViewOf(shown, FALSE, whole)
      BY <2>1, <2>2, ViewIs
    <2>4. QED
      BY <2>3, ViewClosed
  <1>2. Viewed!Close
    BY <1>1, ViewSame DEF Viewed!Close
  <1>3. QED
    BY <1>2 DEF Viewed!Next

LEMMA ViewOpens ==
    ASSUME UNCHANGED registry, entry.cancel = NoConn, entry'.cancel # NoConn,
           entry'.shown = <<>>, entry'.status = "loading"
    PROVE  Viewed!Next
  <1>1. View' = Viewed!Blank(TRUE) /\ View.open = FALSE
    BY ViewIs, BlankIs DEF ViewOf
  <1>2. Viewed!Open
    BY <1>1, ViewSame DEF Viewed!Open
  <1>3. QED
    BY <1>2 DEF Viewed!Next

LEMMA ViewWatchdog ==
    ASSUME ServiceInv, PageInv, NEW c \in Conn, Watchdog(c)
    PROVE  Viewed!Next
  <1>1. UNCHANGED registry /\ entry.cancel # NoConn
    BY Loops, StreamReplayAssumption DEF Watchdog, Live
  <1>2. CASE Busy
    <2>1. PICK s : s = Marked(entry, "disconnected")
      OBVIOUS
    <2>2. s \in Stream /\ s.status = "disconnected" /\ s.shown = entry.shown
      BY <2>1, Given, MarkedIs DEF Status
    <2>3. entry' = Stripped(s)
      BY <1>2, <2>1 DEF Watchdog, Marked
    <2>4. /\ entry'.cancel = NoConn /\ entry'.status = "disconnected"
          /\ entry'.shown = entry.shown
      BY <2>2, <2>3, StrippedIs
    <2>5. QED
      BY <1>1, <1>2, <2>4, ViewCloses DEF Busy
  <1>3. CASE ~Busy
    <2>1. entry' = Stripped(entry)
      BY <1>3 DEF Watchdog
    <2>2. /\ entry'.cancel = NoConn /\ entry'.status = entry.status
          /\ entry'.shown = entry.shown
      BY <2>1, Given, StrippedIs
    <2>3. QED
      BY <1>1, <2>2, ViewCloses
  <1>4. QED
    BY <1>2, <1>3

LEMMA ViewStop ==
    ASSUME ServiceInv, PageInv, Stop
    PROVE  Viewed!Next
  <1>1. UNCHANGED registry /\ Busy /\ entry.cancel # NoConn
    BY Loops DEF Stop
  <1>2. CASE entry' = Idle
    BY <1>1, <1>2, ViewClears
  <1>3. CASE entry' = Stripped([entry EXCEPT !.status = "aborted"])
    <2>1. PICK s : s = Marked(entry, "aborted")
      OBVIOUS
    <2>2. s \in Stream /\ s.status = "aborted" /\ s.shown = entry.shown
      BY <2>1, Given, MarkedIs DEF Status
    <2>3. entry' = Stripped(s)
      BY <1>3, <2>1 DEF Marked
    <2>4. entry'.cancel = NoConn /\ entry'.status = "aborted" /\ entry'.shown = entry.shown
      BY <2>2, <2>3, StrippedIs
    <2>5. QED
      BY <1>1, <2>4, ViewCloses DEF Busy
  <1>4. QED
    BY <1>2, <1>3 DEF Stop

LEMMA ViewSend ==
    ASSUME ServiceInv, PageInv, "late_end" \notin Env, NEW c \in Conn, Send(c)
    PROVE  Viewed!Next
  <1>1. UNCHANGED registry /\ entry.cancel = NoConn
    BY Alone, Loops DEF Send
  <1>2. entry'.cancel = c /\ entry'.status = "loading" /\ entry'.shown = <<>>
    BY EntryIs DEF Send
  <1>3. QED
    BY <1>1, <1>2, StreamReplayAssumption, ViewOpens

LEMMA ViewAttach ==
    ASSUME ServiceInv, PageInv, "late_end" \notin Env, Attach
    PROVE  [Viewed!Next]_<<Produced, Ended, Over, View>>
  <1>1. UNCHANGED registry
    BY DEF Attach
  <1>2. CASE entry' = entry
    BY <1>1, <1>2, ViewStays
  <1>3. CASE entry' # entry
    <2>1. PICK c \in Conn : ~Busy /\ Settled /\ entry' = Attached(c, page.active)
      BY <1>3 DEF Attach
    <2>2. entry.cancel = NoConn
      BY <2>1, Alone, Loops
    <2>3. entry'.cancel = c /\ entry'.status = "loading" /\ entry'.shown = <<>>
      BY <2>1, EntryIs
    <2>4. QED
      BY <1>1, <2>2, <2>3, StreamReplayAssumption, ViewOpens
  <1>4. QED
    BY <1>2, <1>3

\* A page shows event e, the first of its view or the next.
LEMMA ViewShows ==
    ASSUME ServiceInv, Begun, UNCHANGED registry, NEW e \in Wire, e.turn \in Turn,
           NEW shown \in Seq(Wire), shown = entry.shown, entry'.shown = Append(shown, e),
           entry.cancel # NoConn, entry'.cancel = entry.cancel,
           e.n < registry[e.turn].totalEmitted,
           entry.status = "done" => entry'.status = "done",
           entry'.status = "done" => \/ entry.status = "done"
                                     \/ e.n + 1 = registry[e.turn].finishedAt,
           shown = <<>> => e.n <= OldestOf(registry[e.turn].totalEmitted),
           shown # <<>> => shown[1].turn = e.turn /\ e.n = shown[1].n + Len(shown)
    PROVE  Viewed!Next
  <1>1. PICK t \in Turn, n \in Nat : t = e.turn /\ n = e.n
    BY DEF Wire
  <1>2. PICK m \in Nat : /\ m = registry[t].totalEmitted /\ m = Produced[t]
                         /\ Viewed!Oldest(t) = OldestOf(m)
                         /\ Ended[t] = registry[t].finishedAt
    BY RunsIs
  <1>3. PICK x : x = Append(shown, e)
    OBVIOUS
  <1>4. /\ x # <<>> /\ Len(shown) \in Nat /\ Len(x) = Len(shown) + 1
        /\ shown = <<>> => x[1] = e /\ Len(shown) = 0
        /\ shown # <<>> => x[1] = shown[1] /\ shown[1].n \in Nat
    <2>1. shown = <<>> => x[1] = e /\ Len(shown) = 0
      BY <1>3, AppendIs
    <2>2. ASSUME shown # <<>> PROVE x[1] = shown[1] /\ shown[1].n \in Nat
      <3>1. 1 \in DOMAIN shown
        BY <2>2, HeadTail
      <3>2. QED
        BY <1>3, <3>1, AppendIs, Element
    <2>3. QED
      BY <1>3, <2>1, <2>2, AppendIs
  <1>5. PICK whole \in BOOLEAN : whole <=> entry'.status = "done"
    OBVIOUS
  <1>6. /\ View.whole => whole
        /\ whole => View.whole \/ n + 1 = Ended[t]
    <2>1. View.whole = (entry.status = "done")
      BY ViewIs DEF ViewOf
    <2>2. QED
      BY <1>1, <1>2, <1>5, <2>1
  <1>7. View.open /\ Produced' = Produced /\ Ended' = Ended /\ Over' = Over
    BY ViewIs, ViewSame DEF ViewOf
  <1>8. View' = [turn |-> x[1].turn, first |-> x[1].n, next |-> x[1].n + Len(x),
                 open |-> TRUE, whole |-> whole]
    <2>1. View' = ViewOf(x, TRUE, whole)
      BY <1>3, <1>5, ViewIs
    <2>2. QED
      BY <1>4, <2>1 DEF ViewOf
  <1>9. CASE shown = <<>>
    <2>1. View.turn = NoTurn
      BY <1>9, ViewIs DEF ViewOf
    <2>2. View' = [turn |-> t, first |-> n, next |-> n + 1, open |-> TRUE, whole |-> whole]
      <3>1. x[1].turn = t /\ x[1].n = n /\ Len(x) = 1
        BY <1>1, <1>4, <1>9
      <3>2. QED
        BY <1>8, <3>1
    <2>3. n <= OldestOf(m) /\ n < m
      BY <1>1, <1>2, <1>9
    <2>4. Viewed!ShowFirst(t, n, whole)
      BY <1>2, <1>6, <1>7, <2>1, <2>2, <2>3 DEF Viewed!ShowFirst, Viewed!Shows
    <2>5. OldestOf(m) \in Nat
      BY OldestIs, StreamReplayAssumption
    <2>6. n \in 0 .. Viewed!Oldest(t)
      BY <1>2, <2>3, <2>5
    <2>7. Viewed!Show
      BY <1>7, <2>4, <2>6 DEF Viewed!Show
    <2>8. QED
      BY <2>7 DEF Viewed!Next
  <1>10. CASE shown # <<>>
    <2>1. View.turn = t /\ View.first = shown[1].n /\ View.next = n
      BY <1>1, <1>10, ViewIs DEF ViewOf
    <2>2. x[1].n + Len(x) = n + 1 /\ x[1].turn = t /\ x[1].n = shown[1].n
      <3>1. PICK a \in Nat, l \in Nat : a = shown[1].n /\ l = Len(shown)
        BY <1>4, <1>10
      <3>2. x[1].n = a /\ Len(x) = l + 1 /\ x[1].turn = t
        BY <1>1, <1>4, <1>10, <3>1
      <3>3. n = a + l
        BY <1>1, <1>10, <3>1
      <3>4. a + (l + 1) = n + 1
        BY <3>3
      <3>5. QED
        BY <3>1, <3>2, <3>4
    <2>3. Viewed!ShowNext(t, whole)
      BY <1>1, <1>2, <1>6, <1>7, <1>8, <2>1, <2>2 DEF Viewed!ShowNext, Viewed!Shows
    <2>4. Viewed!Show
      BY <1>7, <2>3 DEF Viewed!Show
    <2>5. QED
      BY <2>4 DEF Viewed!Next
  <1>11. QED
    BY <1>9, <1>10

\* The loop takes the next event.
LEMMA ViewTakes ==
    ASSUME ServiceInv, PageInv, ViewInv, UNCHANGED registry, NEW c \in Conn, NEW k, k = conn[c],
           k.live, k.wire # <<>>, NEW e, e = Head(k.wire), IsTurnEvent(e), entry' = Applied(e)
    PROVE  Viewed!Next
  <1>1. ConnOK(k) /\ k.turn \in Turn \cup {NoTurn} /\ k.from \in Nat /\ k.wire \in Seq(Wire)
    BY Given, ConnTypes
  <1>2. e \in Wire /\ 1 \in DOMAIN k.wire /\ e = k.wire[1]
    BY <1>1, HeadTail
  <1>3. PICK shown \in Seq(Wire), m \in Nat : shown = entry.shown /\ m = Len(shown)
    BY Loops
  <1>4. c = entry.cancel /\ LoopIn(registry, k, shown, entry.turnId)
    BY <1>3, Loops
  <1>5. ItemIn(registry, k, 1, k.from + m)
    BY <1>2, <1>3, <1>4 DEF LoopIn
  <1>6. /\ k.turn # NoTurn /\ e.turn = k.turn /\ e.n = k.from + m
        /\ e.n < registry[k.turn].totalEmitted
        /\ Placed(e, registry[k.turn].finishedAt)
    <2>1. e.n = k.from + m + 1 - 1
      BY <1>2, <1>5 DEF ItemIn
    <2>2. e.n = k.from + m
      BY <1>1, <2>1
    <2>3. QED
      BY <1>2, <1>5, <2>2 DEF ItemIn
  <1>7. PICK t \in Turn, f \in Nat : /\ t = k.turn /\ registry[t].status # "none"
                                     /\ f = registry[t].finishedAt
    BY <1>1, <1>6, Given, RunningRing
  <1>8. /\ entry'.shown = Append(shown, e) /\ entry'.cancel = entry.cancel
        /\ entry'.status = "done" => e.kind = "done" \/ entry.status = "done"
        /\ e.kind = "artifact" => entry'.status = entry.status
    <2>1. PICK a : a = Applied(e)
      OBVIOUS
    <2>2. entry' = a
      BY <2>1
    <2>3. QED
      BY <1>2, <1>3, <2>1, <2>2, Given, AppliedIs
  <1>9. entry.status = "done" => entry'.status = "done"
    \* Behind the end of a turn comes only what a late tool adds.
    <2>1. SUFFICES ASSUME entry.status = "done" PROVE e.kind = "artifact"
      BY <1>8
    <2>2. k.saw = "done"
      BY <2>1, EndFinalIs DEF ViewInv, FinalIn
    <2>3. f \in 1 .. k.from + m
      BY <1>3, <1>4, <1>7, <2>2 DEF LoopIn, WholeIn
    <2>4. f > 0 /\ e.n >= f
      BY <1>1, <1>6, <2>3
    <2>5. QED
      BY <1>6, <1>7, <2>4 DEF Placed
  <1>10. entry'.status = "done" => \/ entry.status = "done"
                                   \/ e.n + 1 = registry[e.turn].finishedAt
    <2>1. SUFFICES ASSUME e.kind = "done" PROVE e.n + 1 = f
      BY <1>6, <1>7, <1>8
    <2>2. e.n = f - 1 /\ e.n \in Nat
      BY <1>1, <1>6, <1>7, <2>1 DEF Placed
    <2>3. QED
      BY <2>2
  <1>11. shown = <<>> => e.n <= OldestOf(registry[e.turn].totalEmitted)
    <2>1. SUFFICES ASSUME shown = <<>> PROVE e.n <= OldestOf(registry[e.turn].totalEmitted)
      OBVIOUS
    <2>2. m = 0 /\ e.n = k.from
      BY <1>1, <1>3, <1>6, <2>1
    <2>3. PICK o \in Nat : o = registry[t].startOffset /\ o = OldestOf(registry[t].totalEmitted)
      BY Given, RingFullIs DEF Entry, ViewInv
    <2>4. k.from = 0 \/ k.from <= o
      BY <1>4, <1>7, <2>3 DEF LoopIn, StartIn
    <2>5. OldestOf(registry[e.turn].totalEmitted) = o
      BY <1>6, <1>7, <2>3
    <2>6. e.n <= o
      BY <1>1, <2>2, <2>3, <2>4
    <2>7. QED
      BY <2>5, <2>6
  <1>12. shown # <<>> => shown[1].turn = e.turn /\ e.n = shown[1].n + Len(shown)
    <2>1. SUFFICES ASSUME shown # <<>> PROVE shown[1].turn = e.turn /\ e.n = shown[1].n + Len(shown)
      OBVIOUS
    <2>2. 1 \in DOMAIN shown
      BY <2>1, HeadTail
    <2>3. shown[1].turn = k.turn /\ shown[1].n = k.from + 1 - 1
      BY <1>4, <2>2 DEF LoopIn, ShownIn
    <2>4. QED
      BY <1>1, <1>3, <1>6, <2>3
  <1>13. e.turn \in Turn /\ e.n < registry[e.turn].totalEmitted /\ entry.cancel # NoConn
    BY <1>4, <1>6, <1>7, StreamReplayAssumption
  <1>14. QED
    BY <1>2, <1>3, <1>8, <1>9, <1>10, <1>11, <1>12, <1>13, ViewShows DEF ViewInv

LEMMA ViewDeliver ==
    ASSUME ServiceInv, PageInv, ViewInv, NEW c \in Conn, Deliver(c)
    PROVE  [Viewed!Next]_<<Produced, Ended, Over, View>>
  <1>1. PICK k : k = conn[c]
    OBVIOUS
  <1>2. ConnOK(k) /\ k.live /\ k.wire # <<>> /\ k.wire \in Seq(Wire)
    BY <1>1, Given, ConnTypes DEF Deliver, Live, ConnOK
  <1>3. PICK e : e = Head(k.wire)
    OBVIOUS
  <1>4. e \in Wire /\ 1 \in DOMAIN k.wire /\ e = k.wire[1]
    BY <1>2, <1>3, HeadTail
  <1>5. UNCHANGED registry /\ c = entry.cancel /\ c # NoConn
    BY <1>1, <1>2, Loops, StreamReplayAssumption DEF Deliver
  <1>6. FinalIn(k, entry.status, entry.shown)
    BY <1>1, <1>2, EndFinalIs DEF ViewInv
  <1>7. \/ IsTurnEvent(e) /\ entry' = Applied(e)
        \/ e.kind = "eof" /\ entry' = Stripped(AtEof(k.saw))
        \/ e.kind = "failed" /\ entry' = Stripped(Marked(entry, "error"))
        \/ e.kind = "ring_overflow" /\ entry' = Idle
        \/ e.kind = "ring_overflow" /\ entry' = Attached(c, k.turn)
    BY <1>1, <1>3 DEF Deliver, Marked
  <1>8. CASE IsTurnEvent(e) /\ entry' = Applied(e)
    BY <1>1, <1>2, <1>3, <1>5, <1>8, ViewTakes
  <1>9. CASE e.kind = "eof" /\ entry' = Stripped(AtEof(k.saw))
    <2>1. PICK s : s = AtEof(k.saw)
      OBVIOUS
    <2>2. CASE s = entry
      <3>1. entry'.cancel = NoConn /\ entry'.status = entry.status /\ entry'.shown = entry.shown
        BY <1>9, <2>1, <2>2, Given, StrippedIs
      <3>2. QED
        BY <1>5, <3>1, ViewCloses
    <2>3. CASE s = Marked(entry, "disconnected") /\ k.saw # "done"
      <3>1. s \in Stream /\ s.status = "disconnected" /\ s.shown = entry.shown
        BY <2>3, Given, MarkedIs DEF Status
      <3>2. /\ entry'.cancel = NoConn /\ entry'.status = "disconnected"
            /\ entry'.shown = entry.shown
        BY <1>9, <2>1, <3>1, StrippedIs
      <3>3. entry.status # "done"
        BY <1>6, <2>3 DEF FinalIn
      <3>4. QED
        BY <1>5, <3>2, <3>3, ViewCloses
    <2>4. QED
      BY <2>1, <2>2, <2>3 DEF AtEof, Marked
  <1>10. CASE e.kind = "failed" /\ entry' = Stripped(Marked(entry, "error"))
    <2>1. PICK s : s = Marked(entry, "error")
      OBVIOUS
    <2>2. s \in Stream /\ s.status = "error" /\ s.shown = entry.shown
      BY <2>1, Given, MarkedIs DEF Status
    <2>3. entry'.cancel = NoConn /\ entry'.status = "error" /\ entry'.shown = entry.shown
      BY <1>10, <2>1, <2>2, StrippedIs
    <2>4. entry.status # "done"
      BY <1>4, <1>6, <1>10 DEF FinalIn, OnlyEof, IsTurnEvent, TurnKind
    <2>5. QED
      BY <1>5, <2>3, <2>4, ViewCloses
  <1>11. CASE entry' = Idle
    BY <1>5, <1>11, ViewClears
  <1>12. CASE e.kind = "ring_overflow" /\ entry' = Attached(c, k.turn)
    <2>1. entry.shown = <<>>
      BY <1>4, <1>6, <1>12 DEF FinalIn
    <2>2. entry.status # "done"
      BY <2>1 DEF PageInv, DoneIsWhole
    <2>3. entry'.cancel = c /\ entry'.status = "loading" /\ entry'.shown = <<>>
      BY <1>12, EntryIs
    <2>4. View' = View
      <3>1. View = ViewOf(<<>>, TRUE, FALSE)
        BY <1>5, <2>1, <2>2, ViewIs
      <3>2. View' = ViewOf(<<>>, TRUE, FALSE)
        BY <1>5, <2>3, ViewIs
      <3>3. QED
        BY <3>1, <3>2
    <2>5. QED
      BY <1>5, <2>4, ViewSame
  <1>13. QED
    BY <1>7, <1>8, <1>9, <1>10, <1>11, <1>12

LEMMA ViewedInit ==
    ASSUME Init
    PROVE  Viewed!Init
  <1>1. \A t \in Turn : /\ registry[t].status = "none" /\ registry[t].totalEmitted = 0
                        /\ registry[t].finishedAt = 0
    BY DEF Init, NoEntry
  <1>2. Produced = [t \in Turn |-> 0] /\ Ended = [t \in Turn |-> 0] /\ Over = {}
    BY <1>1 DEF Produced, Ended, Over
  <1>3. View = Viewed!Blank(FALSE)
    <2>1. entry.shown = <<>> /\ entry.cancel = NoConn /\ entry.status = "idle"
      BY DEF Init, Idle
    <2>2. QED
      BY <2>1, ViewIs, BlankIs
  <1>4. QED
    BY <1>2, <1>3 DEF Viewed!Init

LEMMA ViewedNext ==
    ASSUME ServiceInv, ServiceInv', PageInv, ViewInv, "late_end" \notin Env, [Next]_vars
    PROVE  [Viewed!Next]_<<Produced, Ended, Over, View>>
  <1>1. CASE Service
    BY <1>1, TurnSteps, ViewService DEF ViewInv
  <1>2. ASSUME NEW c \in Conn, Send(c) PROVE Viewed!Next
    BY <1>2, ViewSend
  <1>3. ASSUME NEW c \in Conn, Deliver(c) PROVE [Viewed!Next]_<<Produced, Ended, Over, View>>
    BY <1>3, ViewDeliver
  <1>4. ASSUME NEW c \in Conn, Watchdog(c) PROVE Viewed!Next
    BY <1>4, ViewWatchdog
  <1>5. CASE FetchSession \/ UNCHANGED vars
    BY <1>5, ViewStays DEF FetchSession, vars
  <1>6. CASE Attach
    BY <1>6, ViewAttach
  <1>7. CASE Stop
    BY <1>7, ViewStop
  <1>8. CASE Reset \/ Refresh
    BY <1>8, ViewClears DEF Reset, Refresh
  <1>9. QED
    BY <1>1, <1>2, <1>3, <1>4, <1>5, <1>6, <1>7, <1>8 DEF Next, Page

\* The registry, the replay endpoint and the page's store implement TurnView:
\* whatever a step of theirs does to the events of a turn and to the view of
\* them is a step TurnView allows (stream-registry.ts lines 92-170, replay.ts
\* lines 61-113, chat-stream-store.ts lines 298-474), for every number of
\* turns, events and connections and every size of the ring.
THEOREM TurnViewImplemented ==
    ASSUME "late_end" \notin Env
    PROVE  Spec => ImplementsTurnView
  <1>1. Init => Viewed!Init
    BY ViewedInit
  <1>2. ServiceInv /\ ServiceInv' /\ PageInv /\ ViewInv /\ [Next]_vars
            => [Viewed!Next]_(Viewed!viewVars)
    BY ViewedNext DEF Viewed!viewVars
  <1>3. QED
    BY <1>1, <1>2, ServiceCorrect, PageCorrect, ViewCorrect, PTL
       DEF Spec, ImplementsTurnView, Viewed!Spec
=============================================================================
