------------------------ MODULE StreamReplay_proofs ------------------------
(* Proofs about StreamReplay: what a page shows of a turn, for any number   *)
(* of connections, turns, events and any size of the ring.                  *)
EXTENDS StreamReplay, FiniteSetTheorems, TLAPS

LEMMA Concat ==
    ASSUME NEW S, NEW q \in Seq(S), NEW es \in Seq(S)
    PROVE  /\ q \o es \in Seq(S)
           /\ Len(q \o es) = Len(q) + Len(es)
           /\ DOMAIN (q \o es) = 1 .. Len(q) + Len(es)
           /\ DOMAIN q = 1 .. Len(q) /\ DOMAIN es = 1 .. Len(es)
           /\ Len(q) \in Nat /\ Len(es) \in Nat
           /\ \A i \in 1 .. Len(q) : (q \o es)[i] = q[i]
           /\ \A i \in Len(q) + 1 .. Len(q) + Len(es) : (q \o es)[i] = es[i - Len(q)]
  OBVIOUS

\* The items of a concatenation.
LEMMA Items ==
    ASSUME NEW q \in Seq(Wire), NEW es \in Seq(Wire)
    PROVE  \A i \in DOMAIN (q \o es) : \/ \E j \in DOMAIN q : (q \o es)[i] = q[j]
                                      \/ \E j \in DOMAIN es : (q \o es)[i] = es[j]
  <1> DEFINE w == q \o es
  <1>1. SUFFICES ASSUME NEW i \in DOMAIN w
                 PROVE  \/ \E j \in DOMAIN q : w[i] = q[j]
                        \/ \E j \in DOMAIN es : w[i] = es[j]
    OBVIOUS
  <1>2. Len(q) \in Nat /\ Len(es) \in Nat /\ i \in 1 .. Len(q) + Len(es)
    BY <1>1, Concat
  <1>3. CASE i <= Len(q)
    <2>1. i \in DOMAIN q /\ w[i] = q[i]
      BY <1>2, <1>3, Concat
    <2>2. QED
      BY <2>1
  <1>4. CASE i > Len(q)
    <2>1. i - Len(q) \in DOMAIN es /\ w[i] = es[i - Len(q)]
      BY <1>2, <1>4, Concat
    <2>2. QED
      BY <2>1
  <1>5. QED
    BY <1>2, <1>3, <1>4

LEMMA Single ==
    ASSUME NEW S, NEW e \in S
    PROVE  /\ <<e>> \in Seq(S) /\ Len(<<e>>) = 1 /\ <<e>>[1] = e
           /\ DOMAIN <<e>> = {1}
  OBVIOUS

LEMMA EventTypes ==
    /\ \A t \in Turn \cup {NoTurn} : \A n \in Nat : \A k \in WireKind :
           /\ Event(t, n, k) \in Wire
           /\ Event(t, n, k).turn = t /\ Event(t, n, k).n = n /\ Event(t, n, k).kind = k
    /\ \A k \in WireKind : Item(k) \in Wire /\ Item(k).kind = k
    /\ TurnKind \subseteq WireKind
    /\ NoEntry \in Entry
  BY DEF Event, Item, Wire, WireKind, NoTurn, TurnKind, NoEntry, Entry

(* The ring. *)

Numbered(r, t) ==
    /\ r.startOffset + Len(r.events) = r.totalEmitted
    /\ \A i \in DOMAIN r.events :
           /\ IsTurnEvent(r.events[i])
           /\ r.events[i].turn = t
           /\ r.events[i].n = r.startOffset + i - 1

InPlace(es, m) == \A i \in DOMAIN es : Placed(es[i], m)

Finish(r) ==
    /\ r.finishedAt <= r.totalEmitted
    /\ r.status \in {"none", "running"} => r.finishedAt = 0
    /\ r.status \in {"done", "error"} => r.finishedAt > 0

LEMMA RingOKIs ==
    ASSUME NEW r, NEW t, r.status # "swept"
    PROVE  RingOK(r, t) <=> /\ Numbered(r, t) /\ InPlace(r.events, r.finishedAt) /\ Finish(r)
                            /\ r.status = "none" => r = NoEntry
  BY DEF RingOK, Numbered, InPlace, Finish

LEMMA RingKept ==
    ASSUME NEW r, NEW t, RingOK(r, t)
    PROVE  InPlace(r.events, r.finishedAt) /\ Finish(r)
  BY DEF RingOK, InPlace, Finish

LEMMA Dropped ==
    ASSUME NEW S, NEW q \in Seq(S), NEW d \in Nat, d <= Len(q)
    PROVE  LET w == SubSeq(q, d + 1, Len(q))
           IN w \in Seq(S) /\ Len(w) = Len(q) - d /\ \A i \in 1 .. Len(q) - d : w[i] = q[i + d]
  OBVIOUS

Joined(r, es) == r.events \o es

\* What append() makes of an entry.
LEMMA PushedEntry ==
    ASSUME NEW r \in Entry, NEW es \in Seq(Wire)
    PROVE  /\ Pushed(r, es) \in Entry
           /\ Pushed(r, es).status = r.status /\ Pushed(r, es).listeners = r.listeners
           /\ Pushed(r, es).finishedAt = r.finishedAt
           /\ Pushed(r, es).totalEmitted = r.totalEmitted + Len(es)
           /\ \E d \in Nat :
                  /\ d <= Len(r.events) + Len(es)
                  /\ Pushed(r, es).startOffset = r.startOffset + d
                  /\ Len(Pushed(r, es).events) = Len(r.events) + Len(es) - d
                  /\ \A i \in 1 .. Len(r.events) + Len(es) - d :
                         Pushed(r, es).events[i] = Joined(r, es)[i + d]
  <1>1. /\ r.events \in Seq(Wire) /\ r.startOffset \in Nat /\ r.totalEmitted \in Nat
        /\ Len(r.events) \in Nat /\ Len(es) \in Nat
    BY DEF Entry
  <1>2. PICK all : all = Joined(r, es)
    OBVIOUS
  <1>3. all \in Seq(Wire) /\ Len(all) = Len(r.events) + Len(es) /\ Len(all) \in Nat
    BY <1>1, <1>2, Concat DEF Joined
  <1>4. PICK d : d = IF Len(all) > RingSize THEN Len(all) - RingSize ELSE 0
    OBVIOUS
  <1>5. RingSize \in Nat
    BY StreamReplayAssumption
  <1>6. d \in Nat /\ d <= Len(all)
    BY <1>3, <1>4, <1>5
  <1>7. PICK w : w = SubSeq(all, d + 1, Len(all))
    OBVIOUS
  <1>8. w \in Seq(Wire) /\ Len(w) = Len(all) - d /\ \A i \in 1 .. Len(all) - d : w[i] = all[i + d]
    BY <1>3, <1>6, <1>7, Dropped
  <1>9. r.startOffset + d \in Nat /\ r.totalEmitted + Len(es) \in Nat
    BY <1>1, <1>6
  <1>10. Pushed(r, es) = [r EXCEPT !.events = w, !.startOffset = r.startOffset + d,
                                   !.totalEmitted = r.totalEmitted + Len(es)]
    BY <1>2, <1>4, <1>7 DEF Pushed, Joined
  <1>11. /\ Pushed(r, es) \in Entry
         /\ Pushed(r, es).events = w /\ Pushed(r, es).startOffset = r.startOffset + d
         /\ Pushed(r, es).totalEmitted = r.totalEmitted + Len(es)
         /\ Pushed(r, es).status = r.status /\ Pushed(r, es).listeners = r.listeners
         /\ Pushed(r, es).finishedAt = r.finishedAt
    <2>1. Pushed(r, es) \in Entry
      BY <1>8, <1>9, <1>10 DEF Entry
    <2>2. /\ Pushed(r, es).events = w /\ Pushed(r, es).startOffset = r.startOffset + d
          /\ Pushed(r, es).totalEmitted = r.totalEmitted + Len(es)
      BY <1>10 DEF Entry
    <2>3. /\ Pushed(r, es).status = r.status /\ Pushed(r, es).listeners = r.listeners
          /\ Pushed(r, es).finishedAt = r.finishedAt
      BY <1>10 DEF Entry
    <2>4. QED
      BY <2>1, <2>2, <2>3
  <1>12. d <= Len(r.events) + Len(es) /\ Len(w) = Len(r.events) + Len(es) - d
    BY <1>3, <1>6, <1>8
  <1>13. \A i \in 1 .. Len(r.events) + Len(es) - d : w[i] = Joined(r, es)[i + d]
    <2>1. \A i \in 1 .. Len(all) - d : w[i] = Joined(r, es)[i + d]
      BY <1>2, <1>8
    <2>2. QED
      BY <1>1, <1>3, <1>6, <2>1
  <1>14. QED
    BY <1>6, <1>11, <1>12, <1>13

\* The events of turn t from number n on.
Numbering(es, t, n) ==
    \A i \in DOMAIN es : IsTurnEvent(es[i]) /\ es[i].turn = t /\ es[i].n = n + i - 1

LEMMA PushedNumbered ==
    ASSUME NEW r \in Entry, NEW es \in Seq(Wire), NEW t,
           Numbered(r, t), Numbering(es, t, r.totalEmitted)
    PROVE  /\ Numbered(Pushed(r, es), t)
           /\ Pushed(r, es).startOffset >= r.startOffset
           /\ \A i \in DOMAIN Pushed(r, es).events :
                  \/ \E j \in DOMAIN r.events : Pushed(r, es).events[i] = r.events[j]
                  \/ \E j \in DOMAIN es : /\ Pushed(r, es).events[i] = es[j]
                                          /\ j = Len(es) => i = Len(Pushed(r, es).events)
  <1> DEFINE p   == Pushed(r, es)
             all == Joined(r, es)
  <1>1. /\ p \in Entry
        /\ p.totalEmitted = r.totalEmitted + Len(es)
    BY PushedEntry
  <1>2. PICK d \in Nat : /\ d <= Len(r.events) + Len(es)
                         /\ p.startOffset = r.startOffset + d
                         /\ Len(p.events) = Len(r.events) + Len(es) - d
                         /\ \A i \in 1 .. Len(r.events) + Len(es) - d :
                                p.events[i] = all[i + d]
    BY PushedEntry
  <1>3. /\ r.events \in Seq(Wire) /\ r.startOffset \in Nat /\ r.totalEmitted \in Nat
        /\ p.events \in Seq(Wire)
    BY <1>1 DEF Entry
  <1>4. /\ \A i \in 1 .. Len(r.events) : all[i] = r.events[i]
        /\ \A i \in Len(r.events) + 1 .. Len(r.events) + Len(es) :
               all[i] = es[i - Len(r.events)]
        /\ DOMAIN r.events = 1 .. Len(r.events) /\ DOMAIN es = 1 .. Len(es)
        /\ Len(r.events) \in Nat /\ Len(es) \in Nat
    BY <1>3, Concat DEF Joined
  <1>5. DOMAIN p.events = 1 .. Len(r.events) + Len(es) - d
    BY <1>2, <1>3
  <1> HIDE DEF p, all
  <1>6. r.startOffset + Len(r.events) = r.totalEmitted
    BY DEF Numbered
  <1>7. \A i \in DOMAIN p.events :
            \/ i + d \in DOMAIN r.events /\ p.events[i] = r.events[i + d]
            \/ /\ i + d - Len(r.events) \in DOMAIN es
               /\ p.events[i] = es[i + d - Len(r.events)]
    <2>1. TAKE i \in DOMAIN p.events
    <2>2. i \in Nat /\ i >= 1 /\ i <= Len(r.events) + Len(es) - d /\ p.events[i] = all[i + d]
      BY <1>2, <1>4, <1>5
    <2>3. CASE i + d <= Len(r.events)
      BY <1>4, <2>2, <2>3
    <2>4. CASE i + d > Len(r.events)
      <3>1. i + d - Len(r.events) \in DOMAIN es /\ i + d \in Len(r.events) + 1 .. Len(r.events) + Len(es)
        <4>1. PICK a \in Nat, b \in Nat : a = Len(r.events) /\ b = Len(es)
          BY <1>4
        <4>2. i + d - a \in 1 .. b /\ i + d \in a + 1 .. a + b
          BY <2>2, <2>4, <4>1
        <4>3. QED
          BY <1>4, <4>1, <4>2
      <3>2. QED
        BY <1>4, <2>2, <3>1
    <2>5. QED
      BY <1>4, <2>2, <2>3, <2>4
  <1>8. \A i \in DOMAIN p.events : /\ IsTurnEvent(p.events[i]) /\ p.events[i].turn = t
                                   /\ p.events[i].n = p.startOffset + i - 1
    <2>1. TAKE i \in DOMAIN p.events
    <2>2. i \in Nat
      BY <1>2, <1>4, <1>5
    <2>3. CASE i + d \in DOMAIN r.events /\ p.events[i] = r.events[i + d]
      <3>1. /\ IsTurnEvent(r.events[i + d]) /\ r.events[i + d].turn = t
            /\ r.events[i + d].n = r.startOffset + (i + d) - 1
        BY <2>3 DEF Numbered
      <3>2. r.startOffset + (i + d) - 1 = p.startOffset + i - 1
        <4>1. p.startOffset = r.startOffset + d /\ r.startOffset \in Nat /\ d \in Nat /\ i \in Nat
          BY <1>2, <1>3, <2>2
        <4>2. QED
          BY <4>1
      <3>3. QED
        BY <2>3, <3>1, <3>2
    <2>4. CASE /\ i + d - Len(r.events) \in DOMAIN es
               /\ p.events[i] = es[i + d - Len(r.events)]
      BY <1>2, <1>3, <1>4, <1>6, <2>2, <2>4 DEF Numbering
    <2>5. QED
      BY <1>7, <2>3, <2>4
  <1>9. Numbered(p, t)
    BY <1>1, <1>2, <1>3, <1>4, <1>6, <1>8 DEF Numbered
  <1>10. \A i \in DOMAIN p.events :
            \/ \E j \in DOMAIN r.events : p.events[i] = r.events[j]
            \/ \E j \in DOMAIN es : /\ p.events[i] = es[j]
                                    /\ j = Len(es) => i = Len(p.events)
    <2>1. TAKE i \in DOMAIN p.events
    <2>2. i \in Nat
      BY <1>2, <1>4, <1>5
    <2>3. i + d - Len(r.events) = Len(es) => i = Len(p.events)
      BY <1>2, <1>4, <2>2
    <2>4. QED
      BY <1>7, <2>1, <2>3
  <1>11. QED
    BY <1>2, <1>3, <1>9, <1>10 DEF p

\* An entry with the ring that append() leaves, running or ended.
LEMMA RingAfter ==
    ASSUME NEW r \in Entry, NEW es \in Seq(Wire), NEW t, NEW q,
           Numbered(r, t), Numbering(es, t, r.totalEmitted),
           q.events = Pushed(r, es).events, q.startOffset = Pushed(r, es).startOffset,
           q.totalEmitted = Pushed(r, es).totalEmitted,
           q.status \notin {"none", "swept"}, Finish(q),
           InPlace(r.events, q.finishedAt), InPlace(es, q.finishedAt)
    PROVE  RingOK(q, t)
  <1>1. Numbered(Pushed(r, es), t)
    BY PushedNumbered
  <1>2. Numbered(q, t)
    BY <1>1 DEF Numbered
  <1>3. InPlace(q.events, q.finishedAt)
    BY PushedNumbered DEF InPlace
  <1>4. QED
    BY <1>2, <1>3, RingOKIs

\* What is left of a turn that the sweeper or a restart forgets.
LEMMA RingDeleted ==
    ASSUME NEW r \in Entry, NEW t, RingOK(r, t), r.status # "none", NEW q, q = Deleted(r)
    PROVE  /\ RingOK(q, t) /\ q \in Entry /\ q.status = "swept" /\ q.listeners = {}
           /\ q.startOffset = r.startOffset /\ q.totalEmitted = r.totalEmitted
           /\ q.finishedAt = r.finishedAt
  <1>1. <<>> \in Seq(Wire) /\ DOMAIN <<>> = {}
    OBVIOUS
  <1>2. /\ q \in Entry /\ q.status = "swept" /\ q.listeners = {}
        /\ q.events = <<>> /\ q.startOffset = r.startOffset
        /\ q.totalEmitted = r.totalEmitted /\ q.finishedAt = r.finishedAt
    BY <1>1 DEF Entry, Deleted
  <1>3. r.finishedAt <= r.totalEmitted
    BY DEF RingOK
  <1>4. QED
    BY <1>1, <1>2, <1>3 DEF RingOK

LEMMA EndingIs ==
    ASSUME NEW t \in Turn, NEW how \in {"done", "aborted", "error"},
           registry[t].totalEmitted \in Nat, NEW es, es = Ending(t, how)
    PROVE  /\ es \in Seq(Wire)
           /\ Numbering(es, t, registry[t].totalEmitted)
           /\ InPlace(es, registry[t].totalEmitted + Len(es))
           /\ Len(es) \in 1 .. 2
  <1> DEFINE n == registry[t].totalEmitted
             a == Event(t, n, "turn_aborted")
             b == Event(t, n + 1, "done")
             e == Event(t, n, how)
  <1>1. CASE how = "aborted"
    <2>1. es = <<a, b>>
      BY <1>1 DEF Ending
    <2>2. /\ a \in Wire /\ a.turn = t /\ a.n = n /\ a.kind = "turn_aborted"
          /\ b \in Wire /\ b.turn = t /\ b.n = n + 1 /\ b.kind = "done"
      BY EventTypes DEF WireKind, TurnKind
    <2> HIDE DEF a, b
    <2>3. es \in Seq(Wire) /\ Len(es) = 2 /\ DOMAIN es = {1, 2} /\ es[1] = a /\ es[2] = b
      BY <2>1, <2>2
    <2>4. Numbering(es, t, n)
      BY <2>2, <2>3 DEF Numbering, IsTurnEvent, TurnKind
    <2>5. InPlace(es, n + Len(es))
      BY <2>2, <2>3 DEF InPlace, Placed
    <2>6. QED
      BY <2>3, <2>4, <2>5
  <1>2. CASE how # "aborted"
    <2>1. es = <<e>>
      BY <1>2 DEF Ending
    <2>2. how \in TurnKind /\ how \in WireKind
      BY <1>2 DEF TurnKind, WireKind
    <2>3. e \in Wire /\ e.turn = t /\ e.n = n /\ e.kind = how
      BY <2>2, EventTypes
    <2> HIDE DEF e
    <2>4. es \in Seq(Wire) /\ Len(es) = 1 /\ es[1] = e /\ DOMAIN es = {1}
      BY <2>1, <2>3, Single
    <2>5. Numbering(es, t, n)
      BY <2>2, <2>3, <2>4 DEF Numbering, IsTurnEvent
    <2>6. InPlace(es, n + Len(es))
      BY <2>3, <2>4 DEF InPlace, Placed
    <2>7. es \in Seq(Wire) /\ Len(es) \in 1 .. 2
      BY <2>4
    <2>8. QED
      BY ONLY <2>5, <2>6, <2>7
  <1>3. QED
    BY <1>1, <1>2

LEMMA Cut ==
    ASSUME NEW S, NEW q \in Seq(S), NEW d \in Nat
    PROVE  LET w == SubSeq(q, d + 1, Len(q))
           IN /\ w \in Seq(S) /\ Len(w) \in Nat /\ DOMAIN w = 1 .. Len(w)
              /\ d <= Len(q) => Len(w) = Len(q) - d
              /\ \A i \in DOMAIN w : i \in Nat /\ i + d \in 1 .. Len(q) /\ w[i] = q[i + d]
  <1>1. CASE d <= Len(q)
    BY <1>1, Dropped
  <1>2. CASE d > Len(q)
    <2>1. SubSeq(q, d + 1, Len(q)) = <<>>
      BY <1>2
    <2>2. QED
      BY <1>2, <2>1
  <1>3. QED
    BY <1>1, <1>2

\* What a replay from the given offset gets.
LEMMA SuffixIs ==
    ASSUME NEW r \in Entry, NEW t, RingOK(r, t), r.status # "swept",
           NEW from \in Nat, from >= r.startOffset
    PROVE  /\ Suffix(r, from) \in Seq(Wire)
           /\ Numbering(Suffix(r, from), t, from)
           /\ \A i \in DOMAIN Suffix(r, from) :
                  /\ Suffix(r, from)[i].n < r.totalEmitted
                  /\ Placed(Suffix(r, from)[i], r.finishedAt)
           /\ from <= r.totalEmitted => Len(Suffix(r, from)) = r.totalEmitted - from
  <1>1. /\ r.events \in Seq(Wire) /\ r.startOffset \in Nat /\ r.totalEmitted \in Nat
        /\ Len(r.events) \in Nat /\ DOMAIN r.events = 1 .. Len(r.events)
    BY DEF Entry
  <1>2. PICK w : w = Suffix(r, from)
    OBVIOUS
  <1>3. PICK d \in Nat : d = from - r.startOffset
    BY <1>1
  <1>4. r.startOffset + Len(r.events) = r.totalEmitted
    BY DEF RingOK
  <1>5. w = SubSeq(r.events, d + 1, Len(r.events))
    BY <1>2, <1>3 DEF Suffix
  <1>6. /\ w \in Seq(Wire) /\ Len(w) \in Nat
        /\ d <= Len(r.events) => Len(w) = Len(r.events) - d
    BY <1>1, <1>5, Cut
  <1>7. \A i \in DOMAIN w : /\ i \in Nat /\ i + d \in DOMAIN r.events
                            /\ w[i] = r.events[i + d]
    BY <1>1, <1>5, Cut
  <1>8. \A i \in DOMAIN w :
            /\ IsTurnEvent(w[i]) /\ w[i].turn = t /\ w[i].n = from + i - 1
            /\ w[i].n < r.totalEmitted
            /\ Placed(w[i], r.finishedAt)
    <2>1. TAKE i \in DOMAIN w
    <2>2. PICK j \in DOMAIN r.events : j = i + d /\ w[i] = r.events[j]
      BY <1>7
    <2>3. /\ IsTurnEvent(r.events[j]) /\ r.events[j].turn = t
          /\ r.events[j].n = r.startOffset + j - 1
          /\ Placed(r.events[j], r.finishedAt)
      BY DEF RingOK
    <2>4. /\ i \in Nat /\ j \in Nat /\ j <= Len(r.events)
      BY <1>1, <1>7
    <2>5. PICK a \in Nat, b \in Nat, c \in Nat :
              a = r.startOffset /\ b = Len(r.events) /\ c = r.totalEmitted
      BY <1>1
    <2>6. /\ a + j - 1 = from + i - 1 /\ a + j - 1 < c
      <3>1. a + b = c /\ d = from - a /\ j = i + d /\ j <= b
        BY <1>3, <1>4, <2>2, <2>4, <2>5
      <3>2. PICK k \in Nat, l \in Nat : k = i /\ l = j
        BY <2>4
      <3>3. a + l = from + k /\ a + l <= c
        BY <3>1, <3>2
      <3>4. a + l - 1 = from + k - 1 /\ a + l - 1 < c
        BY <3>3
      <3>5. QED
        BY <3>2, <3>4
    <2>7. PICK e : e = r.events[j]
      OBVIOUS
    <2>8. PICK m : m = r.startOffset + j - 1
      OBVIOUS
    <2>9. /\ IsTurnEvent(e) /\ e.turn = t /\ e.n = m
          /\ m = from + i - 1 /\ m < r.totalEmitted
          /\ Placed(e, r.finishedAt)
      <3>1. m = from + i - 1 /\ m < r.totalEmitted
        BY <2>5, <2>6, <2>8
      <3>2. QED
        BY <2>3, <2>7, <2>8, <3>1
    <2>10. w[i] = e
      BY <2>2, <2>7
    <2>11. QED
      BY <2>9, <2>10
  <1>9. from <= r.totalEmitted => Len(w) = r.totalEmitted - from
    <2>1. PICK a \in Nat, b \in Nat, c \in Nat :
              a = r.startOffset /\ b = Len(r.events) /\ c = r.totalEmitted
      BY <1>1
    <2>2. a + b = c /\ d = from - a /\ (d <= b => Len(w) = b - d)
      BY <1>3, <1>4, <1>6, <2>1
    <2>3. from <= c => Len(w) = c - from
      BY <2>2
    <2>4. QED
      BY <2>1, <2>3
  <1>10. Numbering(w, t, from)
    BY <1>8 DEF Numbering
  <1>11. QED
    BY <1>2, <1>6, <1>8, <1>9, <1>10
-----------------------------------------------------------------------------
(* The connections. *)

ConnOK(k) ==
    /\ k \in Connection
    /\ k.kind = "free" => k = Free
    /\ ~k.live \/ k.phase = "request" => k.wire = <<>>
    /\ \A i \in DOMAIN k.wire : ~IsTurnEvent(k.wire[i]) => k.phase = "ended"
    /\ \A i \in DOMAIN k.wire : k.wire[i].kind = "ring_overflow" => k.kind = "replay"
    /\ k.kind = "replay" => k.turn # NoTurn

\* What writing and leaving do not touch.
SameLoop(k, w) ==
    /\ w.kind = k.kind /\ w.turn = k.turn /\ w.from = k.from
    /\ w.retried = k.retried /\ w.saw = k.saw

LEMMA FreeIs ==
    /\ ConnOK(Free)
    /\ Free.kind = "free" /\ Free.turn = NoTurn /\ Free.phase = "ended"
    /\ Free.live = FALSE /\ Free.wire = <<>>
  <1>1. <<>> \in Seq(Wire) /\ DOMAIN <<>> = {}
    OBVIOUS
  <1>2. Free \in Connection
    BY <1>1 DEF Free, Connection, NoTurn
  <1>3. QED
    BY <1>1, <1>2 DEF ConnOK, Free

LEMMA ConnTypes ==
    ASSUME NEW k \in Connection
    PROVE  /\ k.wire \in Seq(Wire) /\ k.from \in Nat /\ k.live \in BOOLEAN
           /\ k.turn \in Turn \cup {NoTurn} /\ k.phase \in {"request", "open", "ended"}
           /\ k.kind \in {"free", "turn", "replay"} /\ k.retried \in BOOLEAN
           /\ k.saw \in {"nothing", "aborted", "done", "error"}
  BY DEF Connection

LEMMA WrittenIs ==
    ASSUME NEW k \in Connection, NEW es \in Seq(Wire), NEW w, w = Written(k, es)
    PROVE  /\ w \in Connection /\ SameLoop(k, w)
           /\ w.phase = k.phase /\ w.live = k.live
           /\ ~k.live => w = k
           /\ k.live => w.wire = k.wire \o es
  <1>1. CASE k.live
    <2>1. k.wire \o es \in Seq(Wire)
      BY ConnTypes, Concat
    <2>2. w = [k EXCEPT !.wire = k.wire \o es]
      BY <1>1 DEF Written
    <2>3. w \in Connection
      BY <2>1, <2>2 DEF Connection
    <2>4. w.phase = k.phase /\ w.live = k.live /\ w.wire = k.wire \o es
      BY <2>2 DEF Connection
    <2>5. SameLoop(k, w)
      BY <2>2 DEF SameLoop, Connection
    <2>6. QED
      BY <1>1, <2>3, <2>4, <2>5
  <1>2. CASE ~k.live
    BY <1>2 DEF Written, SameLoop
  <1>3. QED
    BY <1>1, <1>2

LEMMA ClosedIs ==
    ASSUME NEW k \in Connection, NEW w, w = Closed(k)
    PROVE  /\ ~k.live => w = Free
           /\ k.live => /\ w \in Connection /\ SameLoop(k, w)
                        /\ w.phase = "ended" /\ w.live = TRUE /\ w.wire = k.wire
  <1>1. CASE k.live
    <2>1. w = [k EXCEPT !.phase = "ended"]
      BY <1>1 DEF Closed
    <2>2. w \in Connection
      BY <2>1 DEF Connection
    <2>3. w.phase = "ended" /\ w.live = k.live /\ w.wire = k.wire
      BY <2>1 DEF Connection
    <2>4. SameLoop(k, w)
      BY <2>1 DEF SameLoop, Connection
    <2>5. k.live = TRUE
      BY <1>1, ConnTypes
    <2>6. QED
      BY <1>1, <2>2, <2>3, <2>4, <2>5
  <1>2. CASE ~k.live
    BY <1>2 DEF Closed
  <1>3. QED
    BY <1>1, <1>2

LEMMA LeftIs ==
    ASSUME NEW k \in Connection, NEW w, w = Left(k)
    PROVE  /\ k.phase = "ended" => w = Free
           /\ k.phase # "ended" => /\ w \in Connection /\ SameLoop(k, w)
                                   /\ w.phase = k.phase /\ w.live = FALSE /\ w.wire = <<>>
  <1>1. CASE k.phase # "ended"
    <2>1. w = [k EXCEPT !.live = FALSE, !.wire = <<>>]
      BY <1>1 DEF Left
    <2>2. <<>> \in Seq(Wire)
      OBVIOUS
    <2>3. w \in Connection
      BY <2>1, <2>2 DEF Connection
    <2>4. w.phase = k.phase /\ w.live = FALSE /\ w.wire = <<>>
      BY <2>1 DEF Connection
    <2>5. SameLoop(k, w)
      BY <2>1 DEF SameLoop, Connection
    <2>6. QED
      BY <1>1, <2>3, <2>4, <2>5
  <1>2. CASE k.phase = "ended"
    BY <1>2 DEF Left
  <1>3. QED
    BY <1>1, <1>2

\* A live loop has a connection of its own.
LEMMA LiveIsUsed ==
    ASSUME NEW k, ConnOK(k), k.live
    PROVE  k.kind # "free" /\ k # Free
  BY FreeIs DEF ConnOK

LEMMA WrittenOK ==
    ASSUME NEW k, ConnOK(k), NEW es \in Seq(Wire), k.phase = "open",
           \A i \in DOMAIN es : IsTurnEvent(es[i]), NEW w, w = Written(k, es)
    PROVE  /\ ConnOK(w) /\ SameLoop(k, w) /\ w.phase = "open" /\ w.live = k.live
           /\ k.live => w.wire = k.wire \o es
  <1>1. k \in Connection
    BY DEF ConnOK
  <1>2. /\ w \in Connection /\ SameLoop(k, w) /\ w.phase = "open" /\ w.live = k.live
        /\ ~k.live => w = k
        /\ k.live => w.wire = k.wire \o es
    BY <1>1, WrittenIs
  <1>3. CASE ~k.live
    BY <1>2, <1>3
  <1>4. CASE k.live
    <2>1. \A i \in DOMAIN w.wire :
              (\E j \in DOMAIN k.wire : w.wire[i] = k.wire[j]) \/ IsTurnEvent(w.wire[i])
      <3>1. PICK q \in Seq(Wire) : q = k.wire
        BY <1>1, ConnTypes
      <3>2. PICK v : v = q \o es
        OBVIOUS
      <3>3. v = w.wire
        BY <1>2, <1>4, <3>1, <3>2
      <3>4. \A i \in DOMAIN v : \/ \E j \in DOMAIN q : v[i] = q[j]
                                \/ \E j \in DOMAIN es : v[i] = es[j]
        <4>1. \A i \in DOMAIN (q \o es) : \/ \E j \in DOMAIN q : (q \o es)[i] = q[j]
                                         \/ \E j \in DOMAIN es : (q \o es)[i] = es[j]
          BY Items, Zenon
        <4>2. QED
          BY <3>2, <4>1, Zenon
      <3>5. QED
        BY <3>1, <3>3, <3>4
    <2>2. w.kind # "free" /\ w.live = TRUE
      BY <1>2, <1>4, LiveIsUsed, ConnTypes DEF SameLoop
    <2>3. w.kind = "replay" => w.turn # NoTurn
      BY <1>2 DEF SameLoop, ConnOK
    <2>4. \A i \in DOMAIN w.wire : IsTurnEvent(w.wire[i]) /\ w.wire[i].kind # "ring_overflow"
      BY <1>4, <2>1 DEF ConnOK, IsTurnEvent, TurnKind
    <2>5. ConnOK(w)
      BY <1>2, <1>4, <2>2, <2>3, <2>4 DEF ConnOK
    <2>6. QED
      BY <1>2, <2>5
  <1>5. QED
    BY <1>3, <1>4

LEMMA ClosedOK ==
    ASSUME NEW k, ConnOK(k), NEW w, w = Closed(k)
    PROVE  /\ ConnOK(w) /\ w.phase = "ended"
           /\ ~k.live => w = Free
           /\ k.live => SameLoop(k, w) /\ w.live = TRUE /\ w.wire = k.wire
  <1>1. k \in Connection
    BY DEF ConnOK
  <1>2. CASE ~k.live
    BY <1>1, <1>2, ClosedIs, FreeIs
  <1>3. CASE k.live
    <2>1. /\ w \in Connection /\ SameLoop(k, w)
          /\ w.phase = "ended" /\ w.live = TRUE /\ w.wire = k.wire
      BY <1>1, <1>3, ClosedIs
    <2>2. w.kind # "free"
      BY <1>3, <2>1, LiveIsUsed DEF SameLoop
    <2>3. ConnOK(w)
      BY <2>1, <2>2 DEF ConnOK, SameLoop
    <2>4. QED
      BY <1>3, <2>1, <2>3
  <1>4. QED
    BY <1>2, <1>3

\* The last bytes of a response.
LEMMA ClosedWritten ==
    ASSUME NEW k, ConnOK(k), NEW es \in Seq(Wire), NEW w, w = Closed(Written(k, es)),
           \A i \in DOMAIN es : es[i].kind = "ring_overflow" => k.kind = "replay"
    PROVE  /\ ConnOK(w) /\ w.phase = "ended"
           /\ ~k.live => w = Free
           /\ k.live => SameLoop(k, w) /\ w.live = TRUE /\ w.wire = k.wire \o es
  <1>1. k \in Connection
    BY DEF ConnOK
  <1>2. PICK v : v = Written(k, es)
    OBVIOUS
  <1>3. /\ v \in Connection /\ SameLoop(k, v) /\ v.live = k.live
        /\ k.live => v.wire = k.wire \o es
    BY <1>1, <1>2, WrittenIs
  <1>4. w = Closed(v)
    BY <1>2
  <1>5. CASE ~k.live
    BY <1>3, <1>4, <1>5, ClosedIs, FreeIs
  <1>6. CASE k.live
    <2>1. /\ w \in Connection /\ SameLoop(v, w)
          /\ w.phase = "ended" /\ w.live = TRUE /\ w.wire = v.wire
      BY <1>3, <1>4, <1>6, ClosedIs
    <2>2. SameLoop(k, w)
      BY <1>3, <2>1 DEF SameLoop
    <2>3. w.kind # "free"
      BY <1>6, <2>2, LiveIsUsed DEF SameLoop
    <2>4. \A i \in DOMAIN w.wire : \/ \E j \in DOMAIN k.wire : w.wire[i] = k.wire[j]
                                   \/ \E j \in DOMAIN es : w.wire[i] = es[j]
      <3>1. PICK q \in Seq(Wire) : q = k.wire
        BY <1>1, ConnTypes
      <3>2. PICK u : u = q \o es
        OBVIOUS
      <3>3. u = w.wire
        BY <1>3, <1>6, <2>1, <3>1, <3>2
      <3>4. \A i \in DOMAIN u : \/ \E j \in DOMAIN q : u[i] = q[j]
                                \/ \E j \in DOMAIN es : u[i] = es[j]
        <4>1. \A i \in DOMAIN (q \o es) : \/ \E j \in DOMAIN q : (q \o es)[i] = q[j]
                                         \/ \E j \in DOMAIN es : (q \o es)[i] = es[j]
          BY Items, Zenon
        <4>2. QED
          BY <3>2, <4>1, Zenon
      <3>5. \A i \in DOMAIN w.wire : \/ \E j \in DOMAIN q : w.wire[i] = q[j]
                                     \/ \E j \in DOMAIN es : w.wire[i] = es[j]
        BY <3>3, <3>4
      <3>6. QED
        BY <3>1, <3>5
    <2>5. \A i \in DOMAIN w.wire : w.wire[i].kind = "ring_overflow" => w.kind = "replay"
      BY <2>2, <2>4 DEF ConnOK, SameLoop
    <2>6. ConnOK(w)
      BY <2>1, <2>2, <2>3, <2>5 DEF ConnOK, SameLoop
    <2>7. QED
      BY <1>3, <1>6, <2>1, <2>2, <2>6
  <1>7. QED
    BY <1>5, <1>6

\* A response whose turn has ended: what it still gets, and its end.
Last(es) == es \o <<Item("eof")>>

LEMMA LastIs ==
    ASSUME NEW es \in Seq(Wire), NEW w, w = Last(es)
    PROVE  /\ w \in Seq(Wire) /\ Len(w) = Len(es) + 1 /\ Len(es) \in Nat
           /\ DOMAIN w = 1 .. Len(es) + 1 /\ DOMAIN es = 1 .. Len(es)
           /\ \A i \in DOMAIN es : w[i] = es[i]
           /\ w[Len(es) + 1] = Item("eof") /\ w[Len(es) + 1].kind = "eof"
  <1>1. PICK x \in Wire : x = Item("eof") /\ x.kind = "eof"
    BY EventTypes DEF WireKind
  <1>2. w = es \o <<x>>
    BY <1>1 DEF Last
  <1>3. <<x>> \in Seq(Wire) /\ Len(<<x>>) = 1 /\ <<x>>[1] = x
    BY Single
  <1>4. QED
    BY <1>1, <1>2, <1>3

LEMMA BrokenOK ==
    ASSUME NEW k, ConnOK(k), NEW how \in {"eof", "failed"}, NEW w, w = Broken(k, how)
    PROVE  /\ ConnOK(w) /\ w.phase = "ended"
           /\ ~k.live => w = Free
           /\ k.live => /\ SameLoop(k, w) /\ w.live = TRUE
                        /\ how = "eof" => w.wire = Last(k.wire)
                        /\ how # "eof" => w.wire = <<Item("failed")>>
  <1>1. k \in Connection
    BY DEF ConnOK
  <1>2. /\ <<Item("eof")>> \in Seq(Wire)
        /\ <<Item("failed")>> \in Seq(Wire)
    BY EventTypes, Single DEF WireKind
  <1>3. CASE how = "eof"
    <2>1. PICK es \in Seq(Wire) : es = <<Item("eof")>>
      BY <1>2
    <2>2. w = Closed(Written(k, es))
      BY <1>3, <2>1 DEF Broken
    <2>3. \A i \in DOMAIN es : es[i].kind # "ring_overflow"
      BY <1>2, <2>1, EventTypes DEF WireKind
    <2>4. /\ ConnOK(w) /\ w.phase = "ended"
          /\ ~k.live => w = Free
          /\ k.live => SameLoop(k, w) /\ w.live = TRUE /\ w.wire = k.wire \o es
      BY <2>2, <2>3, ClosedWritten
    <2>5. w.live = TRUE => w.wire = Last(k.wire) \/ ~k.live
      BY <2>1, <2>4 DEF Last
    <2>6. QED
      BY <1>3, <2>4, <2>5
  <1>4. CASE how # "eof"
    <2>1. PICK v : v = [k EXCEPT !.wire = <<Item("failed")>>]
      OBVIOUS
    <2>2. w = Closed(v)
      BY <1>4, <2>1 DEF Broken
    <2>3. v \in Connection
      BY <1>1, <1>2, <2>1 DEF Connection
    <2>4. v.live = k.live /\ v.wire = <<Item("failed")>>
      BY <1>1, <2>1 DEF Connection
    <2>5. SameLoop(k, v)
      BY <1>1, <2>1 DEF SameLoop, Connection
    <2>6. CASE ~k.live
      BY <2>2, <2>3, <2>4, <2>6, ClosedIs, FreeIs
    <2>7. CASE k.live
      <3>1. /\ w \in Connection /\ SameLoop(v, w)
            /\ w.phase = "ended" /\ w.live = TRUE /\ w.wire = <<Item("failed")>>
        BY <2>2, <2>3, <2>4, <2>7, ClosedIs
      <3>2. SameLoop(k, w)
        BY <2>5, <3>1 DEF SameLoop
      <3>3. w.kind # "free"
        BY <2>7, <3>2, LiveIsUsed DEF SameLoop
      <3>4. ConnOK(w)
        <4>1. \A i \in DOMAIN w.wire : w.wire[i].kind # "ring_overflow"
          BY <3>1, EventTypes DEF WireKind
        <4>2. QED
          BY <3>1, <3>2, <3>3, <4>1 DEF ConnOK, SameLoop
      <3>5. QED
        BY <1>4, <2>7, <3>1, <3>2, <3>4
    <2>8. QED
      BY <2>6, <2>7
  <1>5. QED
    BY <1>3, <1>4

LEMMA LeftOK ==
    ASSUME NEW k, ConnOK(k), NEW w, w = Left(k)
    PROVE  /\ ConnOK(w) /\ w.live = FALSE /\ w.wire = <<>>
           /\ k.phase = "ended" => w = Free
           /\ k.phase # "ended" => SameLoop(k, w) /\ w.phase = k.phase
  <1>1. k \in Connection
    BY DEF ConnOK
  <1>2. CASE k.phase = "ended"
    BY <1>1, <1>2, LeftIs, FreeIs
  <1>3. CASE k.phase # "ended"
    <2>1. /\ w \in Connection /\ SameLoop(k, w)
          /\ w.phase = k.phase /\ w.live = FALSE /\ w.wire = <<>>
      BY <1>1, <1>3, LeftIs
    <2>2. w.kind # "free"
      BY <1>3, <2>1, FreeIs DEF ConnOK, SameLoop
    <2>3. ConnOK(w)
      BY <2>1, <2>2 DEF ConnOK, SameLoop
    <2>4. QED
      BY <1>3, <2>1, <2>3
  <1>4. QED
    BY <1>2, <1>3
-----------------------------------------------------------------------------
(* The invariant of the service. *)

\* What ServiceInv says, in the form the steps use.
LEMMA Given ==
    ASSUME ServiceInv
    PROVE  /\ registry \in [Turn -> Entry] /\ \A t \in Turn : RingOK(registry[t], t)
           /\ handler \in [Turn -> [response : Conn \cup {NoConn}, stuck : BOOLEAN]]
           /\ conn \in [Conn -> Connection] /\ \A c \in Conn : ConnOK(conn[c])
           /\ \A c \in Conn : conn[c].turn # NoTurn => registry[conn[c].turn].status # "none"
           /\ entry \in Stream
           /\ page \in [active : Turn \cup {NoTurn}, triggered : Turn \cup {NoTurn}]
           /\ page.active # NoTurn => registry[page.active].status # "none"
           /\ HandlerInv /\ ListenersExact
  <1>1. conn \in [Conn -> Connection] /\ \A c \in Conn : conn[c] \in Connection
    BY DEF ServiceInv, TypeOK
  <1>2. \A c \in Conn : ConnOK(conn[c])
    BY <1>1 DEF ServiceInv, ConnInv, ConnOK
  <1>3. \A c \in Conn : conn[c].turn # NoTurn => registry[conn[c].turn].status # "none"
    BY DEF ServiceInv, ConnInv
  <1>4. QED
    BY <1>1, <1>2, <1>3 DEF ServiceInv, TypeOK, RegistryInv

LEMMA Assemble ==
    ASSUME registry' \in [Turn -> Entry], \A t \in Turn : RingOK(registry[t]', t),
           handler' \in [Turn -> [response : Conn \cup {NoConn}, stuck : BOOLEAN]],
           conn' \in [Conn -> Connection], \A c \in Conn : ConnOK(conn[c]'),
           \A c \in Conn : conn[c].turn' # NoTurn => registry'[conn[c].turn'].status # "none",
           entry' \in Stream,
           page' \in [active : Turn \cup {NoTurn}, triggered : Turn \cup {NoTurn}],
           page.active' # NoTurn => registry'[page.active'].status # "none",
           HandlerInv', ListenersExact'
    PROVE  ServiceInv'
  <1>1. TypeOK'
    BY DEF TypeOK
  <1>2. RegistryInv'
    BY DEF RegistryInv
  <1>3. ConnInv'
    BY DEF ConnInv, ConnOK
  <1>4. QED
    BY <1>1, <1>2, <1>3 DEF ServiceInv

\* The responses that are open, and what they are open for, stay.
OpenSame ==
    \A c \in Conn :
        conn[c].phase = "open" \/ conn[c].phase' = "open" =>
            /\ conn[c].phase' = conn[c].phase
            /\ conn[c].kind' = conn[c].kind /\ conn[c].turn' = conn[c].turn

LEMMA OpenFrame ==
    ASSUME HandlerInv, ListenersExact, OpenSame,
           \A t \in Turn : /\ registry[t].listeners' = registry[t].listeners
                           /\ registry[t].status' = registry[t].status
                           /\ handler[t].response' = handler[t].response
    PROVE  HandlerInv' /\ ListenersExact'
  <1>1. HandlerInv'
    BY DEF HandlerInv, OpenSame
  <1>2. ListenersExact'
    BY DEF ListenersExact, OpenSame, Running
  <1>3. QED
    BY <1>1, <1>2

\* The page leaves connections, or leaves them alone.
LEMMA Leaving ==
    ASSUME conn \in [Conn -> Connection], \A c \in Conn : ConnOK(conn[c]),
           \A c \in Conn : conn[c].turn # NoTurn => registry[conn[c].turn].status # "none",
           NEW q,
           \A c \in Conn : q[c] = conn[c] \/ q[c] = Left(conn[c])
    PROVE  /\ \A c \in Conn : q[c] \in Connection /\ ConnOK(q[c])
           /\ \A c \in Conn : q[c].turn # NoTurn => registry[q[c].turn].status # "none"
           /\ \A c \in Conn : conn[c].phase = "open" \/ q[c].phase = "open" =>
                  q[c].phase = conn[c].phase /\ q[c].kind = conn[c].kind /\ q[c].turn = conn[c].turn
  <1>1. SUFFICES ASSUME NEW c \in Conn
                 PROVE  /\ q[c] \in Connection /\ ConnOK(q[c])
                        /\ q[c].turn # NoTurn => registry[q[c].turn].status # "none"
                        /\ conn[c].phase = "open" \/ q[c].phase = "open" =>
                             /\ q[c].phase = conn[c].phase /\ q[c].kind = conn[c].kind
                             /\ q[c].turn = conn[c].turn
    OBVIOUS
  <1>2. CASE q[c] = conn[c]
    BY <1>2
  <1>3. CASE q[c] = Left(conn[c])
    <2>1. /\ ConnOK(q[c])
          /\ conn[c].phase = "ended" => q[c] = Free
          /\ conn[c].phase # "ended" => SameLoop(conn[c], q[c]) /\ q[c].phase = conn[c].phase
      BY <1>3, LeftOK
    <2>2. q[c] \in Connection
      BY <2>1 DEF ConnOK
    <2>3. CASE conn[c].phase = "ended"
      BY <2>1, <2>2, <2>3, FreeIs
    <2>4. CASE conn[c].phase # "ended"
      BY <2>1, <2>2, <2>4 DEF SameLoop
    <2>5. QED
      BY <2>3, <2>4
  <1>4. QED
    BY <1>2, <1>3

LEMMA StreamTypes ==
    /\ Idle \in Stream
    /\ \A c \in Conn : [Idle EXCEPT !.status = "loading", !.cancel = c] \in Stream
    /\ \A c \in Conn : \A t \in Turn \cup {NoTurn} : Attached(c, t) \in Stream
    /\ \A s \in Stream : Stripped(s) \in Stream
    /\ \A s \in Stream : \A st \in Status : [s EXCEPT !.status = st] \in Stream
  <1>1. <<>> \in Seq(Wire)
    OBVIOUS
  <1>2. QED
    BY <1>1 DEF Idle, Stream, Attached, Stripped, Status, NoTurn

LEMMA AppliedType ==
    ASSUME entry \in Stream, NEW e \in Wire
    PROVE  Applied(e) \in Stream
  <1>1. /\ entry.status \in Status /\ entry.turnId \in Turn \cup {NoTurn}
        /\ entry.shown \in Seq(Wire) /\ e.turn \in Turn \cup {NoTurn}
    BY DEF Stream, Wire
  <1>2. PICK st : st = CASE e.kind = "token" -> "streaming"
                         [] e.kind = "turn_aborted" -> "aborted"
                         [] e.kind = "done" -> IF entry.status = "aborted" THEN entry.status ELSE "done"
                         [] e.kind = "error" -> "error"
                         [] OTHER -> entry.status
    OBVIOUS
  <1>3. st \in Status
    BY <1>1, <1>2 DEF Status
  <1>4. PICK id : id = IF e.kind = "turn_started" THEN e.turn ELSE entry.turnId
    OBVIOUS
  <1>5. PICK sh : sh = IF IsTurnEvent(e) THEN Append(entry.shown, e) ELSE entry.shown
    OBVIOUS
  <1>6. id \in Turn \cup {NoTurn} /\ sh \in Seq(Wire)
    BY <1>1, <1>4, <1>5
  <1>7. Applied(e) = [entry EXCEPT !.status = st, !.turnId = id, !.shown = sh]
    BY <1>2, <1>4, <1>5 DEF Applied
  <1>8. QED
    BY <1>3, <1>6, <1>7 DEF Stream

\* A step of the page that leaves connections at most.
LEMMA ServicePage ==
    ASSUME ServiceInv, UNCHANGED <<registry, handler>>,
           conn' = [c \in Conn |-> conn'[c]],
           \A c \in Conn : conn'[c] = conn[c] \/ conn'[c] = Left(conn[c]),
           entry' \in Stream,
           page' \in [active : Turn \cup {NoTurn}, triggered : Turn \cup {NoTurn}],
           page.active' # NoTurn => registry[page.active'].status # "none"
    PROVE  ServiceInv'
  <1>1. /\ \A c \in Conn : conn'[c] \in Connection /\ ConnOK(conn'[c])
        /\ \A c \in Conn : conn'[c].turn # NoTurn => registry[conn'[c].turn].status # "none"
        /\ \A c \in Conn : conn[c].phase = "open" \/ conn'[c].phase = "open" =>
               /\ conn'[c].phase = conn[c].phase /\ conn'[c].kind = conn[c].kind
               /\ conn'[c].turn = conn[c].turn
    <2>1. PICK q : q = conn'
      OBVIOUS
    <2>2. \A c \in Conn : q[c] = conn[c] \/ q[c] = Left(conn[c])
      BY <2>1
    <2>3. QED
      BY <2>1, <2>2, Given, Leaving
  <1>2. conn' \in [Conn -> Connection]
    BY <1>1
  <1>3. OpenSame
    BY <1>1 DEF OpenSame
  <1>4. HandlerInv' /\ ListenersExact'
    BY <1>3, Given, OpenFrame
  <1>5. QED
    BY <1>1, <1>2, <1>4, Given, Assemble

LEMMA AbortedIs ==
    ASSUME conn' = Aborted
    PROVE  /\ conn' = [c \in Conn |-> conn'[c]]
           /\ \A c \in Conn : conn'[c] = conn[c] \/ conn'[c] = Left(conn[c])
           /\ \A c \in Conn : conn'[c] = IF c = entry.cancel THEN Left(conn[c]) ELSE conn[c]
  BY DEF Aborted

LEMMA ServiceWatchdog ==
    ASSUME ServiceInv, NEW c \in Conn, Watchdog(c)
    PROVE  ServiceInv'
  <1>1. entry' \in Stream
    BY Given, StreamTypes DEF Watchdog, Status
  <1>2. QED
    BY <1>1, Given, AbortedIs, ServicePage DEF Watchdog

LEMMA ServiceStop ==
    ASSUME ServiceInv, Stop
    PROVE  ServiceInv'
  <1>1. entry' \in Stream
    BY Given, StreamTypes DEF Stop, Status
  <1>2. QED
    BY <1>1, Given, AbortedIs, ServicePage DEF Stop

LEMMA ServiceReset ==
    ASSUME ServiceInv, Reset
    PROVE  ServiceInv'
  BY Given, AbortedIs, StreamTypes, ServicePage DEF Reset

LEMMA ServiceRefresh ==
    ASSUME ServiceInv, Refresh
    PROVE  ServiceInv'
  <1>1. /\ conn' = [c \in Conn |-> conn'[c]]
        /\ \A c \in Conn : conn'[c] = conn[c] \/ conn'[c] = Left(conn[c])
    BY DEF Refresh
  <1>2. /\ page' \in [active : Turn \cup {NoTurn}, triggered : Turn \cup {NoTurn}]
        /\ page'.active = NoTurn
    BY DEF Refresh
  <1>3. QED
    BY <1>1, <1>2, Given, StreamTypes, ServicePage DEF Refresh

LEMMA ServiceFetchSession ==
    ASSUME ServiceInv, FetchSession
    PROVE  ServiceInv'
  <1>1. /\ conn' = [c \in Conn |-> conn'[c]]
        /\ \A c \in Conn : conn'[c] = conn[c] \/ conn'[c] = Left(conn[c])
    BY Given DEF FetchSession
  <1>2. /\ page' \in [active : Turn \cup {NoTurn}, triggered : Turn \cup {NoTurn}]
        /\ page'.active # NoTurn => registry[page'.active].status # "none"
    BY Given DEF FetchSession, Running
  <1>3. QED
    BY <1>1, <1>2, Given, ServicePage DEF FetchSession

\* A step that changes one connection, and no open response.
LEMMA ServiceConn ==
    ASSUME ServiceInv, UNCHANGED <<registry, handler>>,
           NEW c \in Conn, NEW k, ConnOK(k), conn' = [conn EXCEPT ![c] = k],
           k.turn # NoTurn => registry[k.turn].status # "none",
           conn[c].phase = "open" \/ k.phase = "open" =>
               k.phase = conn[c].phase /\ k.kind = conn[c].kind /\ k.turn = conn[c].turn,
           entry' \in Stream,
           page' \in [active : Turn \cup {NoTurn}, triggered : Turn \cup {NoTurn}],
           page.active' # NoTurn => registry[page.active'].status # "none"
    PROVE  ServiceInv'
  <1>1. k \in Connection
    BY DEF ConnOK
  <1>2. conn' \in [Conn -> Connection] /\ \A d \in Conn : conn'[d] = IF d = c THEN k ELSE conn[d]
    BY <1>1, Given
  <1>3. \A d \in Conn : ConnOK(conn'[d])
    BY <1>2, Given
  <1>4. \A d \in Conn : conn'[d].turn # NoTurn => registry[conn'[d].turn].status # "none"
    BY <1>2, Given
  <1>5. OpenSame
    BY <1>2 DEF OpenSame
  <1>6. HandlerInv' /\ ListenersExact'
    BY <1>5, Given, OpenFrame
  <1>7. QED
    BY <1>2, <1>3, <1>4, <1>6, Given, Assemble

\* A first attempt, its one retry, and a turn that is sent.
First(t)       == Replay(t, 0, FALSE)
Second(t, from) == Replay(t, from, TRUE)
Sent           == [Free EXCEPT !.kind = "turn", !.phase = "request", !.live = TRUE]

LEMMA SecondOK ==
    ASSUME NEW t \in Turn, NEW from \in Nat, NEW k,
           k = Second(t, from)
    PROVE  /\ ConnOK(k) /\ k.kind = "replay" /\ k.turn = t /\ k.from = from
           /\ k.phase = "request" /\ k.live = TRUE
           /\ k.saw = "nothing" /\ k.wire = <<>>
  <1>1. k = [kind |-> "replay", turn |-> t, from |-> from, retried |-> TRUE,
             phase |-> "request", live |-> TRUE, saw |-> "nothing", wire |-> <<>>]
    BY DEF Replay, Free, Second
  <1>2. <<>> \in Seq(Wire) /\ DOMAIN <<>> = {} /\ t # NoTurn
    BY DEF Turn, NoTurn
  <1>3. k \in Connection
    BY <1>1, <1>2 DEF Connection
  <1>4. QED
    BY <1>1, <1>2, <1>3 DEF ConnOK

LEMMA FirstOK ==
    ASSUME NEW t \in Turn, NEW k, k = First(t)
    PROVE  /\ ConnOK(k) /\ k.kind = "replay" /\ k.turn = t /\ k.from = 0
           /\ k.phase = "request" /\ k.live = TRUE
           /\ k.saw = "nothing" /\ k.wire = <<>>
  <1>1. k = [kind |-> "replay", turn |-> t, from |-> 0, retried |-> FALSE,
             phase |-> "request", live |-> TRUE, saw |-> "nothing", wire |-> <<>>]
    BY DEF Replay, Free, First
  <1>2. <<>> \in Seq(Wire) /\ DOMAIN <<>> = {} /\ t # NoTurn
    BY DEF Turn, NoTurn
  <1>3. k \in Connection
    BY <1>1, <1>2 DEF Connection
  <1>4. QED
    BY <1>1, <1>2, <1>3 DEF ConnOK

LEMMA SendOK ==
    ASSUME NEW k, k = Sent
    PROVE  /\ ConnOK(k) /\ k.kind = "turn" /\ k.turn = NoTurn /\ k.from = 0
           /\ k.phase = "request" /\ k.live = TRUE /\ k.saw = "nothing" /\ k.wire = <<>>
  <1>1. k = [kind |-> "turn", turn |-> NoTurn, from |-> 0, retried |-> FALSE,
             phase |-> "request", live |-> TRUE, saw |-> "nothing", wire |-> <<>>]
    BY DEF Free, Sent
  <1>2. <<>> \in Seq(Wire) /\ DOMAIN <<>> = {}
    OBVIOUS
  <1>3. k \in Connection
    BY <1>1, <1>2 DEF Connection, NoTurn
  <1>4. QED
    BY <1>1, <1>2, <1>3 DEF ConnOK, NoTurn

LEMMA ServiceSend ==
    ASSUME ServiceInv, NEW c \in Conn, Send(c)
    PROVE  ServiceInv'
  <1>1. PICK k : k = Sent
    OBVIOUS
  <1>2. conn[c] = Free /\ conn' = [conn EXCEPT ![c] = k]
    BY <1>1, Given DEF Send, Requests, Sent
  <1>3. entry' \in Stream
    BY StreamTypes DEF Send
  <1>4. ConnOK(k) /\ k.turn = NoTurn /\ k.phase = "request" /\ conn[c].phase # "open"
    BY <1>1, <1>2, FreeIs, SendOK
  <1>5. UNCHANGED <<registry, handler, page>>
    BY DEF Send
  <1>6. /\ page' \in [active : Turn \cup {NoTurn}, triggered : Turn \cup {NoTurn}]
        /\ page.active' # NoTurn => registry[page.active'].status # "none"
    BY <1>5, Given
  <1>7. QED
    BY <1>2, <1>3, <1>4, <1>5, <1>6, ServiceConn

LEMMA ServiceRefuse ==
    ASSUME ServiceInv, NEW c \in Conn, Refuse(c)
    PROVE  ServiceInv'
  <1>1. PICK es \in Seq(Wire) : es = <<Item("failed")>>
    BY EventTypes, Single DEF WireKind
  <1>2. PICK k : k = conn[c]
    OBVIOUS
  <1>3. PICK w : w = Closed(Written(k, es))
    OBVIOUS
  <1>4. ConnOK(k)
    BY <1>2, Given
  <1>5. /\ ConnOK(w) /\ w.phase = "ended"
        /\ ~k.live => w = Free
        /\ k.live => SameLoop(k, w)
    <2>1. \A i \in DOMAIN es : es[i].kind # "ring_overflow"
      BY <1>1, EventTypes, Single DEF WireKind
    <2>2. QED
      BY <1>3, <1>4, <2>1, ClosedWritten
  <1>6. w.turn # NoTurn => registry[w.turn].status # "none"
    BY <1>2, <1>5, Given, FreeIs DEF SameLoop
  <1>7. conn' = [conn EXCEPT ![c] = w]
    BY <1>1, <1>2, <1>3, Given DEF Refuse
  <1>8. QED
    BY <1>5, <1>6, <1>7, Given, ServiceConn DEF Refuse

LEMMA ServiceVanish ==
    ASSUME ServiceInv, NEW c \in Conn, Vanish(c)
    PROVE  ServiceInv'
  BY Given, FreeIs, ServiceConn DEF Vanish

LEMMA ServiceAttach ==
    ASSUME ServiceInv, Attach
    PROVE  ServiceInv'
  <1>1. /\ page' \in [active : Turn \cup {NoTurn}, triggered : Turn \cup {NoTurn}]
        /\ page'.active = page.active /\ page.active \in Turn
    BY Given DEF Attach
  <1>2. CASE UNCHANGED <<conn, entry>>
    <2>1. /\ conn' = [c \in Conn |-> conn'[c]]
          /\ \A c \in Conn : conn'[c] = conn[c] \/ conn'[c] = Left(conn[c])
      BY <1>2, Given
    <2>2. QED
      BY <1>1, <1>2, <2>1, Given, ServicePage DEF Attach
  <1>3. CASE ~ UNCHANGED <<conn, entry>>
    <2>1. PICK c \in Conn : /\ Requests(c)
                            /\ conn' = [conn EXCEPT ![c] = First(page.active)]
                            /\ entry' = Attached(c, page.active)
      BY <1>3 DEF Attach, First
    <2>2. PICK k : k = First(page.active)
      OBVIOUS
    <2>3. ConnOK(k) /\ k.turn = page.active /\ k.phase = "request"
      BY <1>1, <2>2, FirstOK
    <2>4. conn[c] = Free /\ conn' = [conn EXCEPT ![c] = k]
      BY <2>1, <2>2 DEF Requests
    <2>5. entry' \in Stream
      BY <1>1, <2>1, StreamTypes
    <2>6. registry[page.active].status # "none" /\ page.active # NoTurn
      BY <1>1, Given DEF Turn, NoTurn
    <2>7. QED
      BY <1>1, <2>3, <2>4, <2>5, <2>6, Given, FreeIs, ServiceConn DEF Attach
  <1>4. QED
    BY <1>2, <1>3

LEMMA HeadTail ==
    ASSUME NEW S, NEW q \in Seq(S), q # <<>>
    PROVE  /\ Head(q) \in S /\ Head(q) = q[1] /\ 1 \in DOMAIN q
           /\ Tail(q) \in Seq(S) /\ Len(Tail(q)) = Len(q) - 1 /\ Len(q) \in Nat /\ Len(q) >= 1
           /\ \A i \in DOMAIN Tail(q) : /\ i \in Nat /\ i >= 1 /\ i + 1 \in DOMAIN q
                                         /\ Tail(q)[i] = q[i + 1]
           /\ DOMAIN q = 1 .. Len(q) /\ DOMAIN Tail(q) = 1 .. Len(q) - 1
  OBVIOUS

Taken(k, saw) == [k EXCEPT !.wire = Tail(k.wire), !.saw = saw]

\* What the loop makes of its connection when it takes a turn event.
LEMMA TakenOK ==
    ASSUME NEW k, ConnOK(k), k.live, k.wire # <<>>, NEW saw \in {"nothing", "aborted", "done", "error"},
           NEW w, w = Taken(k, saw)
    PROVE  /\ ConnOK(w) /\ w.kind = k.kind /\ w.turn = k.turn /\ w.phase = k.phase
           /\ w.from = k.from /\ w.retried = k.retried /\ w.live = k.live
           /\ w.wire = Tail(k.wire) /\ w.saw = saw
  <1>1. k \in Connection /\ k.wire \in Seq(Wire)
    BY ConnTypes DEF ConnOK
  <1>2. /\ Tail(k.wire) \in Seq(Wire)
        /\ \A i \in DOMAIN Tail(k.wire) : /\ i + 1 \in DOMAIN k.wire
                                           /\ Tail(k.wire)[i] = k.wire[i + 1]
    BY <1>1, HeadTail
  <1>3. w \in Connection
    BY <1>1, <1>2 DEF Connection, Taken
  <1>4. /\ w.kind = k.kind /\ w.turn = k.turn /\ w.phase = k.phase
        /\ w.from = k.from /\ w.retried = k.retried /\ w.live = k.live
    BY <1>1 DEF Connection, Taken
  <1>5. w.wire = Tail(k.wire) /\ w.saw = saw
    BY <1>1 DEF Connection, Taken
  <1>6. k.kind # "free" /\ ~(~k.live \/ k.phase = "request")
    BY LiveIsUsed DEF ConnOK
  <1>7. \A i \in DOMAIN w.wire : ~IsTurnEvent(w.wire[i]) => w.phase = "ended"
    BY <1>2, <1>4, <1>5 DEF ConnOK
  <1>8. \A i \in DOMAIN w.wire : w.wire[i].kind = "ring_overflow" => w.kind = "replay"
    BY <1>2, <1>4, <1>5 DEF ConnOK
  <1>9. QED
    BY <1>3, <1>4, <1>5, <1>6, <1>7, <1>8 DEF ConnOK

LEMMA SawType ==
    ASSUME NEW k \in Connection, NEW e
    PROVE  Saw(k, e) \in {"nothing", "aborted", "done", "error"}
  BY ConnTypes DEF Saw

LEMMA ServiceDeliver ==
    ASSUME ServiceInv, NEW c \in Conn, Deliver(c)
    PROVE  ServiceInv'
  <1>1. PICK k : k = conn[c]
    OBVIOUS
  <1>2. ConnOK(k) /\ k \in Connection /\ k.live /\ k.wire # <<>> /\ k.wire \in Seq(Wire)
    BY <1>1, Given, ConnTypes DEF Deliver, Live, ConnOK
  <1>3. PICK e : e = Head(k.wire)
    OBVIOUS
  <1>4. e \in Wire /\ 1 \in DOMAIN k.wire /\ e = k.wire[1]
    BY <1>2, <1>3, HeadTail
  <1>5. UNCHANGED <<registry, handler, page>>
    BY DEF Deliver
  <1>6. CASE /\ IsTurnEvent(e)
             /\ entry' = Applied(e)
             /\ conn' = [conn EXCEPT ![c].wire = Tail(@), ![c].saw = Saw(k, e)]
    <2>1. PICK saw : saw = Saw(k, e)
      OBVIOUS
    <2>2. saw \in {"nothing", "aborted", "done", "error"}
      BY <1>2, <2>1, SawType
    <2>3. PICK w : w = Taken(k, saw)
      OBVIOUS
    <2>4. ConnOK(w) /\ w.kind = k.kind /\ w.turn = k.turn /\ w.phase = k.phase
      BY <1>2, <2>2, <2>3, TakenOK
    <2>5. conn' = [conn EXCEPT ![c] = w]
      BY <1>1, <1>6, <2>1, <2>3, Given DEF Taken
    <2>6. entry' \in Stream
      BY <1>4, <1>6, Given, AppliedType
    <2>7. QED
      BY <1>1, <1>5, <2>4, <2>5, <2>6, Given, ServiceConn
  <1>7. CASE entry' \in Stream /\ conn' = [conn EXCEPT ![c] = Left(@)]
    <2>1. /\ conn' = [d \in Conn |-> conn'[d]]
          /\ \A d \in Conn : conn'[d] = conn[d] \/ conn'[d] = Left(conn[d])
      BY <1>7, Given
    <2>2. QED
      BY <1>5, <1>7, <2>1, Given, ServicePage
  <1>8. CASE /\ e.kind = "ring_overflow"
             /\ entry' = Idle
             /\ conn' = [conn EXCEPT ![c] = Free]
    <2>1. k.phase = "ended"
      BY <1>2, <1>4, <1>8 DEF ConnOK, IsTurnEvent, TurnKind
    <2>2. QED
      BY <1>1, <1>5, <1>8, <2>1, Given, FreeIs, StreamTypes, ServiceConn
  <1>9. CASE /\ e.kind = "ring_overflow"
             /\ entry' = Attached(c, k.turn)
             /\ conn' = [conn EXCEPT ![c] = Second(k.turn, e.n)]
    <2>1. k.phase = "ended" /\ k.kind = "replay" /\ k.turn # NoTurn
      BY <1>2, <1>4, <1>9 DEF ConnOK, IsTurnEvent, TurnKind
    <2>2. k.turn \in Turn /\ e.n \in Nat
      BY <1>2, <1>4, <2>1, ConnTypes DEF Wire
    <2>3. PICK t \in Turn, n \in Nat : t = k.turn /\ n = e.n
      BY <2>2
    <2> PICK w : w = Second(t, n)
      OBVIOUS
    <2>4. ConnOK(w) /\ w.turn = k.turn /\ w.phase = "request"
      BY <2>3, SecondOK
    <2>5. entry' \in Stream
      BY <1>9, <2>2, StreamTypes
    <2>6. conn' = [conn EXCEPT ![c] = w]
      BY <1>9, <2>3
    <2>7. QED
      BY <1>1, <1>5, <2>1, <2>4, <2>5, <2>6, Given, ServiceConn
  <1>10. ~IsTurnEvent(e) /\ e.kind \in {"eof", "failed"} =>
            entry' \in Stream /\ conn' = [conn EXCEPT ![c] = Left(@)]
    <2>1. \A saw : AtEof(saw) \in Stream
      BY Given, StreamTypes DEF AtEof, Status
    <2>2. [entry EXCEPT !.status = "error"] \in Stream
      BY Given, StreamTypes DEF Status
    <2>3. QED
      BY <1>1, <1>3, <2>1, <2>2, StreamTypes DEF Deliver
  <1>11. e.kind = "ring_overflow" =>
            \/ entry' = Idle /\ conn' = [conn EXCEPT ![c] = Free]
            \/ entry' = Attached(c, k.turn) /\ conn' = [conn EXCEPT ![c] = Second(k.turn, e.n)]
    BY <1>1, <1>3 DEF Deliver, IsTurnEvent, TurnKind, Second
  <1>12. IsTurnEvent(e) =>
            /\ entry' = Applied(e)
            /\ conn' = [conn EXCEPT ![c].wire = Tail(@), ![c].saw = Saw(k, e)]
    BY <1>1, <1>3 DEF Deliver, IsTurnEvent, TurnKind
  <1>13. IsTurnEvent(e) \/ e.kind \in {"eof", "failed", "ring_overflow"}
    BY <1>4 DEF Wire, WireKind, IsTurnEvent
  <1>14. QED
    BY <1>6, <1>7, <1>8, <1>9, <1>10, <1>11, <1>12, <1>13

LEMMA ServiceLeak ==
    ASSUME ServiceInv, NEW t \in Turn, Leak(t)
    PROVE  ServiceInv'
  <1>1. UNCHANGED <<registry, conn, entry, page>>
    BY DEF Leak
  <1>2. handler' \in [Turn -> [response : Conn \cup {NoConn}, stuck : BOOLEAN]]
    BY Given DEF Leak
  <1>3. \A u \in Turn : handler[u].response' = handler[u].response
    BY Given DEF Leak
  <1>4. OpenSame
    BY <1>1 DEF OpenSame
  <1>5. HandlerInv' /\ ListenersExact'
    BY <1>1, <1>3, <1>4, Given, OpenFrame
  <1>6. QED
    BY <1>1, <1>2, <1>5, Given, Assemble

LEMMA ServiceSweep ==
    ASSUME ServiceInv, NEW t \in Turn, Sweep(t)
    PROVE  ServiceInv'
  <1>1. UNCHANGED <<handler, conn, entry, page>>
    BY DEF Sweep
  <1>2. PICK q : q = Deleted(registry[t])
    OBVIOUS
  <1>3. registry[t] \in Entry /\ RingOK(registry[t], t) /\ registry[t].status # "none"
    BY Given DEF Sweep, Running
  <1>4. RingOK(q, t) /\ q \in Entry /\ q.status = "swept" /\ q.listeners = {}
    BY <1>2, <1>3, RingDeleted
  <1>5. registry' = [registry EXCEPT ![t] = q]
    BY <1>2, Given DEF Sweep, Deleted
  <1>6. registry' \in [Turn -> Entry] /\ \A u \in Turn : registry'[u] = IF u = t THEN q ELSE registry[u]
    BY <1>4, <1>5, Given
  <1>7. \A u \in Turn : RingOK(registry'[u], u)
    BY <1>4, <1>6, Given
  <1>8. \A u \in Turn : registry[u].status # "none" => registry'[u].status # "none"
    BY <1>4, <1>6
  <1>9. HandlerInv'
    BY <1>1, <1>4, <1>6, Given DEF HandlerInv
  <1>10. ListenersExact'
    BY <1>1, <1>4, <1>6, Given DEF ListenersExact, Running
  <1>11. \A c \in Conn : conn[c]' = conn[c] /\ conn[c].turn \in Turn \cup {NoTurn}
    BY <1>1, Given, ConnTypes
  <1>12. page.active \in Turn \cup {NoTurn} /\ page' = page
    BY <1>1, Given
  <1>13. QED
    BY <1>1, <1>6, <1>7, <1>8, <1>9, <1>10, <1>11, <1>12, Given, Assemble

LEMMA ReadersOpen ==
    ASSUME ServiceInv, NEW t \in Turn, NEW c \in Readers(t)
    PROVE  /\ c \in Conn /\ conn[c].phase = "open" /\ conn[c].turn = t
           /\ conn[c].kind \in {"turn", "replay"}
  <1>1. registry[t].listeners \subseteq Conn /\ handler[t].response \in Conn \cup {NoConn}
    BY Given DEF Entry
  <1>2. CASE c \in registry[t].listeners
    BY <1>1, <1>2, Given DEF ListenersExact
  <1>3. CASE c \in Conn /\ c = handler[t].response
    BY <1>3, Given DEF HandlerInv
  <1>4. QED
    BY <1>1, <1>2, <1>3 DEF Readers

\* The ring of a turn, and what the end has to do with it.
LEMMA RunningRing ==
    ASSUME ServiceInv, NEW t \in Turn
    PROVE  /\ registry[t] \in Entry /\ RingOK(registry[t], t)
           /\ registry[t].totalEmitted \in Nat /\ registry[t].finishedAt \in Nat
           /\ InPlace(registry[t].events, registry[t].finishedAt) /\ Finish(registry[t])
           /\ registry[t].status # "swept" => Numbered(registry[t], t)
           /\ Running(t) => registry[t].finishedAt = 0 /\ registry[t].status = "running"
  <1>1. registry[t] \in Entry /\ RingOK(registry[t], t)
    BY Given
  <1>2. registry[t].totalEmitted \in Nat /\ registry[t].finishedAt \in Nat
    BY <1>1 DEF Entry
  <1>3. InPlace(registry[t].events, registry[t].finishedAt) /\ Finish(registry[t])
    BY <1>1, RingKept
  <1>4. registry[t].status # "swept" => Numbered(registry[t], t)
    BY <1>1, RingOKIs
  <1>5. Running(t) => registry[t].finishedAt = 0 /\ registry[t].status = "running"
    BY <1>3 DEF Finish, Running
  <1>6. QED
    BY <1>1, <1>2, <1>3, <1>4, <1>5

Emitted(t, k) == <<Event(t, registry[t].totalEmitted, k)>>

LEMMA TokenIs ==
    ASSUME ServiceInv, NEW t \in Turn, NEW k \in {"token", "artifact"}, NEW es, es = Emitted(t, k)
    PROVE  /\ es \in Seq(Wire) /\ Len(es) = 1 /\ Numbering(es, t, registry[t].totalEmitted)
           /\ \A i \in DOMAIN es : IsTurnEvent(es[i]) /\ es[i].kind = k
  <1>1. registry[t].totalEmitted \in Nat
    BY RunningRing
  <1>2. PICK e : e = Event(t, registry[t].totalEmitted, k)
    OBVIOUS
  <1>3. /\ e \in Wire /\ e.turn = t /\ e.n = registry[t].totalEmitted /\ e.kind = k
    BY <1>1, <1>2, EventTypes DEF WireKind, TurnKind
  <1>4. es = <<e>>
    BY <1>2 DEF Emitted
  <1>5. es \in Seq(Wire) /\ Len(es) = 1 /\ es[1] = e /\ DOMAIN es = {1}
    BY <1>3, <1>4, Single
  <1>6. IsTurnEvent(e)
    BY <1>3 DEF IsTurnEvent, TurnKind
  <1>7. Numbering(es, t, registry[t].totalEmitted)
    BY <1>1, <1>3, <1>5, <1>6 DEF Numbering
  <1>8. QED
    BY <1>3, <1>5, <1>6, <1>7

\* What append() leaves of an entry whose turn has not been swept.
LEMMA AppendedIs ==
    ASSUME NEW r \in Entry, NEW t, RingOK(r, t), r.status \notin {"none", "swept"},
           NEW es \in Seq(Wire), Len(es) = 1, Numbering(es, t, r.totalEmitted),
           InPlace(es, r.finishedAt), NEW p, p = Pushed(r, es)
    PROVE  /\ p \in Entry /\ RingOK(p, t)
           /\ p.status = r.status /\ p.listeners = r.listeners /\ p.finishedAt = r.finishedAt
           /\ p.totalEmitted = r.totalEmitted + 1 /\ p.startOffset >= r.startOffset
  <1>1. /\ p \in Entry /\ p.status = r.status /\ p.listeners = r.listeners
        /\ p.finishedAt = r.finishedAt /\ p.totalEmitted = r.totalEmitted + 1
    BY PushedEntry
  <1>2. Numbered(r, t) /\ InPlace(r.events, r.finishedAt) /\ Finish(r)
    BY RingOKIs
  <1>3. Finish(p)
    BY <1>1, <1>2 DEF Finish, Entry
  <1>4. RingOK(p, t)
    BY <1>1, <1>2, <1>3, RingAfter
  <1>5. p.startOffset >= r.startOffset
    BY <1>2, PushedNumbered
  <1>6. QED
    BY <1>1, <1>4, <1>5

\* What Emit does to the registry and the connections.
LEMMA EmitIs ==
    ASSUME ServiceInv, NEW t \in Turn, Emit(t)
    PROVE  \E es \in Seq(Wire), p \in Entry :
             /\ es = Emitted(t, "token")
             /\ p = Pushed(registry[t], es) /\ RingOK(p, t)
             /\ p.status = "running" /\ p.listeners = registry[t].listeners
             /\ p.finishedAt = 0
             /\ p.totalEmitted = registry[t].totalEmitted + 1
             /\ p.startOffset >= registry[t].startOffset
             /\ registry' \in [Turn -> Entry]
             /\ \A u \in Turn : registry'[u] = IF u = t THEN p ELSE registry[u]
             /\ conn' \in [Conn -> Connection]
             /\ \A c \in Conn : conn'[c] = IF c \in Readers(t) THEN Written(conn[c], es)
                                                               ELSE conn[c]
             /\ \A c \in Conn : ConnOK(conn'[c])
             /\ \A c \in Readers(t) : SameLoop(conn[c], conn'[c]) /\ conn'[c].phase = "open"
  <1>1. PICK es : es = Emitted(t, "token")
    OBVIOUS
  <1>2. /\ es \in Seq(Wire) /\ Len(es) = 1 /\ Numbering(es, t, registry[t].totalEmitted)
        /\ \A i \in DOMAIN es : IsTurnEvent(es[i]) /\ es[i].kind = "token"
    BY <1>1, TokenIs
  <1>3. PICK r : r = registry[t]
    OBVIOUS
  <1>4. r \in Entry /\ RingOK(r, t) /\ r.status = "running" /\ r.finishedAt = 0
    BY <1>3, RunningRing DEF Emit
  <1>5. PICK p : p = Pushed(r, es)
    OBVIOUS
  <1>6. InPlace(es, 0)
    BY <1>2 DEF InPlace, Placed
  <1>7. /\ p \in Entry /\ p.status = "running" /\ p.listeners = r.listeners
        /\ p.finishedAt = 0 /\ p.totalEmitted = r.totalEmitted + 1
        /\ RingOK(p, t) /\ p.startOffset >= r.startOffset
    BY <1>2, <1>3, <1>4, <1>5, <1>6, AppendedIs
  <1>9. /\ registry' \in [Turn -> Entry]
        /\ \A u \in Turn : registry'[u] = IF u = t THEN p ELSE registry[u]
    BY <1>1, <1>3, <1>5, <1>7, Given DEF Emit, Emitted
  <1>10. conn' = [c \in Conn |-> IF c \in Readers(t) THEN Written(conn[c], es) ELSE conn[c]]
    BY <1>1 DEF Emit, Emitted
  <1>11. ASSUME NEW c \in Conn
         PROVE  /\ ConnOK(conn'[c]) /\ conn'[c] \in Connection
                /\ c \in Readers(t) => SameLoop(conn[c], conn'[c]) /\ conn'[c].phase = "open"
    <2>1. CASE c \in Readers(t)
      <3>1. PICK k : k = conn[c]
        OBVIOUS
      <3>2. ConnOK(k) /\ k.phase = "open"
        BY <2>1, <3>1, Given, ReadersOpen
      <3>3. PICK w : w = Written(k, es)
        OBVIOUS
      <3>4. ConnOK(w) /\ SameLoop(k, w) /\ w.phase = "open"
        BY <1>2, <3>2, <3>3, WrittenOK
      <3>5. conn'[c] = w
        BY <1>10, <2>1, <3>1, <3>3
      <3>6. w \in Connection
        BY <3>4 DEF ConnOK
      <3>7. QED
        BY <3>1, <3>4, <3>5, <3>6
    <2>2. CASE c \notin Readers(t)
      BY <1>10, <2>2, Given
    <2>3. QED
      BY <2>1, <2>2
  <1>12. conn' \in [Conn -> Connection]
    BY <1>10, <1>11
  <1>13. \A c \in Conn : conn'[c] = IF c \in Readers(t) THEN Written(conn[c], es) ELSE conn[c]
    BY <1>10
  <1>14. \A c \in Readers(t) : SameLoop(conn[c], conn'[c]) /\ conn'[c].phase = "open"
    BY <1>11, ReadersOpen
  <1>15. QED
    BY <1>1, <1>2, <1>3, <1>5, <1>7, <1>9, <1>11, <1>12, <1>13, <1>14

LEMMA ServiceEmit ==
    ASSUME ServiceInv, NEW t \in Turn, Emit(t)
    PROVE  ServiceInv'
  <1>1. UNCHANGED <<handler, entry, page>>
    BY DEF Emit
  <1>2. PICK es \in Seq(Wire), p \in Entry :
             /\ RingOK(p, t)
             /\ p.status = "running" /\ p.listeners = registry[t].listeners
             /\ registry' \in [Turn -> Entry]
             /\ \A u \in Turn : registry'[u] = IF u = t THEN p ELSE registry[u]
             /\ conn' \in [Conn -> Connection]
             /\ \A c \in Conn : conn'[c] = IF c \in Readers(t) THEN Written(conn[c], es)
                                                               ELSE conn[c]
             /\ \A c \in Conn : ConnOK(conn'[c])
             /\ \A c \in Readers(t) : SameLoop(conn[c], conn'[c]) /\ conn'[c].phase = "open"
    BY EmitIs
  <1>3. \A u \in Turn : RingOK(registry'[u], u)
    BY <1>2, Given
  <1>4. \A u \in Turn : /\ registry'[u].status = registry[u].status
                        /\ registry'[u].listeners = registry[u].listeners
    BY <1>2 DEF Emit, Running
  <1>5. \A c \in Conn : /\ conn'[c].turn = conn[c].turn /\ conn'[c].kind = conn[c].kind
                        /\ conn'[c].phase = conn[c].phase
    BY <1>2, ReadersOpen DEF SameLoop
  <1>6. OpenSame
    BY <1>5 DEF OpenSame
  <1>7. HandlerInv' /\ ListenersExact'
    BY <1>1, <1>4, <1>6, Given, OpenFrame
  <1>8. \A c \in Conn : conn'[c].turn # NoTurn => registry'[conn'[c].turn].status # "none"
    <2>1. \A c \in Conn : conn[c].turn \in Turn \cup {NoTurn}
      BY Given, ConnTypes
    <2>2. QED
      BY <1>4, <1>5, <2>1, Given
  <1>9. page'.active # NoTurn => registry'[page'.active].status # "none"
    BY <1>1, <1>4, Given
  <1>10. QED
    BY <1>1, <1>2, <1>3, <1>7, <1>8, <1>9, Given, Assemble

\* What EmitLate does to the registry.
LEMMA LateIs ==
    ASSUME ServiceInv, NEW t \in Turn, EmitLate(t)
    PROVE  \E es \in Seq(Wire), p \in Entry :
             /\ es = Emitted(t, "artifact")
             /\ p = Pushed(registry[t], es) /\ RingOK(p, t)
             /\ p.status = registry[t].status /\ p.listeners = registry[t].listeners
             /\ p.finishedAt = registry[t].finishedAt /\ p.finishedAt > 0
             /\ p.totalEmitted = registry[t].totalEmitted + 1
             /\ p.startOffset >= registry[t].startOffset
             /\ registry' \in [Turn -> Entry]
             /\ \A u \in Turn : registry'[u] = IF u = t THEN p ELSE registry[u]
  <1>1. PICK es : es = Emitted(t, "artifact")
    OBVIOUS
  <1>2. /\ es \in Seq(Wire) /\ Len(es) = 1 /\ Numbering(es, t, registry[t].totalEmitted)
        /\ \A i \in DOMAIN es : es[i].kind = "artifact"
    BY <1>1, TokenIs
  <1>3. PICK r : r = registry[t]
    OBVIOUS
  <1>4. /\ r \in Entry /\ RingOK(r, t) /\ r.status \in {"done", "error"} /\ r.finishedAt > 0
    BY <1>3, RunningRing DEF EmitLate, Finish
  <1>5. PICK p : p = Pushed(r, es)
    OBVIOUS
  <1>6. InPlace(es, r.finishedAt)
    BY <1>2 DEF InPlace, Placed
  <1>7. /\ p \in Entry /\ RingOK(p, t)
        /\ p.status = r.status /\ p.listeners = r.listeners /\ p.finishedAt = r.finishedAt
        /\ p.totalEmitted = r.totalEmitted + 1 /\ p.startOffset >= r.startOffset
    BY <1>2, <1>3, <1>4, <1>5, <1>6, AppendedIs
  <1>8. /\ registry' \in [Turn -> Entry]
        /\ \A u \in Turn : registry'[u] = IF u = t THEN p ELSE registry[u]
    BY <1>1, <1>3, <1>5, <1>7, Given DEF EmitLate, Emitted
  <1>9. QED
    BY <1>1, <1>2, <1>3, <1>4, <1>5, <1>7, <1>8

LEMMA ServiceEmitLate ==
    ASSUME ServiceInv, NEW t \in Turn, EmitLate(t)
    PROVE  ServiceInv'
  <1>1. UNCHANGED <<handler, conn, entry, page>>
    BY DEF EmitLate
  <1>2. PICK p \in Entry :
             /\ RingOK(p, t)
             /\ p.status = registry[t].status /\ p.listeners = registry[t].listeners
             /\ registry' \in [Turn -> Entry]
             /\ \A u \in Turn : registry'[u] = IF u = t THEN p ELSE registry[u]
    BY LateIs
  <1>3. \A u \in Turn : RingOK(registry'[u], u)
    BY <1>2, Given
  <1>4. \A u \in Turn : /\ registry'[u].status = registry[u].status
                        /\ registry'[u].listeners = registry[u].listeners
    BY <1>2
  <1>5. OpenSame
    BY <1>1 DEF OpenSame
  <1>6. HandlerInv' /\ ListenersExact'
    BY <1>1, <1>4, <1>5, Given, OpenFrame
  <1>7. \A c \in Conn : conn'[c].turn # NoTurn => registry'[conn'[c].turn].status # "none"
    <2>1. \A c \in Conn : conn[c].turn \in Turn \cup {NoTurn}
      BY Given, ConnTypes
    <2>2. QED
      BY <1>1, <1>4, <2>1, Given
  <1>8. page'.active # NoTurn => registry'[page'.active].status # "none"
    BY <1>1, <1>4, Given
  <1>9. QED
    BY <1>1, <1>2, <1>3, <1>6, <1>7, <1>8, Given, Assemble

Finished(p, how, m) == [p EXCEPT !.status = IF how = "error" THEN "error" ELSE "done",
                                 !.finishedAt = m, !.listeners = {}]

LEMMA FinishedIs ==
    ASSUME NEW p \in Entry, NEW how, NEW m \in Nat, NEW q, q = Finished(p, how, m)
    PROVE  /\ q \in Entry /\ q.listeners = {} /\ q.finishedAt = m
           /\ q.status = IF how = "error" THEN "error" ELSE "done"
           /\ q.events = p.events /\ q.startOffset = p.startOffset
           /\ q.totalEmitted = p.totalEmitted
  BY DEF Entry, Finished

\* What came before the end does not stand at it or behind it.
LEMMA Before ==
    ASSUME NEW e, e.n \in Nat, Placed(e, 0), NEW m \in Nat, e.n < m
    PROVE  e.kind # "done" /\ Placed(e, m)
  BY DEF Placed

\* What End does to the registry and the connections.
EndEffect(t, how, es, q) ==
    /\ es = Ending(t, how) /\ Numbering(es, t, registry[t].totalEmitted)
    /\ InPlace(es, q.finishedAt) /\ q.finishedAt = q.totalEmitted /\ Len(es) \in 1 .. 2
    /\ RingOK(q, t) /\ q.listeners = {} /\ q.status \in {"done", "error"}
    /\ q.totalEmitted = registry[t].totalEmitted + Len(es)
    /\ q.startOffset >= registry[t].startOffset
    /\ registry' \in [Turn -> Entry]
    /\ \A u \in Turn : registry'[u] = IF u = t THEN q ELSE registry[u]
    /\ conn' \in [Conn -> Connection] /\ \A c \in Conn : ConnOK(conn'[c])
    /\ \A c \in Conn : c \notin Readers(t) => conn'[c] = conn[c]
    /\ \A c \in Readers(t) : conn'[c].phase = "ended"
    /\ \A c \in Readers(t) : ~conn[c].live => conn'[c] = Free
    /\ \A c \in Readers(t) : conn[c].live => SameLoop(conn[c], conn'[c])
    /\ \A c \in Readers(t) : conn[c].live =>
           conn'[c].live = TRUE /\ conn'[c].wire = conn[c].wire \o Last(es)

LEMMA EndIs ==
    ASSUME ServiceInv, NEW t \in Turn, NEW how \in {"done", "aborted", "error"}, End(t, how)
    PROVE  \E es \in Seq(Wire), q \in Entry : EndEffect(t, how, es, q)
  <1>1. PICK es : es = Ending(t, how)
    OBVIOUS
  <1>2. PICK r : r = registry[t]
    OBVIOUS
  <1>3. /\ r \in Entry /\ Numbered(r, t) /\ r.status = "running" /\ r.totalEmitted \in Nat
        /\ InPlace(r.events, 0)
    BY <1>2, RunningRing DEF End
  <1>a. PICK m : m = r.totalEmitted + Len(es)
    OBVIOUS
  <1>4. /\ es \in Seq(Wire) /\ Numbering(es, t, r.totalEmitted) /\ InPlace(es, m)
        /\ Len(es) \in 1 .. 2 /\ m \in Nat /\ m > r.totalEmitted
    <2>1. /\ es \in Seq(Wire) /\ Numbering(es, t, registry[t].totalEmitted)
          /\ InPlace(es, registry[t].totalEmitted + Len(es)) /\ Len(es) \in 1 .. 2
      BY <1>1, <1>2, <1>3, EndingIs
    <2>2. m = registry[t].totalEmitted + Len(es)
      BY <1>2, <1>a
    <2>3. InPlace(es, m)
      BY <2>1, <2>2, Zenon
    <2>4. Numbering(es, t, r.totalEmitted)
      BY <1>2, <2>1, Zenon
    <2>5. m \in Nat /\ m > r.totalEmitted
      <3>1. PICK a, b : a = r.totalEmitted /\ b = Len(es)
        OBVIOUS
      <3>2. a \in Nat /\ b \in 1 .. 2 /\ m = a + b
        BY <1>3, <1>a, <2>1, <3>1
      <3>3. QED
        BY <3>1, <3>2
    <2>6. QED
      BY <2>1, <2>3, <2>4, <2>5
  <1>5. PICK p : p = Pushed(r, es)
    OBVIOUS
  <1>6. p \in Entry /\ p.totalEmitted = m /\ p.startOffset >= r.startOffset
    BY <1>3, <1>4, <1>5, <1>a, PushedEntry, PushedNumbered
  <1>7. PICK q : q = Finished(p, how, m)
    OBVIOUS
  <1>8. /\ q \in Entry /\ q.listeners = {} /\ q.status \in {"done", "error"}
        /\ q.events = p.events /\ q.startOffset = p.startOffset
        /\ q.totalEmitted = p.totalEmitted /\ q.finishedAt = m
    BY <1>4, <1>6, <1>7, FinishedIs
  <1>9. RingOK(q, t)
    <2>1. InPlace(r.events, m)
      <3>1. SUFFICES ASSUME NEW i \in DOMAIN r.events PROVE Placed(r.events[i], m)
        BY DEF InPlace
      <3>2. /\ r.events[i] \in Wire /\ Placed(r.events[i], 0)
            /\ r.events[i].n = r.startOffset + i - 1 /\ i \in 1 .. Len(r.events)
            /\ r.startOffset + Len(r.events) = r.totalEmitted /\ r.startOffset \in Nat
        BY <1>3 DEF InPlace, Numbered, Entry
      <3>3. r.events[i].n \in Nat /\ r.events[i].n < m
        BY <1>3, <1>4, <3>2 DEF Wire
      <3>4. QED
        BY <1>4, <3>2, <3>3, Before
    <2>2. Finish(q)
      BY <1>3, <1>4, <1>6, <1>8 DEF Finish
    <2>3. QED
      BY <1>3, <1>4, <1>5, <1>8, <2>1, <2>2, RingAfter
  <1>10. /\ registry' \in [Turn -> Entry]
         /\ \A u \in Turn : registry'[u] = IF u = t THEN q ELSE registry[u]
    <2>1. registry' = [registry EXCEPT ![t] = 
                           Finished(Pushed(registry[t], Ending(t, how)), how,
                                    registry[t].totalEmitted + Len(Ending(t, how)))]
      BY Given DEF End, Finished
    <2>2. QED
      BY <1>1, <1>2, <1>5, <1>7, <1>8, <1>a, <2>1, Given
  <1>11. PICK es2 : es2 = Last(es)
    OBVIOUS
  <1>12. es2 \in Seq(Wire) /\ \A i \in DOMAIN es2 : es2[i].kind # "ring_overflow"
    <2>1. /\ es2 \in Seq(Wire) /\ Len(es) \in Nat
          /\ DOMAIN es2 = 1 .. Len(es) + 1 /\ DOMAIN es = 1 .. Len(es)
          /\ \A i \in DOMAIN es : es2[i] = es[i]
          /\ es2[Len(es) + 1].kind = "eof"
      BY <1>4, <1>11, LastIs
    <2>2. \A i \in DOMAIN es : es[i].kind # "ring_overflow"
      BY <1>4 DEF Numbering, IsTurnEvent, TurnKind
    <2>3. QED
      BY <2>1, <2>2
  <1>13. conn' = [c \in Conn |-> IF c \in Readers(t) THEN Closed(Written(conn[c], es2)) ELSE conn[c]]
    BY <1>1, <1>11 DEF End, Last
  <1>14. ASSUME NEW c \in Conn
         PROVE  /\ ConnOK(conn'[c]) /\ conn'[c] \in Connection
                /\ c \in Readers(t) =>
                      /\ conn'[c].phase = "ended"
                      /\ ~conn[c].live => conn'[c] = Free
                      /\ conn[c].live => /\ SameLoop(conn[c], conn'[c]) /\ conn'[c].live = TRUE
                                         /\ conn'[c].wire = conn[c].wire \o es2
    <2>1. CASE c \in Readers(t)
      <3>1. PICK k : k = conn[c]
        OBVIOUS
      <3>2. ConnOK(k)
        BY <3>1, Given
      <3>3. PICK w : w = Closed(Written(k, es2))
        OBVIOUS
      <3>4. /\ ConnOK(w) /\ w.phase = "ended"
            /\ ~k.live => w = Free
            /\ k.live => SameLoop(k, w) /\ w.live = TRUE /\ w.wire = k.wire \o es2
        BY <1>12, <3>2, <3>3, ClosedWritten
      <3>5. conn'[c] = w
        BY <1>13, <2>1, <3>1, <3>3
      <3>6. w \in Connection
        BY <3>4 DEF ConnOK
      <3>7. QED
        BY <3>1, <3>4, <3>5, <3>6
    <2>2. CASE c \notin Readers(t)
      BY <1>13, <2>2, Given
    <2>3. QED
      BY <2>1, <2>2
  <1>15. conn' \in [Conn -> Connection]
    BY <1>13, <1>14
  <1>16. \A c \in Conn : c \notin Readers(t) => conn'[c] = conn[c]
    BY <1>13
  <1>17. /\ \A c \in Readers(t) : conn'[c].phase = "ended"
         /\ \A c \in Readers(t) : ~conn[c].live => conn'[c] = Free
         /\ \A c \in Readers(t) : conn[c].live => SameLoop(conn[c], conn'[c])
         /\ \A c \in Readers(t) : conn[c].live =>
                conn'[c].live = TRUE /\ conn'[c].wire = conn[c].wire \o Last(es)
    BY <1>11, <1>14, ReadersOpen
  <1>18. /\ InPlace(es, q.finishedAt) /\ q.finishedAt = q.totalEmitted
         /\ Numbering(es, t, registry[t].totalEmitted)
    BY <1>2, <1>4, <1>6, <1>8
  <1>19. /\ q.totalEmitted = registry[t].totalEmitted + Len(es)
         /\ q.startOffset >= registry[t].startOffset
    BY <1>2, <1>6, <1>8, <1>a
  <1>20. \A c \in Conn : ConnOK(conn'[c])
    BY <1>14
  <1>21. EndEffect(t, how, es, q)
    BY <1>1, <1>4, <1>8, <1>9, <1>10, <1>15, <1>16, <1>17, <1>18, <1>19, <1>20 DEF EndEffect
  <1>22. QED
    BY <1>4, <1>8, <1>21

LEMMA ServiceEnd ==
    ASSUME ServiceInv, NEW t \in Turn, NEW how \in {"done", "aborted", "error"}, End(t, how)
    PROVE  ServiceInv'
  <1>1. UNCHANGED <<entry, page>> /\ handler' = [handler EXCEPT ![t].response = NoConn]
    BY DEF End
  <1>a. PICK es \in Seq(Wire), q \in Entry : EndEffect(t, how, es, q)
    BY EndIs
  <1>2. /\ RingOK(q, t) /\ q.listeners = {} /\ q.status \in {"done", "error"}
        /\ registry' \in [Turn -> Entry]
        /\ \A u \in Turn : registry'[u] = IF u = t THEN q ELSE registry[u]
        /\ conn' \in [Conn -> Connection]
        /\ \A c \in Conn : c \notin Readers(t) => conn'[c] = conn[c]
        /\ \A c \in Conn : ConnOK(conn'[c])
        /\ \A c \in Readers(t) :
               /\ conn'[c].phase = "ended"
               /\ ~conn[c].live => conn'[c] = Free
               /\ conn[c].live => SameLoop(conn[c], conn'[c])
    BY <1>a DEF EndEffect
  <1>3. \A u \in Turn : RingOK(registry'[u], u)
    BY <1>2, Given
  <1>4. \A u \in Turn : registry[u].status # "none" => registry'[u].status # "none"
    BY <1>2
  <1>5. \A c \in Conn : conn[c].turn \in Turn \cup {NoTurn}
    BY Given, ConnTypes
  <1>6. \A c \in Conn : conn'[c].turn = conn[c].turn \/ conn'[c].turn = NoTurn
    BY <1>2, FreeIs DEF SameLoop
  <1>7. \A c \in Conn : conn'[c].turn # NoTurn => registry'[conn'[c].turn].status # "none"
    BY <1>4, <1>5, <1>6, Given
  <1>8. /\ handler' \in [Turn -> [response : Conn \cup {NoConn}, stuck : BOOLEAN]]
        /\ \A u \in Turn : handler'[u].response = IF u = t THEN NoConn ELSE handler[u].response
    BY <1>1, Given
  <1>9. HandlerInv'
    <2>1. SUFFICES ASSUME NEW u \in Turn, NEW c \in Conn, handler'[u].response = c
                   PROVE  /\ conn'[c].kind = "turn" /\ conn'[c].phase = "open" /\ conn'[c].turn = u
                          /\ registry'[u].status \notin {"done", "error"}
      BY DEF HandlerInv
    <2>2. u # t /\ handler[u].response = c
      BY <1>8, <2>1, StreamReplayAssumption
    <2>3. /\ conn[c].kind = "turn" /\ conn[c].phase = "open" /\ conn[c].turn = u
          /\ registry[u].status \notin {"done", "error"}
      BY <2>2, Given DEF HandlerInv
    <2>4. c \notin Readers(t)
      BY <2>2, <2>3, ReadersOpen
    <2>5. QED
      BY <1>2, <2>2, <2>3, <2>4
  <1>10. ListenersExact'
    <2>1. SUFFICES ASSUME NEW u \in Turn
                   PROVE  registry'[u].listeners =
                            {c \in Conn : /\ conn'[c].kind = "replay" /\ conn'[c].phase = "open"
                                          /\ conn'[c].turn = u /\ registry'[u].status = "running"}
      BY DEF ListenersExact, Running
    <2>2. CASE u = t
      BY <1>2, <2>2
    <2>3. CASE u # t
      <3>1. registry'[u] = registry[u]
        BY <1>2, <2>3
      <3>2. \A c \in Conn : conn[c].turn = u => conn'[c] = conn[c]
        BY <1>2, <2>3, ReadersOpen
      <3>3. \A c \in Conn : conn'[c].turn = u => conn[c].turn = u
        BY <1>6 DEF Turn, NoTurn
      <3>4. QED
        BY <3>1, <3>2, <3>3, Given DEF ListenersExact, Running
    <2>4. QED
      BY <2>2, <2>3
  <1>11. page'.active # NoTurn => registry'[page'.active].status # "none"
    <2>1. page.active \in Turn \cup {NoTurn}
      BY Given
    <2>2. QED
      BY <1>1, <1>4, <2>1, Given
  <1>12. QED
    BY <1>1, <1>2, <1>3, <1>7, <1>8, <1>9, <1>10, <1>11, Given, Assemble

LEMMA SameEntry ==
    ASSUME NEW r \in Entry, NEW v \in Entry,
           v.status = r.status, v.events = r.events, v.startOffset = r.startOffset,
           v.totalEmitted = r.totalEmitted, v.finishedAt = r.finishedAt,
           v.listeners = r.listeners
    PROVE  v = r
  BY DEF Entry

\* A response that ends because its client or its proxy has gone.
LEMMA ServiceGone ==
    ASSUME ServiceInv, NEW c \in Conn, conn[c].phase = "open", Unsubscribed(c),
           NEW w, ConnOK(w), w.phase = "ended", w.turn \in {NoTurn, conn[c].turn},
           conn' = [conn EXCEPT ![c] = w], UNCHANGED <<entry, page>>
    PROVE  ServiceInv'
  <1>1. w \in Connection
    BY DEF ConnOK
  <1>2. /\ conn' \in [Conn -> Connection]
        /\ \A d \in Conn : conn'[d] = IF d = c THEN w ELSE conn[d]
    BY <1>1, Given
  <1>3. \A t \in Turn : registry[t] \in Entry
    BY Given
  <1>4. registry' = [t \in Turn |-> [registry[t] EXCEPT !.listeners = @ \ {c}]]
    BY DEF Unsubscribed
  <1>5. ASSUME NEW t \in Turn
        PROVE  /\ registry'[t] \in Entry /\ registry'[t].events = registry[t].events
               /\ registry'[t].startOffset = registry[t].startOffset
               /\ registry'[t].totalEmitted = registry[t].totalEmitted
               /\ registry'[t].finishedAt = registry[t].finishedAt
               /\ registry'[t].status = registry[t].status
               /\ registry'[t].listeners = registry[t].listeners \ {c}
    <2>1. PICK r \in Entry : r = registry[t]
      BY <1>3
    <2>2. registry'[t] = [r EXCEPT !.listeners = r.listeners \ {c}]
      BY <1>4, <2>1
    <2>3. r.listeners \ {c} \subseteq Conn
      BY DEF Entry
    <2>4. registry'[t] \in Entry
      BY <2>2, <2>3 DEF Entry
    <2>5. QED
      BY <2>1, <2>2, <2>4 DEF Entry
  <1>6. registry' \in [Turn -> Entry]
    BY <1>4, <1>5
  <1>7. \A t \in Turn : registry[t].status = "none" => registry[t].listeners = {}
    BY Given DEF RingOK, NoEntry
  <1>8. \A t \in Turn : RingOK(registry'[t], t)
    <2>1. TAKE t \in Turn
    <2>2. RingOK(registry[t], t)
      BY Given
    <2>3. registry[t].status = "none" => registry'[t] = NoEntry
      <3>1. registry[t].status = "none" => registry[t] = NoEntry /\ registry[t].listeners = {}
        BY <1>7, <2>2 DEF RingOK
      <3>2. registry[t] \in Entry
        BY <1>3
      <3>3. registry[t].listeners = {} => registry'[t] = registry[t]
        BY <1>5, <3>2, SameEntry
      <3>4. QED
        BY <3>1, <3>3
    <2>4. QED
      BY <1>5, <2>2, <2>3 DEF RingOK
  <1>9. /\ handler' \in [Turn -> [response : Conn \cup {NoConn}, stuck : BOOLEAN]]
        /\ \A t \in Turn : handler'[t].response = IF handler[t].response = c THEN NoConn
                                                   ELSE handler[t].response
    BY Given DEF Unsubscribed
  <1>10. HandlerInv'
    BY <1>2, <1>5, <1>9, StreamReplayAssumption, Given DEF HandlerInv
  <1>11. ListenersExact'
    <2>1. SUFFICES ASSUME NEW t \in Turn
                   PROVE  registry'[t].listeners =
                            {d \in Conn : /\ conn'[d].kind = "replay" /\ conn'[d].phase = "open"
                                          /\ conn'[d].turn = t /\ registry'[t].status = "running"}
      BY DEF ListenersExact, Running
    <2>2. registry[t].listeners =
            {d \in Conn : /\ conn[d].kind = "replay" /\ conn[d].phase = "open"
                          /\ conn[d].turn = t /\ registry[t].status = "running"}
      BY Given DEF ListenersExact, Running
    <2>3. QED
      BY <1>2, <1>5, <2>2
  <1>12. \A d \in Conn : conn[d].turn \in Turn \cup {NoTurn}
    BY Given, ConnTypes
  <1>13. \A d \in Conn : conn'[d].turn # NoTurn => registry'[conn'[d].turn].status # "none"
    BY <1>2, <1>5, <1>12, Given
  <1>14. \A d \in Conn : ConnOK(conn'[d])
    BY <1>2, Given
  <1>15. page.active \in Turn \cup {NoTurn}
    BY Given
  <1>16. QED
    BY <1>2, <1>5, <1>6, <1>8, <1>9, <1>10, <1>11, <1>13, <1>14, <1>15, Given, Assemble

LEMMA ServiceHangup ==
    ASSUME ServiceInv, NEW c \in Conn, Hangup(c)
    PROVE  ServiceInv'
  BY FreeIs, ServiceGone DEF Hangup

LEMMA ServiceBreak ==
    ASSUME ServiceInv, NEW c \in Conn, NEW how \in {"eof", "failed"}, Break(c, how)
    PROVE  ServiceInv'
  <1>1. PICK k : k = conn[c]
    OBVIOUS
  <1>2. ConnOK(k)
    BY <1>1, Given
  <1>3. PICK w : w = Broken(k, how)
    OBVIOUS
  <1>4. /\ ConnOK(w) /\ w.phase = "ended"
        /\ ~k.live => w = Free
        /\ k.live => SameLoop(k, w)
    BY <1>2, <1>3, BrokenOK
  <1>5. w.turn \in {NoTurn, conn[c].turn}
    BY <1>1, <1>4, FreeIs DEF SameLoop
  <1>6. conn' = [conn EXCEPT ![c] = w]
    BY <1>1, <1>3 DEF Break
  <1>7. QED
    BY <1>4, <1>5, <1>6, ServiceGone DEF Break

LEMMA ServiceRestart ==
    ASSUME ServiceInv, NEW how \in {"eof", "failed"}, Restart(how)
    PROVE  ServiceInv'
  <1>1. /\ registry' = [t \in Turn |-> IF registry[t].status = "none" THEN registry[t]
                                                                     ELSE Deleted(registry[t])]
        /\ handler' = [t \in Turn |-> [response |-> NoConn, stuck |-> FALSE]]
        /\ conn' = [c \in Conn |-> IF conn[c].phase = "open" THEN Broken(conn[c], how)
                                                             ELSE conn[c]]
        /\ UNCHANGED <<entry, page>>
    BY DEF Restart, Deleted
  <1>2. ASSUME NEW t \in Turn
        PROVE  /\ registry'[t] \in Entry /\ RingOK(registry'[t], t)
               /\ registry[t].status # "none" => registry'[t].status # "none"
               /\ registry'[t].status # "running" /\ registry'[t].listeners = {}
    <2>1. PICK r : r = registry[t]
      OBVIOUS
    <2>2. r \in Entry /\ RingOK(r, t)
      BY <2>1, Given
    <2>3. CASE r.status = "none"
      BY <1>1, <2>1, <2>2, <2>3 DEF RingOK, NoEntry
    <2>4. CASE r.status # "none"
      <3>1. PICK q : q = Deleted(r)
        OBVIOUS
      <3>2. RingOK(q, t) /\ q \in Entry /\ q.status = "swept" /\ q.listeners = {}
        BY <2>2, <2>4, <3>1, RingDeleted
      <3>3. registry'[t] = q
        BY <1>1, <2>1, <2>4, <3>1
      <3>4. QED
        BY <3>2, <3>3
    <2>5. QED
      BY <2>3, <2>4
  <1>3. ASSUME NEW c \in Conn
        PROVE  /\ ConnOK(conn'[c]) /\ conn'[c] \in Connection /\ conn'[c].phase # "open"
               /\ conn'[c].turn \in {NoTurn, conn[c].turn}
    <2>1. PICK k : k = conn[c]
      OBVIOUS
    <2>2. ConnOK(k)
      BY <2>1, Given
    <2>3. CASE k.phase # "open"
      BY <1>1, <2>1, <2>2, <2>3 DEF ConnOK
    <2>4. CASE k.phase = "open"
      <3>1. PICK w : w = Broken(k, how)
        OBVIOUS
      <3>2. /\ ConnOK(w) /\ w.phase = "ended"
            /\ ~k.live => w = Free
            /\ k.live => SameLoop(k, w)
        BY <2>2, <3>1, BrokenOK
      <3>3. conn'[c] = w
        BY <1>1, <2>1, <2>4, <3>1
      <3>4. QED
        BY <2>1, <3>2, <3>3, FreeIs DEF SameLoop, ConnOK
    <2>5. QED
      BY <2>3, <2>4
  <1>4. registry' \in [Turn -> Entry] /\ conn' \in [Conn -> Connection]
    BY <1>1, <1>2, <1>3
  <1>5. handler' \in [Turn -> [response : Conn \cup {NoConn}, stuck : BOOLEAN]]
    BY <1>1
  <1>6. HandlerInv'
    BY <1>1, StreamReplayAssumption DEF HandlerInv
  <1>7. ListenersExact'
    BY <1>2 DEF ListenersExact, Running
  <1>8. \A c \in Conn : conn[c].turn \in Turn \cup {NoTurn}
    BY Given, ConnTypes
  <1>9. \A c \in Conn : conn'[c].turn # NoTurn => registry'[conn'[c].turn].status # "none"
    BY <1>2, <1>3, <1>8, Given
  <1>10. page.active \in Turn \cup {NoTurn}
    BY Given
  <1>11. QED
    BY <1>1, <1>2, <1>3, <1>4, <1>5, <1>6, <1>7, <1>9, <1>10, Given, Assemble

Started(t)   == <<Event(t, 0, "turn_started")>>
Registered   == [NoEntry EXCEPT !.status = "running"]
Opened(k)    == [k EXCEPT !.phase = "open"]
OpenedFor(k, t) == [k EXCEPT !.phase = "open", !.turn = t]

LEMMA StartedIs ==
    ASSUME NEW t \in Turn, NEW es, es = Started(t)
    PROVE  /\ es \in Seq(Wire) /\ Len(es) = 1 /\ Numbering(es, t, 0)
           /\ \A i \in DOMAIN es : IsTurnEvent(es[i]) /\ es[i].kind # "done"
  <1>1. PICK e : e = Event(t, 0, "turn_started")
    OBVIOUS
  <1>2. /\ e \in Wire /\ e.turn = t /\ e.n = 0 /\ e.kind = "turn_started"
    BY <1>1, EventTypes DEF WireKind, TurnKind
  <1>3. es = <<e>>
    BY <1>1 DEF Started
  <1>4. es \in Seq(Wire) /\ Len(es) = 1 /\ es[1] = e /\ DOMAIN es = {1}
    BY <1>2, <1>3, Single
  <1>5. IsTurnEvent(e)
    BY <1>2 DEF IsTurnEvent, TurnKind
  <1>6. Numbering(es, t, 0)
    BY <1>2, <1>4, <1>5 DEF Numbering
  <1>7. QED
    BY <1>2, <1>4, <1>5, <1>6

LEMMA RegisteredIs ==
    ASSUME NEW t, NEW r, r = Registered
    PROVE  /\ r \in Entry /\ r.status = "running" /\ r.listeners = {}
           /\ r.totalEmitted = 0 /\ r.startOffset = 0 /\ r.events = <<>>
           /\ Numbered(r, t) /\ InPlace(r.events, 0) /\ r.finishedAt = 0
  <1>1. <<>> \in Seq(Wire) /\ Len(<<>>) = 0 /\ DOMAIN <<>> = {}
    OBVIOUS
  <1>2. r = [status |-> "running", events |-> <<>>, startOffset |-> 0, totalEmitted |-> 0,
             finishedAt |-> 0, listeners |-> {}]
    BY DEF Registered, NoEntry
  <1>3. r \in Entry
    BY <1>1, <1>2 DEF Entry
  <1>4. QED
    BY <1>1, <1>2, <1>3 DEF Numbered, InPlace

LEMMA OpenedOK ==
    ASSUME NEW k, ConnOK(k), k.phase = "request", k.kind # "free", NEW w,
           \/ w = Opened(k)
           \/ \E t \in Turn : w = OpenedFor(k, t) /\ w.turn = t
    PROVE  /\ ConnOK(w) /\ w.phase = "open" /\ w.kind = k.kind /\ w.live = k.live
           /\ w.wire = <<>> /\ w.from = k.from /\ w.saw = k.saw
           /\ w = Opened(k) => w.turn = k.turn
  <1>1. k \in Connection /\ k.wire = <<>>
    BY DEF ConnOK
  <1>2. DOMAIN <<>> = {}
    OBVIOUS
  <1>3. CASE w = Opened(k)
    <2>1. w \in Connection
      BY <1>1, <1>3 DEF Opened, Connection
    <2>2. /\ w.phase = "open" /\ w.kind = k.kind /\ w.live = k.live
          /\ w.wire = <<>> /\ w.from = k.from /\ w.saw = k.saw /\ w.turn = k.turn
      BY <1>1, <1>3 DEF Opened, Connection
    <2>3. ConnOK(w)
      BY <1>1, <1>2, <2>1, <2>2 DEF ConnOK
    <2>4. QED
      BY <2>2, <2>3
  <1>4. CASE w # Opened(k)
    <2>1. PICK t \in Turn : w = OpenedFor(k, t)
      BY <1>4
    <2>2. w \in Connection
      BY <1>1, <2>1 DEF OpenedFor, Connection
    <2>3. /\ w.phase = "open" /\ w.kind = k.kind /\ w.live = k.live
          /\ w.wire = <<>> /\ w.from = k.from /\ w.saw = k.saw
      BY <1>1, <2>1 DEF OpenedFor, Connection
    <2>4. w.turn = t /\ t # NoTurn
      <3>1. w.turn = t
        BY <1>1, <2>1 DEF OpenedFor, Connection
      <3>2. t # NoTurn
        BY DEF Turn, NoTurn
      <3>3. QED
        BY <3>1, <3>2
    <2>5. ConnOK(w)
      BY <1>1, <1>2, <2>2, <2>3, <2>4 DEF ConnOK
    <2>6. QED
      BY <1>4, <2>3, <2>5
  <1>5. QED
    BY <1>3, <1>4

\* What Accept does: turn t, which nobody knows yet, begins.
AcceptEffect(c, t, es, p, w) ==
    /\ conn[c].kind = "turn" /\ conn[c].phase = "request"
    /\ registry[t].status = "none"
    /\ es = Started(t) /\ Len(es) = 1 /\ Numbering(es, t, 0)
    /\ RingOK(p, t) /\ p.status = "running" /\ p.listeners = {} /\ p.totalEmitted = 1
    /\ p.finishedAt = 0
    /\ registry' = [registry EXCEPT ![t] = p]
    /\ ConnOK(w) /\ w.kind = "turn" /\ w.turn = t /\ w.phase = "open"
    /\ w.live = conn[c].live /\ w.from = conn[c].from /\ w.saw = conn[c].saw
    /\ conn[c].live => w.wire = <<>> \o es
    /\ conn' = [conn EXCEPT ![c] = w]
    /\ handler' = [handler EXCEPT ![t].response = c]

LEMMA AcceptIs ==
    ASSUME ServiceInv, NEW c \in Conn, Accept(c)
    PROVE  \E t \in Turn, es \in Seq(Wire), p \in Entry, w \in Connection :
               AcceptEffect(c, t, es, p, w)
  <1>1. PICK t \in Turn :
            /\ conn[c].kind = "turn" /\ conn[c].phase = "request"
            /\ registry[t].status = "none"
            /\ registry' = [registry EXCEPT ![t] = Pushed(Registered, Started(t))]
            /\ conn' = [conn EXCEPT ![c] = Written(OpenedFor(conn[c], t), Started(t))]
            /\ handler' = [handler EXCEPT ![t].response = c]
    BY Given DEF Accept, Registered, Started, OpenedFor
  <1>2. PICK es : es = Started(t)
    OBVIOUS
  <1>3. /\ es \in Seq(Wire) /\ Len(es) = 1 /\ Numbering(es, t, 0)
        /\ \A i \in DOMAIN es : IsTurnEvent(es[i]) /\ es[i].kind # "done"
    BY <1>2, StartedIs
  <1>4. PICK r : r = Registered
    OBVIOUS
  <1>5. /\ r \in Entry /\ r.status = "running" /\ r.listeners = {} /\ r.totalEmitted = 0
        /\ Numbered(r, t) /\ InPlace(r.events, 0) /\ r.finishedAt = 0
    BY <1>4, RegisteredIs
  <1>6. PICK p : p = Pushed(r, es)
    OBVIOUS
  <1>7. /\ p \in Entry /\ p.status = "running" /\ p.listeners = {} /\ p.totalEmitted = 1
        /\ p.finishedAt = 0
    <2>1. /\ p \in Entry /\ p.status = r.status /\ p.listeners = r.listeners
          /\ p.finishedAt = r.finishedAt /\ p.totalEmitted = r.totalEmitted + Len(es)
      BY <1>3, <1>5, <1>6, PushedEntry
    <2>2. QED
      BY <1>3, <1>5, <2>1
  <1>8. Numbering(es, t, r.totalEmitted)
    BY <1>3, <1>5
  <1>9. RingOK(p, t)
    <2>1. InPlace(es, 0)
      BY <1>3 DEF InPlace, Placed
    <2>2. Finish(p)
      BY <1>7 DEF Finish
    <2>3. QED
      BY <1>3, <1>5, <1>6, <1>7, <1>8, <2>1, <2>2, RingAfter
  <1>10. PICK k : k = conn[c]
    OBVIOUS
  <1>11. ConnOK(k) /\ k.phase = "request" /\ k.kind = "turn" /\ k \in Connection
    BY <1>1, <1>10, Given
  <1>12. PICK v : v = OpenedFor(k, t)
    OBVIOUS
  <1>13. v.turn = t
    BY <1>11, <1>12 DEF OpenedFor, Connection
  <1>14. /\ ConnOK(v) /\ v.phase = "open" /\ v.kind = "turn" /\ v.live = k.live
         /\ v.wire = <<>> /\ v.from = k.from /\ v.saw = k.saw
    BY <1>11, <1>12, <1>13, OpenedOK
  <1>15. PICK w : w = Written(v, es)
    OBVIOUS
  <1>16. /\ ConnOK(w) /\ SameLoop(v, w) /\ w.phase = "open" /\ w.live = v.live
         /\ v.live => w.wire = v.wire \o es
    BY <1>3, <1>14, <1>15, WrittenOK
  <1>17. /\ registry' = [registry EXCEPT ![t] = p]
         /\ conn' = [conn EXCEPT ![c] = w]
    BY <1>1, <1>2, <1>4, <1>6, <1>10, <1>12, <1>15
  <1>18. /\ w.kind = "turn" /\ w.turn = t /\ w.live = k.live /\ w.from = k.from /\ w.saw = k.saw
         /\ k.live => w.wire = <<>> \o es
    BY <1>13, <1>14, <1>16 DEF SameLoop
  <1>19. AcceptEffect(c, t, es, p, w)
    BY <1>1, <1>2, <1>3, <1>7, <1>9, <1>10, <1>16, <1>17, <1>18 DEF AcceptEffect
  <1>20. w \in Connection
    BY <1>16 DEF ConnOK
  <1>21. QED
    BY <1>3, <1>7, <1>19, <1>20

LEMMA ServiceAccept ==
    ASSUME ServiceInv, NEW c \in Conn, Accept(c)
    PROVE  ServiceInv'
  <1>1. PICK t \in Turn, es \in Seq(Wire), p \in Entry, w \in Connection :
            AcceptEffect(c, t, es, p, w)
    BY AcceptIs
  <1>2. UNCHANGED <<entry, page>>
    BY DEF Accept
  <1>3. /\ conn[c].kind = "turn" /\ conn[c].phase = "request" /\ registry[t].status = "none"
        /\ RingOK(p, t) /\ p.status = "running" /\ p.listeners = {}
        /\ ConnOK(w) /\ w.kind = "turn" /\ w.turn = t /\ w.phase = "open"
    BY <1>1 DEF AcceptEffect
  <1>4. /\ registry' \in [Turn -> Entry]
        /\ \A u \in Turn : registry'[u] = IF u = t THEN p ELSE registry[u]
        /\ conn' \in [Conn -> Connection]
        /\ \A d \in Conn : conn'[d] = IF d = c THEN w ELSE conn[d]
        /\ handler' \in [Turn -> [response : Conn \cup {NoConn}, stuck : BOOLEAN]]
        /\ \A u \in Turn : handler'[u].response = IF u = t THEN c ELSE handler[u].response
    BY <1>1, Given DEF AcceptEffect
  <1>5. \A u \in Turn : RingOK(registry'[u], u)
    BY <1>3, <1>4, Given
  <1>6. \A d \in Conn : ConnOK(conn'[d])
    BY <1>3, <1>4, Given
  <1>7. \A d \in Conn : conn[d].turn \in Turn \cup {NoTurn} /\ conn[d].turn # t
    BY <1>3, Given, ConnTypes DEF Turn, NoTurn
  <1>8. \A d \in Conn : conn'[d].turn # NoTurn => registry'[conn'[d].turn].status # "none"
    BY <1>3, <1>4, <1>7, Given
  <1>9. HandlerInv'
    BY <1>3, <1>4, Given DEF HandlerInv
  <1>10. ListenersExact'
    <2>1. SUFFICES ASSUME NEW u \in Turn
                   PROVE  registry'[u].listeners =
                            {d \in Conn : /\ conn'[d].kind = "replay" /\ conn'[d].phase = "open"
                                          /\ conn'[d].turn = u /\ registry'[u].status = "running"}
      BY DEF ListenersExact, Running
    <2>2. registry[u].listeners =
            {d \in Conn : /\ conn[d].kind = "replay" /\ conn[d].phase = "open"
                          /\ conn[d].turn = u /\ registry[u].status = "running"}
      BY Given DEF ListenersExact, Running
    <2>3. CASE u = t
      BY <1>3, <1>4, <1>7, <2>3
    <2>4. CASE u # t
      BY <1>3, <1>4, <2>2, <2>4
    <2>5. QED
      BY <2>3, <2>4
  <1>11. page'.active # NoTurn => registry'[page'.active].status # "none"
    <2>1. page.active \in Turn \cup {NoTurn}
      BY Given
    <2>2. QED
      BY <1>2, <1>3, <1>4, <2>1, Given
  <1>12. QED
    BY <1>2, <1>4, <1>5, <1>6, <1>8, <1>9, <1>10, <1>11, Given, Assemble

Overflow(n) == <<Event(NoTurn, n, "ring_overflow")>>

LEMMA OverflowIs ==
    ASSUME NEW n \in Nat, NEW es, es = Overflow(n)
    PROVE  /\ es \in Seq(Wire) /\ Len(es) = 1 /\ DOMAIN es = {1}
           /\ es[1].kind = "ring_overflow" /\ es[1].n = n
  <1>1. PICK e : e = Event(NoTurn, n, "ring_overflow")
    OBVIOUS
  <1>2. e \in Wire /\ e.n = n /\ e.kind = "ring_overflow"
    BY <1>1, EventTypes DEF WireKind
  <1>3. es = <<e>>
    BY <1>1 DEF Overflow
  <1>4. QED
    BY <1>2, <1>3, Single

LEMMA FailedIs ==
    ASSUME NEW es, es = <<Item("failed")>>
    PROVE  es \in Seq(Wire) /\ Len(es) = 1 /\ DOMAIN es = {1} /\ es[1].kind = "failed"
  <1>1. PICK e : e = Item("failed")
    OBVIOUS
  <1>2. e \in Wire /\ e.kind = "failed"
    BY <1>1, EventTypes DEF WireKind
  <1>3. es = <<e>>
    BY <1>1
  <1>4. QED
    BY <1>2, <1>3, Single

\* The answers of the replay endpoint that end at once.
Answers(r, from, es) ==
    \/ es = <<Item("failed")>>
    \/ es = Overflow(r.startOffset) /\ from < r.startOffset
    \/ /\ es = Last(Suffix(r, from)) /\ from >= r.startOffset
       /\ r.status \in {"done", "error"}

LEMMA AnswersType ==
    ASSUME NEW r \in Entry, NEW t, RingOK(r, t), NEW from \in Nat, NEW es, Answers(r, from, es)
    PROVE  es \in Seq(Wire)
  <1>1. r.startOffset \in Nat
    BY DEF Entry
  <1>2. CASE es = <<Item("failed")>>
    BY <1>2, FailedIs
  <1>3. CASE es = Overflow(r.startOffset)
    BY <1>1, <1>3, OverflowIs
  <1>4. CASE /\ es = Last(Suffix(r, from)) /\ from >= r.startOffset
             /\ r.status \in {"done", "error"}
    <2>1. PICK x : x = Suffix(r, from)
      OBVIOUS
    <2>2. x \in Seq(Wire)
      BY <1>4, <2>1, SuffixIs
    <2>3. QED
      BY <1>4, <2>1, <2>2, LastIs
  <1>5. QED
    BY <1>2, <1>3, <1>4 DEF Answers

AnswerEffect(c, es, w) ==
    /\ Answers(registry[conn[c].turn], conn[c].from, es)
    /\ UNCHANGED registry /\ conn' = [conn EXCEPT ![c] = w]
    /\ ConnOK(w) /\ w.phase = "ended"
    /\ ~conn[c].live => w = Free
    /\ conn[c].live => SameLoop(conn[c], w) /\ w.live = TRUE /\ w.wire = <<>> \o es

StreamEffect(c, t, es, q, w) ==
    /\ registry[t].status = "running" /\ conn[c].from >= registry[t].startOffset
    /\ es = Suffix(registry[t], conn[c].from)
    /\ registry' = [registry EXCEPT ![t] = q]
    /\ RingOK(q, t) /\ q.status = "running" /\ q.listeners = registry[t].listeners \cup {c}
    /\ q.startOffset = registry[t].startOffset /\ q.totalEmitted = registry[t].totalEmitted
    /\ q.finishedAt = registry[t].finishedAt
    /\ conn' = [conn EXCEPT ![c] = w]
    /\ ConnOK(w) /\ SameLoop(conn[c], w) /\ w.phase = "open" /\ w.live = conn[c].live
    /\ conn[c].live => w.wire = <<>> \o es

\* What Serve does: it answers, or it subscribes.
LEMMA ServeIs ==
    ASSUME ServiceInv, NEW c \in Conn, Serve(c)
    PROVE  /\ conn[c].kind = "replay" /\ conn[c].phase = "request" /\ conn[c].turn \in Turn
           /\ \E es \in Seq(Wire), w \in Connection :
                  \/ AnswerEffect(c, es, w)
                  \/ \E q \in Entry : StreamEffect(c, conn[c].turn, es, q, w)
  <1>1. PICK k : k = conn[c]
    OBVIOUS
  <1>2. ConnOK(k) /\ k \in Connection /\ k.kind = "replay" /\ k.phase = "request"
    BY <1>1, Given DEF Serve
  <1>3. k.turn \in Turn /\ k.from \in Nat /\ k.wire = <<>>
    BY <1>2, ConnTypes DEF ConnOK
  <1>4. PICK t \in Turn : t = k.turn
    BY <1>3
  <1>5. PICK r : r = registry[t]
    OBVIOUS
  <1>6. r \in Entry /\ RingOK(r, t) /\ r.startOffset \in Nat
    BY <1>4, <1>5, Given DEF Entry
  <1>7. ASSUME NEW es, Answers(r, k.from, es), UNCHANGED registry,
               conn' = [conn EXCEPT ![c] = Closed(Written(@, es))]
        PROVE  \E w \in Connection : es \in Seq(Wire) /\ AnswerEffect(c, es, w)
    <2>1. es \in Seq(Wire)
      BY <1>3, <1>6, <1>7, AnswersType
    <2>2. PICK w : w = Closed(Written(k, es))
      OBVIOUS
    <2>3. /\ ConnOK(w) /\ w.phase = "ended"
          /\ ~k.live => w = Free
          /\ k.live => SameLoop(k, w) /\ w.live = TRUE /\ w.wire = k.wire \o es
      BY <1>2, <2>1, <2>2, ClosedWritten
    <2>4. conn' = [conn EXCEPT ![c] = w]
      BY <1>1, <1>7, <2>2, Given
    <2>5. AnswerEffect(c, es, w)
      BY <1>1, <1>3, <1>4, <1>5, <1>7, <2>3, <2>4 DEF AnswerEffect
    <2>6. w \in Connection
      BY <2>3 DEF ConnOK
    <2>7. QED
      BY <2>1, <2>5, <2>6
  <1>8. ASSUME r.status = "running", k.from >= r.startOffset,
               conn' = [conn EXCEPT ![c] = Written(Opened(@), Suffix(r, k.from))],
               registry' = [registry EXCEPT ![t].listeners = @ \cup {c}]
        PROVE  \E es \in Seq(Wire), w \in Connection, q \in Entry : StreamEffect(c, t, es, q, w)
    <2>1. PICK es : es = Suffix(r, k.from)
      OBVIOUS
    <2>2. es \in Seq(Wire) /\ Numbering(es, t, k.from)
      BY <1>3, <1>6, <1>8, <2>1, SuffixIs
    <2>3. \A i \in DOMAIN es : IsTurnEvent(es[i])
      BY <2>2 DEF Numbering
    <2>4. PICK v : v = Opened(k)
      OBVIOUS
    <2>5. /\ ConnOK(v) /\ v.phase = "open" /\ v.kind = k.kind /\ v.live = k.live
          /\ v.wire = <<>> /\ v.turn = k.turn
      BY <1>2, <2>4, OpenedOK
    <2>6. SameLoop(k, v)
      BY <1>2, <2>4 DEF SameLoop, Opened, Connection
    <2>7. PICK w : w = Written(v, es)
      OBVIOUS
    <2>8. /\ ConnOK(w) /\ SameLoop(v, w) /\ w.phase = "open" /\ w.live = v.live
          /\ v.live => w.wire = v.wire \o es
      BY <2>2, <2>3, <2>5, <2>7, WrittenOK
    <2>9. conn' = [conn EXCEPT ![c] = w]
      BY <1>1, <1>8, <2>1, <2>4, <2>7, Given
    <2>10. PICK q : q = [r EXCEPT !.listeners = r.listeners \cup {c}]
      OBVIOUS
    <2>11. /\ q \in Entry /\ q.status = r.status /\ q.listeners = r.listeners \cup {c}
           /\ q.events = r.events /\ q.startOffset = r.startOffset
           /\ q.totalEmitted = r.totalEmitted /\ q.finishedAt = r.finishedAt
      BY <1>6, <2>10 DEF Entry
    <2>12. RingOK(q, t)
      BY <1>6, <1>8, <2>11 DEF RingOK
    <2>13. registry' = [registry EXCEPT ![t] = q]
      BY <1>5, <1>8, <2>10, Given
    <2>14. SameLoop(k, w)
      BY <2>6, <2>8 DEF SameLoop
    <2>15. StreamEffect(c, t, es, q, w)
      BY <1>1, <1>5, <1>8, <2>1, <2>5, <2>8, <2>9, <2>11, <2>12, <2>13, <2>14 DEF StreamEffect
    <2>16. w \in Connection
      BY <2>8 DEF ConnOK
    <2>17. QED
      BY <2>2, <2>11, <2>15, <2>16
  <1>9. \/ /\ UNCHANGED registry
           /\ \E es : /\ Answers(r, k.from, es)
                      /\ conn' = [conn EXCEPT ![c] = Closed(Written(@, es))]
        \/ /\ r.status = "running" /\ k.from >= r.startOffset
           /\ conn' = [conn EXCEPT ![c] = Written(Opened(@), Suffix(r, k.from))]
           /\ registry' = [registry EXCEPT ![t].listeners = @ \cup {c}]
    BY <1>1, <1>4, <1>5 DEF Serve, Answers, Overflow, Last, Opened
  <1>10. QED
    BY <1>1, <1>2, <1>3, <1>4, <1>7, <1>8, <1>9

LEMMA ServiceServe ==
    ASSUME ServiceInv, NEW c \in Conn, Serve(c)
    PROVE  ServiceInv'
  <1>1. PICK t \in Turn : t = conn[c].turn
    BY ServeIs
  <1>2. /\ conn[c].kind = "replay" /\ conn[c].phase = "request"
        /\ UNCHANGED <<handler, entry, page>>
    BY ServeIs DEF Serve
  <1>3. PICK es \in Seq(Wire), w \in Connection :
            AnswerEffect(c, es, w) \/ \E q \in Entry : StreamEffect(c, t, es, q, w)
    BY <1>1, ServeIs
  <1>4. CASE AnswerEffect(c, es, w)
    <2>1. /\ UNCHANGED registry /\ conn' = [conn EXCEPT ![c] = w] /\ ConnOK(w) /\ w.phase = "ended"
          /\ w.turn \in {NoTurn, conn[c].turn}
      BY <1>4, FreeIs DEF AnswerEffect, SameLoop
    <2>2. QED
      BY <1>2, <2>1, Given, ServiceConn
  <1>5. CASE \E q \in Entry : StreamEffect(c, t, es, q, w)
    <2>1. PICK q \in Entry : StreamEffect(c, t, es, q, w)
      BY <1>5
    <2>2. /\ registry[t].status = "running" /\ RingOK(q, t) /\ q.status = "running"
          /\ q.listeners = registry[t].listeners \cup {c}
          /\ ConnOK(w) /\ w.kind = "replay" /\ w.turn = t /\ w.phase = "open"
      BY <1>1, <1>2, <2>1 DEF StreamEffect, SameLoop
    <2>3. /\ registry' \in [Turn -> Entry]
          /\ \A u \in Turn : registry'[u] = IF u = t THEN q ELSE registry[u]
          /\ conn' \in [Conn -> Connection]
          /\ \A d \in Conn : conn'[d] = IF d = c THEN w ELSE conn[d]
      BY <2>1, Given DEF StreamEffect
    <2>4. \A u \in Turn : RingOK(registry'[u], u) /\ registry'[u].status = registry[u].status
      BY <2>2, <2>3, Given
    <2>5. \A d \in Conn : ConnOK(conn'[d]) /\ conn'[d].turn = conn[d].turn
      BY <1>1, <2>2, <2>3, Given
    <2>6. \A d \in Conn : conn[d].turn \in Turn \cup {NoTurn}
      BY Given, ConnTypes
    <2>7. \A d \in Conn : conn'[d].turn # NoTurn => registry'[conn'[d].turn].status # "none"
      BY <2>4, <2>5, <2>6, Given
    <2>8. HandlerInv'
      BY <1>2, <2>2, <2>3, Given DEF HandlerInv
    <2>9. ListenersExact'
      <3>1. SUFFICES ASSUME NEW u \in Turn
                     PROVE  registry'[u].listeners =
                              {d \in Conn : /\ conn'[d].kind = "replay" /\ conn'[d].phase = "open"
                                            /\ conn'[d].turn = u /\ registry'[u].status = "running"}
        BY DEF ListenersExact, Running
      <3>2. registry[u].listeners =
              {d \in Conn : /\ conn[d].kind = "replay" /\ conn[d].phase = "open"
                            /\ conn[d].turn = u /\ registry[u].status = "running"}
        BY Given DEF ListenersExact, Running
      <3>3. CASE u = t
        BY <1>1, <1>2, <2>2, <2>3, <3>2, <3>3
      <3>4. CASE u # t
        BY <1>1, <2>2, <2>3, <3>2, <3>4
      <3>5. QED
        BY <3>3, <3>4
    <2>10. page.active \in Turn \cup {NoTurn}
      BY Given
    <2>11. QED
      BY <1>2, <2>3, <2>4, <2>5, <2>7, <2>8, <2>9, <2>10, Given, Assemble
  <1>6. QED
    BY <1>3, <1>4, <1>5

LEMMA ServiceStutter ==
    ASSUME ServiceInv, UNCHANGED vars
    PROVE  ServiceInv'
  <1>1. /\ conn' = [c \in Conn |-> conn'[c]]
        /\ \A c \in Conn : conn'[c] = conn[c] \/ conn'[c] = Left(conn[c])
    BY Given DEF vars
  <1>2. QED
    BY <1>1, Given, ServicePage DEF vars

LEMMA ServiceInit ==
    ASSUME Init
    PROVE  ServiceInv
  <1>1. <<>> \in Seq(Wire) /\ DOMAIN <<>> = {} /\ Len(<<>>) = 0
    OBVIOUS
  <1>2. NoEntry \in Entry
    BY <1>1 DEF NoEntry, Entry
  <1>3. \A t \in Turn : RingOK(NoEntry, t)
    BY <1>1 DEF NoEntry, RingOK
  <1>4. registry \in [Turn -> Entry] /\ \A t \in Turn : registry[t] = NoEntry
    BY <1>2 DEF Init
  <1>5. conn \in [Conn -> Connection] /\ \A c \in Conn : conn[c] = Free
    BY FreeIs DEF Init, ConnOK
  <1>6. handler \in [Turn -> [response : Conn \cup {NoConn}, stuck : BOOLEAN]]
    BY DEF Init
  <1>7. \A t \in Turn : handler[t].response = NoConn
    BY DEF Init
  <1>8. entry \in Stream
    BY StreamTypes DEF Init
  <1>9. page \in [active : Turn \cup {NoTurn}, triggered : Turn \cup {NoTurn}]
        /\ page.active = NoTurn
    BY DEF Init
  <1>10. TypeOK
    BY <1>4, <1>5, <1>6, <1>8, <1>9 DEF TypeOK
  <1>11. RegistryInv
    BY <1>3, <1>4, <1>9 DEF RegistryInv
  <1>12. ConnInv
    <2>1. SUFFICES ASSUME NEW c \in Conn
                   PROVE  /\ ConnOK(conn[c]) /\ conn[c].turn = NoTurn
      BY DEF ConnInv, ConnOK
    <2>2. QED
      BY <1>5, FreeIs
  <1>13. HandlerInv
    BY <1>7, StreamReplayAssumption DEF HandlerInv
  <1>14. ListenersExact
    <2>1. NoEntry.listeners = {}
      BY DEF NoEntry
    <2>2. QED
      BY <1>4, <1>5, <2>1, FreeIs DEF ListenersExact
  <1>15. QED
    BY <1>10, <1>11, <1>12, <1>13, <1>14 DEF ServiceInv

\* One case per action.
LEMMA ServiceNext ==
    ASSUME ServiceInv, [Next]_vars
    PROVE  ServiceInv'
  <1>1. ASSUME NEW c \in Conn, Accept(c) PROVE ServiceInv'
    BY <1>1, ServiceAccept
  <1>2. ASSUME NEW c \in Conn, Refuse(c) PROVE ServiceInv'
    BY <1>2, ServiceRefuse
  <1>3. ASSUME NEW c \in Conn, Vanish(c) PROVE ServiceInv'
    BY <1>3, ServiceVanish
  <1>4. ASSUME NEW c \in Conn, Serve(c) PROVE ServiceInv'
    BY <1>4, ServiceServe
  <1>5. ASSUME NEW c \in Conn, Hangup(c) PROVE ServiceInv'
    BY <1>5, ServiceHangup
  <1>6. ASSUME NEW c \in Conn, NEW how \in {"eof", "failed"}, Break(c, how) PROVE ServiceInv'
    BY <1>6, ServiceBreak
  <1>7. ASSUME NEW how \in {"eof", "failed"}, Restart(how) PROVE ServiceInv'
    BY <1>7, ServiceRestart
  <1>8. ASSUME NEW t \in Turn, NEW how \in {"done", "aborted", "error"}, End(t, how)
        PROVE  ServiceInv'
    BY <1>8, ServiceEnd
  <1>9. ASSUME NEW t \in Turn, Emit(t) PROVE ServiceInv'
    BY <1>9, ServiceEmit
  <1>a. ASSUME NEW t \in Turn, EmitLate(t) PROVE ServiceInv'
    BY <1>a, ServiceEmitLate
  <1>10. ASSUME NEW t \in Turn, Leak(t) PROVE ServiceInv'
    BY <1>10, ServiceLeak
  <1>11. ASSUME NEW t \in Turn, Sweep(t) PROVE ServiceInv'
    BY <1>11, ServiceSweep
  <1>12. ASSUME NEW c \in Conn, Send(c) PROVE ServiceInv'
    BY <1>12, ServiceSend
  <1>13. ASSUME NEW c \in Conn, Deliver(c) PROVE ServiceInv'
    BY <1>13, ServiceDeliver
  <1>14. ASSUME NEW c \in Conn, Watchdog(c) PROVE ServiceInv'
    BY <1>14, ServiceWatchdog
  <1>15. CASE FetchSession
    BY <1>15, ServiceFetchSession
  <1>16. CASE Attach
    BY <1>16, ServiceAttach
  <1>17. CASE Stop
    BY <1>17, ServiceStop
  <1>18. CASE Reset
    BY <1>18, ServiceReset
  <1>19. CASE Refresh
    BY <1>19, ServiceRefresh
  <1>20. CASE UNCHANGED vars
    BY <1>20, ServiceStutter
  <1>21. CASE Service
    BY <1>1, <1>2, <1>3, <1>4, <1>5, <1>6, <1>7, <1>8, <1>9, <1>a, <1>10, <1>11, <1>21 DEF Service
  <1>22. CASE Page
    BY <1>12, <1>13, <1>14, <1>15, <1>16, <1>17, <1>18, <1>19, <1>22 DEF Page
  <1>23. QED
    BY <1>20, <1>21, <1>22 DEF Next

\* The registry, its rings, the connections and the handlers fit together
\* whatever the pages do and however the service fails.
THEOREM ServiceCorrect == Spec => []ServiceInv
  <1>1. QED
    BY ServiceInit, ServiceNext, PTL DEF Spec

\* The state keeps its types.
THEOREM TypeCorrect == Spec => []TypeOK
  <1>1. ServiceInv => TypeOK
    BY DEF ServiceInv
  <1>2. QED
    BY <1>1, ServiceCorrect, PTL

\* A replay of a running turn is subscribed exactly while its response is open.
THEOREM ListenersCorrect == Spec => []ListenersExact
  <1>1. ServiceInv => ListenersExact
    BY DEF ServiceInv
  <1>2. QED
    BY <1>1, ServiceCorrect, PTL
=============================================================================
