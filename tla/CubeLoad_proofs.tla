--------------------------- MODULE CubeLoad_proofs ---------------------------
(* Proofs about CubeLoad, for any number of connections, owners and queries  *)
(* and any caps.                                                             *)
EXTENDS CubeLoad, SequenceTheorems, FiniteSetTheorems, TLAPS

(* The result cache: a sequence that is a Map from keys to rows. *)

IsMap(c) ==
    /\ c \in Seq(Cached)
    /\ \A i, j \in DOMAIN c : c[i].key = c[j].key => i = j
    /\ \A i \in DOMAIN c : c[i].key = KeyOf(c[i].query)

\* The entries of a cache, in whatever order.
Elements(c) == {c[i] : i \in DOMAIN c}

LEMMA MapRemove ==
    ASSUME NEW c, IsMap(c), NEW i \in DOMAIN c
    PROVE  /\ IsMap(RemoveAt(c, i))
           /\ Len(RemoveAt(c, i)) = Len(c) - 1
           /\ \A j \in DOMAIN RemoveAt(c, i) : RemoveAt(c, i)[j].key # c[i].key
           /\ Elements(RemoveAt(c, i)) = {x \in Elements(c) : x.key # c[i].key}
  <1> DEFINE a == SubSeq(c, 1, i - 1)
             b == SubSeq(c, i + 1, Len(c))
             w == RemoveAt(c, i)
  <1>1. c \in Seq(Cached) /\ Len(c) \in Nat /\ DOMAIN c = 1 .. Len(c) /\ i \in 1 .. Len(c)
    BY LenProperties DEF IsMap
  <1>2. \A j \in 1 .. Len(c) : c[j] \in Cached
    BY <1>1, ElementOfSeq
  <1>3. /\ a \in Seq(Cached) /\ Len(a) = i - 1
        /\ \A j \in 1 .. i - 1 : a[j] = c[j]
    <2>1. \A j \in 1 .. i - 1 : c[j] \in Cached
      BY <1>1, <1>2
    <2>2. /\ a \in Seq(Cached) /\ Len(a) = (IF 1 <= i - 1 THEN (i - 1) - 1 + 1 ELSE 0)
          /\ \A j \in 1 .. (i - 1) - 1 + 1 : a[j] = c[1 + j - 1]
      BY <1>1, <2>1, SubSeqProperties
    <2> HIDE DEF a
    <2>3. QED
      BY <1>1, <2>2
  <1>4. /\ b \in Seq(Cached) /\ Len(b) = Len(c) - i
        /\ \A j \in 1 .. Len(c) - i : b[j] = c[i + j]
    <2>1. \A j \in i + 1 .. Len(c) : c[j] \in Cached
      BY <1>1, <1>2
    <2>2. /\ b \in Seq(Cached)
          /\ Len(b) = (IF i + 1 <= Len(c) THEN Len(c) - (i + 1) + 1 ELSE 0)
          /\ \A j \in 1 .. Len(c) - (i + 1) + 1 : b[j] = c[(i + 1) + j - 1]
      BY <1>1, <2>1, SubSeqProperties
    <2> HIDE DEF b
    <2>3. Len(b) = Len(c) - i
      BY <1>1, <2>2
    <2>4. ASSUME NEW j \in 1 .. Len(c) - i PROVE b[j] = c[i + j]
      <3>1. j \in 1 .. Len(c) - (i + 1) + 1 /\ (i + 1) + j - 1 = i + j
        BY <1>1
      <3>2. QED
        BY <2>2, <3>1
    <2>5. QED
      BY <2>2, <2>3, <2>4
  <1>5. w = a \o b
    BY DEF RemoveAt
  <1> HIDE DEF a, b, w
  <1>6. /\ w \in Seq(Cached) /\ Len(w) = Len(c) - 1
        /\ \A j \in 1 .. Len(c) - 1 : w[j] = IF j < i THEN c[j] ELSE c[j + 1]
    <2>1. /\ w \in Seq(Cached) /\ Len(w) = Len(a) + Len(b)
          /\ \A j \in 1 .. Len(a) + Len(b) :
                 w[j] = IF j <= Len(a) THEN a[j] ELSE b[j - Len(a)]
      BY <1>3, <1>4, <1>5, ConcatProperties
    <2>2. Len(a) + Len(b) = Len(c) - 1
      BY <1>1, <1>3, <1>4
    <2>3. ASSUME NEW j \in 1 .. Len(c) - 1
          PROVE  w[j] = IF j < i THEN c[j] ELSE c[j + 1]
      <3>1. w[j] = IF j <= Len(a) THEN a[j] ELSE b[j - Len(a)]
        BY <2>1, <2>2
      <3>2. CASE j < i
        BY <1>1, <1>3, <3>1, <3>2
      <3>3. CASE ~(j < i)
        <4>1. j - Len(a) \in 1 .. Len(c) - i /\ i + (j - Len(a)) = j + 1 /\ ~(j <= Len(a))
          BY <1>1, <1>3, <3>3
        <4>2. QED
          BY <1>4, <3>1, <3>3, <4>1
      <3>4. QED
        BY <3>2, <3>3
    <2>4. QED
      BY <2>1, <2>2, <2>3
  <1>7. DOMAIN w = 1 .. Len(c) - 1
    BY <1>6, LenProperties
  <1>8. ASSUME NEW j \in DOMAIN w
        PROVE  \E k \in DOMAIN c : k # i /\ w[j] = c[k]
    <2>1. /\ j \in 1 .. Len(c) - 1
          /\ w[j] = IF j < i THEN c[j] ELSE c[j + 1]
      BY <1>6, <1>7
    <2>2. CASE j < i
      BY <1>1, <2>1, <2>2
    <2>3. CASE ~(j < i)
      <3>1. j + 1 \in DOMAIN c /\ j + 1 # i
        BY <1>1, <2>1, <2>3
      <3>2. QED
        BY <2>1, <2>3, <3>1
    <2>4. QED
      BY <2>2, <2>3
  <1>9. \A j, k \in DOMAIN w : w[j].key = w[k].key => j = k
    <2>1. SUFFICES ASSUME NEW j \in DOMAIN w, NEW k \in DOMAIN w, w[j].key = w[k].key
                   PROVE  j = k
      OBVIOUS
    <2>2. /\ (IF j < i THEN j ELSE j + 1) \in DOMAIN c
          /\ (IF k < i THEN k ELSE k + 1) \in DOMAIN c
      BY <1>1, <1>7
    <2>3. (IF j < i THEN j ELSE j + 1) = (IF k < i THEN k ELSE k + 1)
      BY <1>6, <1>7, <2>1, <2>2 DEF IsMap
    <2>4. QED
      BY <1>1, <1>7, <2>3
  <1>10. IsMap(w)
    BY <1>6, <1>8, <1>9 DEF IsMap
  <1>11. \A j \in DOMAIN w : w[j].key # c[i].key
    BY <1>8 DEF IsMap
  <1>12. ASSUME NEW j \in DOMAIN c, j # i
         PROVE  \E k \in DOMAIN w : w[k] = c[j]
    <2>1. CASE j < i
      BY <1>1, <1>6, <1>7, <2>1
    <2>2. CASE ~(j < i)
      <3>1. j - 1 \in 1 .. Len(c) - 1 /\ ~(j - 1 < i) /\ (j - 1) + 1 = j
        BY <1>1, <1>12, <2>2
      <3>2. QED
        BY <1>6, <1>7, <3>1
    <2>3. QED
      BY <2>1, <2>2
  <1>13. Elements(w) = {x \in Elements(c) : x.key # c[i].key}
    <2>1. ASSUME NEW x \in Elements(w)
          PROVE  x \in Elements(c) /\ x.key # c[i].key
      BY <1>8, <1>11 DEF Elements
    <2>2. ASSUME NEW x \in Elements(c), x.key # c[i].key
          PROVE  x \in Elements(w)
      BY <1>12, <2>2 DEF Elements
    <2>3. QED
      BY <2>1, <2>2
  <1>14. QED
    BY <1>6, <1>10, <1>11, <1>13 DEF w

LEMMA MapAppend ==
    ASSUME NEW c, IsMap(c), NEW e \in Cached, e.key = KeyOf(e.query),
           \A j \in DOMAIN c : c[j].key # e.key
    PROVE  /\ IsMap(Append(c, e)) /\ Len(Append(c, e)) = Len(c) + 1
           /\ Elements(Append(c, e)) = Elements(c) \cup {e}
  <1> DEFINE w == Append(c, e)
  <1>1. c \in Seq(Cached) /\ Len(c) \in Nat /\ DOMAIN c = 1 .. Len(c)
    BY LenProperties DEF IsMap
  <1>2. /\ w \in Seq(Cached) /\ Len(w) = Len(c) + 1 /\ DOMAIN w = 1 .. Len(c) + 1
        /\ \A j \in 1 .. Len(c) : w[j] = c[j]
        /\ w[Len(c) + 1] = e
    BY <1>1, AppendProperties
  <1> HIDE DEF w
  <1>3. \A j \in DOMAIN w : j \in DOMAIN c \/ j = Len(c) + 1
    BY <1>1, <1>2
  <1>4. \A j, k \in DOMAIN w : w[j].key = w[k].key => j = k
    BY <1>1, <1>2, <1>3 DEF IsMap
  <1>5. \A j \in DOMAIN w : w[j].key = KeyOf(w[j].query)
    BY <1>1, <1>2, <1>3 DEF IsMap
  <1>6. Elements(w) = Elements(c) \cup {e}
    <2>1. Elements(w) \subseteq Elements(c) \cup {e}
      BY <1>1, <1>2, <1>3 DEF Elements
    <2>2. Len(c) + 1 \in DOMAIN w /\ DOMAIN c \subseteq DOMAIN w
      BY <1>1, <1>2
    <2>3. QED
      BY <1>1, <1>2, <2>1, <2>2 DEF Elements
  <1>7. QED
    BY <1>2, <1>4, <1>5, <1>6 DEF IsMap, w

LEMMA MapTail ==
    ASSUME NEW c, IsMap(c), c # <<>>
    PROVE  /\ IsMap(Tail(c))
           /\ Len(Tail(c)) = Len(c) - 1
           /\ \A j \in DOMAIN Tail(c) : \E k \in DOMAIN c : Tail(c)[j] = c[k]
  <1> DEFINE w == Tail(c)
  <1>1. c \in Seq(Cached) /\ Len(c) \in Nat /\ DOMAIN c = 1 .. Len(c) /\ Len(c) > 0
    BY LenProperties, EmptySeq DEF IsMap
  <1>2. w \in Seq(Cached) /\ Len(w) = Len(c) - 1 /\ DOMAIN w = 1 .. Len(c) - 1
    BY <1>1, HeadTailProperties, LenProperties
  <1>3. \A j \in 1 .. Len(c) - 1 : w[j] = c[j + 1]
    BY <1>1, <1>2, HeadTailProperties
  <1> HIDE DEF w
  <1>4. \A j \in DOMAIN w : j + 1 \in DOMAIN c /\ w[j] = c[j + 1]
    BY <1>1, <1>2, <1>3
  <1>5. \A j, k \in DOMAIN w : w[j].key = w[k].key => j = k
    <2>1. SUFFICES ASSUME NEW j \in DOMAIN w, NEW k \in DOMAIN w, w[j].key = w[k].key
                   PROVE  j = k
      OBVIOUS
    <2>2. j + 1 = k + 1
      BY <1>4, <2>1 DEF IsMap
    <2>3. QED
      BY <1>1, <1>2, <2>2
  <1>6. IsMap(w)
    BY <1>2, <1>4, <1>5 DEF IsMap
  <1>7. QED
    BY <1>2, <1>4, <1>6 DEF w

LEMMA MapReplace ==
    ASSUME NEW c, IsMap(c), NEW i \in DOMAIN c, NEW e \in Cached,
           e.key = c[i].key, e.key = KeyOf(e.query)
    PROVE  /\ IsMap([c EXCEPT ![i] = e]) /\ Len([c EXCEPT ![i] = e]) = Len(c)
           /\ Elements([c EXCEPT ![i] = e]) \subseteq Elements(c) \cup {e}
  <1> DEFINE w == [c EXCEPT ![i] = e]
  <1>1. c \in Seq(Cached) /\ Len(c) \in Nat /\ DOMAIN c = 1 .. Len(c)
    BY LenProperties DEF IsMap
  <1>2. /\ w \in Seq(Cached) /\ Len(w) = Len(c)
        /\ \A j \in 1 .. Len(c) : w[j] = IF j = i THEN e ELSE c[j]
    BY <1>1, ExceptSeq
  <1>3. DOMAIN w = DOMAIN c
    OBVIOUS
  <1> HIDE DEF w
  <1>4. \A j \in DOMAIN c : w[j].key = c[j].key
    BY <1>1, <1>2
  <1>5. \A j, k \in DOMAIN w : w[j].key = w[k].key => j = k
    BY <1>3, <1>4 DEF IsMap
  <1>6. \A j \in DOMAIN w : w[j].key = KeyOf(w[j].query)
    BY <1>1, <1>2, <1>3 DEF IsMap
  <1>7. Elements(w) \subseteq Elements(c) \cup {e}
    BY <1>1, <1>2, <1>3 DEF Elements
  <1>8. QED
    BY <1>2, <1>5, <1>6, <1>7 DEF IsMap, w

CacheOK == IsMap(cache) /\ Len(cache) <= MaxEntries

LEMMA WithoutMap ==
    ASSUME CacheOK, NEW k
    PROVE  /\ IsMap(Without(k))
           /\ Len(Without(k)) <= MaxEntries
           /\ Holds(k) => Len(Without(k)) < MaxEntries
           /\ \A j \in DOMAIN Without(k) : Without(k)[j].key # k
           /\ Elements(Without(k)) = {x \in Elements(cache) : x.key # k}
  <1>1. Len(cache) \in Nat
    BY LenProperties DEF CacheOK, IsMap
  <1>2. CASE Holds(k)
    <2>1. Lookup(k) \in DOMAIN cache /\ cache[Lookup(k)].key = k
      BY <1>2 DEF Holds, Lookup
    <2>2. Without(k) = RemoveAt(cache, Lookup(k))
      BY <1>2 DEF Without
    <2>3. /\ IsMap(Without(k)) /\ Len(Without(k)) = Len(cache) - 1
          /\ \A j \in DOMAIN Without(k) : Without(k)[j].key # k
          /\ Elements(Without(k)) = {x \in Elements(cache) : x.key # k}
      BY <2>1, <2>2, MapRemove DEF CacheOK
    <2>4. QED
      BY <1>1, <2>3, CubeLoadAssumption DEF CacheOK
  <1>3. CASE ~Holds(k)
    <2>1. Without(k) = cache /\ \A j \in DOMAIN cache : cache[j].key # k
      BY <1>3 DEF Without, Holds
    <2>2. Elements(cache) = {x \in Elements(cache) : x.key # k}
      BY <2>1 DEF Elements
    <2>3. QED
      BY <1>3, <2>1, <2>2 DEF CacheOK
  <1>4. QED
    BY <1>2, <1>3

LEMMA KeyType ==
    ASSUME NEW q \in Query
    PROVE  KeyOf(q) \in Key
  BY DEF KeyOf, Key, Query

\* putCachedLoad keeps the cache a Map within its bound.
LEMMA PutMap ==
    ASSUME CacheOK, NEW q \in Query
    PROVE  /\ IsMap(Put(q)) /\ Len(Put(q)) <= MaxEntries
           /\ Elements(Put(q)) \subseteq Elements(cache)
                  \cup {[key |-> KeyOf(q), query |-> q, valid |-> TRUE]}
  <1> DEFINE e == [key |-> KeyOf(q), query |-> q, valid |-> TRUE]
  <1>1. e \in Cached /\ e.key = KeyOf(q) /\ e.key = KeyOf(e.query)
    BY KeyType DEF Cached
  <1>2. Put(q) = IF Holds(KeyOf(q)) THEN [cache EXCEPT ![Lookup(KeyOf(q))] = e]
                 ELSE Append(IF Len(cache) >= MaxEntries THEN Tail(cache) ELSE cache, e)
    BY DEF Put
  <1> SUFFICES IsMap(Put(q)) /\ Len(Put(q)) <= MaxEntries
                 /\ Elements(Put(q)) \subseteq Elements(cache) \cup {e}
    OBVIOUS
  <1> HIDE DEF e
  <1>3. Len(cache) \in Nat /\ MaxEntries \in Nat \ {0}
    BY LenProperties, CubeLoadAssumption DEF CacheOK, IsMap
  <1>4. CASE Holds(KeyOf(q))
    <2>1. Lookup(KeyOf(q)) \in DOMAIN cache /\ cache[Lookup(KeyOf(q))].key = KeyOf(q)
      BY <1>4 DEF Holds, Lookup
    <2> DEFINE w == [cache EXCEPT ![Lookup(KeyOf(q))] = e]
    <2>2. IsMap(w) /\ Len(w) = Len(cache) /\ Elements(w) \subseteq Elements(cache) \cup {e}
      BY <1>1, <2>1, MapReplace DEF CacheOK
    <2>3. Put(q) = w
      BY <1>2, <1>4
    <2> HIDE DEF w
    <2>4. QED
      BY <2>2, <2>3 DEF CacheOK
  <1>5. CASE ~Holds(KeyOf(q)) /\ Len(cache) >= MaxEntries
    <2>1. cache # <<>>
      BY <1>3, <1>5, EmptySeq
    <2>2. /\ IsMap(Tail(cache)) /\ Len(Tail(cache)) = Len(cache) - 1
          /\ \A j \in DOMAIN Tail(cache) : Tail(cache)[j].key # e.key
      BY <1>1, <1>5, <2>1, MapTail DEF CacheOK, Holds
    <2>3. /\ IsMap(Append(Tail(cache), e)) /\ Len(Append(Tail(cache), e)) = Len(Tail(cache)) + 1
          /\ Elements(Append(Tail(cache), e)) = Elements(Tail(cache)) \cup {e}
      BY <1>1, <2>2, MapAppend
    <2>4. Elements(Tail(cache)) \subseteq Elements(cache)
      BY <1>1, <2>1, MapTail DEF CacheOK, Elements
    <2>5. QED
      BY <1>2, <1>3, <1>5, <2>2, <2>3, <2>4 DEF CacheOK
  <1>6. CASE ~Holds(KeyOf(q)) /\ ~(Len(cache) >= MaxEntries)
    <2>1. /\ IsMap(Append(cache, e)) /\ Len(Append(cache, e)) = Len(cache) + 1
          /\ Elements(Append(cache, e)) = Elements(cache) \cup {e}
      BY <1>1, <1>6, MapAppend DEF CacheOK, Holds
    <2>2. QED
      BY <1>2, <1>3, <1>6, <2>1
  <1>7. QED
    BY <1>4, <1>5, <1>6
-----------------------------------------------------------------------------
(* Handlers and entries. *)

Types ==
    /\ request \in [Request -> Handler]
    /\ upstream \in [Request -> Entry]
    /\ inflight \in [Key -> Request \cup {NoRequest}]
    /\ globalInFlight \in Int
    /\ ownerInFlight \in [Owner -> Nat]

LEMMA TypeSplit == TypeOK /\ CacheInv <=> Types /\ CacheOK
  BY DEF TypeOK, Types, CacheOK, CacheInv, IsMap

Base == Types /\ SlotInv /\ RefcountExact /\ OrphanInv

LEMMA RecordTypes ==
    ASSUME NEW o \in Owner, NEW q \in Query
    PROVE  /\ Arrives(o, q) \in Handler
           /\ \A kind \in Kind : \A p \in Query :
                  [Arrives(o, q) EXCEPT !.answer = Told(kind, p)] \in Handler
           /\ \A l \in Request : Waiting(o, q, l) \in Handler
           /\ NoEntry \in Entry /\ NewEntry \in Entry
  <1>1. \A kind \in Kind : \A p \in Query : Told(kind, p) \in Answer
    BY DEF Told, Answer
  <1>2. Arrives(o, q) \in Handler
    BY <1>1 DEF Arrives, Handler, Kind
  <1>3. \A a \in Answer : [Arrives(o, q) EXCEPT !.answer = a] \in Handler
    BY <1>2 DEF Handler
  <1>4. \A l \in Request : Waiting(o, q, l) \in Handler
    BY <1>2 DEF Waiting, Handler
  <1>5. 0 \in 0 .. MaxPolls
    BY CubeLoadAssumption
  <1>6. NoEntry \in Entry
    BY <1>5 DEF NoEntry, Entry
  <1>8. NewEntry \in Entry
    BY <1>5 DEF NewEntry, Entry
  <1>7. QED
    BY <1>1, <1>2, <1>3, <1>4, <1>6, <1>8

LEMMA Finite ==
    /\ IsFiniteSet(Uppers) /\ Cardinality(Uppers) \in Nat
    /\ \A o : IsFiniteSet(Led(o)) /\ Cardinality(Led(o)) \in Nat
    /\ \A l : IsFiniteSet(Clients(l)) /\ Cardinality(Clients(l)) \in Nat
  <1>1. \A T \in SUBSET Request : IsFiniteSet(T) /\ Cardinality(T) \in Nat
    BY FS_Subset, FS_CardinalityType, CubeLoadAssumption
  <1>2. Uppers \in SUBSET Request /\ \A o : Led(o) \in SUBSET Request
    BY DEF Uppers, Led
  <1>3. \A l : Clients(l) \in SUBSET Request
    BY DEF Clients
  <1>4. QED
    BY <1>1, <1>2, <1>3

\* A request that is idle leads nothing and waits for nothing.
LEMMA IdleFree ==
    ASSUME Base, NEW r \in Request, request[r].phase = "idle"
    PROVE  /\ r \notin Uppers
           /\ \A x \in Request : ~Awaits(x, r)
           /\ \A l \in Request : ~Awaits(r, l) /\ r \notin Clients(l)
  BY DEF Base, SlotInv, LeaderInv, Awaits, Clients

\* A request is answered at once: from the cache, or with a 429.
LEMMA BaseIdle ==
    ASSUME Base, NEW r \in Request, NEW h \in Handler,
           request[r].phase = "idle", h.phase = "idle",
           request' = [request EXCEPT ![r] = h],
           UNCHANGED <<upstream, inflight, globalInFlight, ownerInFlight>>
    PROVE  Base'
  <1> USE DEF Base
  <1>1. \A x \in Request \ {r} : request'[x] = request[x]
    BY DEF Types
  <1>2. request'[r] = h
    BY DEF Types
  <1>3. r \notin Uppers /\ Uppers' = Uppers
    BY IdleFree DEF Uppers, Live
  <1>4. \A o : Led(o)' = Led(o)
    BY <1>1, <1>3 DEF Led, Uppers, Live
  <1>5. \A x, l \in Request : Awaits(x, l)' <=> Awaits(x, l)
    BY <1>1, <1>2, IdleFree DEF Awaits
  <1>6. \A l \in Request : Clients(l)' = Clients(l)
    BY <1>1, <1>5, IdleFree DEF Clients
  <1>7. Types'
    BY DEF Types
  <1>8. LeaderInv'
    <2>1. \A l \in Uppers' : Awaits(l, l)'
      BY <1>3, <1>5 DEF SlotInv, LeaderInv, Uppers
    <2>2. ASSUME NEW x \in Request, request'[x].phase = "waiting"
          PROVE  /\ request'[x].leader \in Uppers'
                 /\ KeyOf(request'[x].query) = KeyOf(request'[request'[x].leader].query)
      BY <1>1, <1>2, <1>3, <2>2 DEF SlotInv, LeaderInv, Uppers
    <2>3. QED
      BY <2>1, <2>2 DEF LeaderInv
  <1>9. OnePerKey'
    BY <1>1, <1>3 DEF SlotInv, OnePerKey, Uppers, Live, Types
  <1>10. SlotsExact' /\ CapsRespected'
    BY <1>3, <1>4 DEF SlotInv, SlotsExact, CapsRespected
  <1>11. RefcountExact' /\ OrphanInv'
    BY <1>3, <1>6 DEF RefcountExact, OrphanInv, Uppers
  <1>12. QED
    BY <1>7, <1>8, <1>9, <1>10, <1>11 DEF SlotInv

\* A follower: one more client for the entry of l, and no slot taken.
LEMMA BaseFollow ==
    ASSUME Base, NEW r \in Request, NEW o \in Owner, NEW q \in Query, Follow(r, o, q)
    PROVE  Base'
  <1> USE DEF Base
  <1>0. PICK l \in Request : l = inflight[KeyOf(q)]
    BY KeyType DEF Follow, Joinable, Types
  <1> DEFINE h == Waiting(o, q, l)
  <1>1. /\ request[r].phase = "idle" /\ l # NoRequest
        /\ upstream' = [upstream EXCEPT ![l].refcount = @ + 1]
        /\ request' = [request EXCEPT ![r] = h]
        /\ UNCHANGED <<inflight, globalInFlight, ownerInFlight>>
    BY <1>0, CubeLoadAssumption DEF Follow, Misses, Joinable
  <1>2. l \in Request /\ KeyOf(q) \in Key
    BY KeyType
  <1>3. l \in Uppers /\ KeyOf(request[l].query) = KeyOf(q)
    BY <1>0, <1>1, <1>2 DEF SlotInv, OnePerKey, Uppers
  <1>4. /\ h \in Handler /\ h.phase = "waiting" /\ h.leader = l /\ h.query = q /\ ~h.gone
    BY <1>2, RecordTypes DEF Waiting, Arrives
  <1> HIDE DEF h
  <1>5. r \notin Uppers /\ r # l
    BY <1>1, <1>3, IdleFree
  <1>6. (\A x \in Request \ {r} : request'[x] = request[x]) /\ request'[r] = h
    BY <1>1 DEF Types
  <1>7. /\ \A m \in Request \ {l} : upstream'[m] = upstream[m]
        /\ upstream[l] \in Entry /\ upstream'[l] = [upstream[l] EXCEPT !.refcount = @ + 1]
    BY <1>1, <1>2 DEF Types
  <1>8. /\ upstream'[l].phase = upstream[l].phase /\ upstream'[l].aborted = upstream[l].aborted
        /\ upstream'[l].refcount = upstream[l].refcount + 1 /\ upstream'[l] \in Entry
    BY <1>7 DEF Entry
  <1>9. Uppers' = Uppers
    BY <1>7, <1>8 DEF Uppers, Live
  <1>10. \A p : Led(p)' = Led(p)
    BY <1>5, <1>6, <1>7, <1>8 DEF Led, Uppers, Live
  <1>11. \A x, m \in Request : x # r => (Awaits(x, m)' <=> Awaits(x, m))
    BY <1>6 DEF Awaits
  <1>12. \A m \in Request : Awaits(r, m)' <=> m = l
    BY <1>4, <1>6 DEF Awaits
  <1>13. Clients(l)' = Clients(l) \cup {r} /\ r \notin Clients(l)
    BY <1>1, <1>4, <1>6, <1>11, <1>12, IdleFree DEF Clients
  <1>14. \A m \in Request \ {l} : Clients(m)' = Clients(m)
    BY <1>1, <1>6, <1>11, <1>12, IdleFree DEF Clients
  <1>15. Types'
    <2>1. request' \in [Request -> Handler]
      BY <1>1, <1>4 DEF Types
    <2>2. upstream' \in [Request -> Entry]
      BY <1>1, <1>7, <1>8 DEF Types
    <2>3. QED
      BY <1>1, <2>1, <2>2 DEF Types
  <1>16. LeaderInv'
    <2>1. \A m \in Uppers' : Awaits(m, m)'
      BY <1>5, <1>9, <1>11 DEF SlotInv, LeaderInv, Uppers
    <2>2. ASSUME NEW x \in Request, request'[x].phase = "waiting"
          PROVE  /\ request'[x].leader \in Uppers'
                 /\ KeyOf(request'[x].query) = KeyOf(request'[request'[x].leader].query)
      <3>1. CASE x = r
        BY <1>2, <1>3, <1>4, <1>5, <1>6, <1>9, <3>1
      <3>2. CASE x # r
        BY <1>5, <1>6, <1>9, <2>2, <3>2 DEF SlotInv, LeaderInv, Uppers
      <3>3. QED
        BY <3>1, <3>2
    <2>3. QED
      BY <2>1, <2>2 DEF LeaderInv
  <1>17. OnePerKey'
    <2>1. ASSUME NEW k \in Key, inflight[k] # NoRequest
          PROVE  inflight[k] \in Uppers /\ inflight[k] # r /\ KeyOf(request[inflight[k]].query) = k
      BY <1>5, <2>1 DEF SlotInv, OnePerKey, Uppers, Types
    <2>2. \A m \in Uppers : m # r /\ inflight[KeyOf(request[m].query)] = m
      BY <1>5 DEF SlotInv, OnePerKey
    <2>3. \A m \in Uppers' : inflight'[KeyOf(request'[m].query)] = m
      BY <1>1, <1>6, <1>9, <2>2 DEF Uppers
    <2>4. \A k \in Key : inflight'[k] # NoRequest =>
              inflight'[k] \in Uppers' /\ KeyOf(request'[inflight'[k]].query) = k
      BY <1>1, <1>6, <1>9, <2>1 DEF Uppers
    <2>5. QED
      BY <2>3, <2>4 DEF OnePerKey, Uppers
  <1>18. SlotsExact' /\ CapsRespected'
    BY <1>1, <1>9, <1>10 DEF SlotInv, SlotsExact, CapsRespected
  <1>19. RefcountExact'
    <2>1. Cardinality(Clients(l)') = Cardinality(Clients(l)) + 1
      BY <1>13, Finite, FS_AddElement
    <2>2. \A m \in Uppers' : upstream'[m].refcount = Cardinality(Clients(m)')
      BY <1>3, <1>7, <1>8, <1>9, <1>14, <2>1 DEF RefcountExact, Uppers
    <2>3. QED
      BY <2>2 DEF RefcountExact
  <1>20. OrphanInv'
    <2>1. upstream[l].refcount \in Nat
      BY <1>3, Finite DEF RefcountExact
    <2>2. ASSUME NEW m \in Uppers', upstream'[m].refcount <= 0
          PROVE  upstream'[m].phase = "sleep" /\ upstream'[m].aborted
      <3>1. m # l
        BY <1>8, <2>1, <2>2
      <3>2. m \in Uppers /\ upstream'[m] = upstream[m]
        BY <1>7, <1>9, <3>1 DEF Uppers
      <3>3. QED
        BY <2>2, <3>2 DEF OrphanInv
    <2>3. QED
      BY <2>2 DEF OrphanInv
  <1>21. QED
    BY <1>15, <1>16, <1>17, <1>18, <1>19, <1>20 DEF SlotInv

\* A leader: a new entry, and a slot taken below both caps.
LEMMA BaseLead ==
    ASSUME Base, NEW r \in Request, NEW o \in Owner, NEW q \in Query, Lead(r, o, q)
    PROVE  Base'
  <1> USE DEF Base
  <1> DEFINE h == Waiting(o, q, r)
  <1>1. /\ request[r].phase = "idle" /\ inflight[KeyOf(q)] = NoRequest
        /\ upstream' = [upstream EXCEPT ![r] = NewEntry]
        /\ inflight' = [inflight EXCEPT ![KeyOf(q)] = r]
        /\ globalInFlight' = globalInFlight + 1
        /\ ownerInFlight' = [ownerInFlight EXCEPT ![o] = @ + 1]
        /\ request' = [request EXCEPT ![r] = h]
    BY DEF Lead, Misses, Joinable
  <1>2. KeyOf(q) \in Key /\ r # NoRequest
    BY KeyType, CubeLoadAssumption
  <1>3. globalInFlight < MaxGlobal /\ ownerInFlight[o] < MaxPerOwner
    BY DEF Lead, HasSlot
  <1>4. /\ h \in Handler /\ h.phase = "waiting" /\ h.leader = r /\ h.query = q /\ ~h.gone
        /\ h.owner = o
    BY RecordTypes DEF Waiting, Arrives
  <1>5. NewEntry \in Entry /\ NewEntry.phase = "fetch" /\ NewEntry.refcount = 1
    BY RecordTypes DEF NewEntry
  <1> HIDE DEF h
  <1>6. (\A x \in Request \ {r} : request'[x] = request[x]) /\ request'[r] = h
    BY <1>1 DEF Types
  <1>7. (\A m \in Request \ {r} : upstream'[m] = upstream[m]) /\ upstream'[r] = NewEntry
    BY <1>1 DEF Types
  <1>8. r \notin Uppers /\ Uppers' = Uppers \cup {r}
    BY <1>1, <1>5, <1>7, IdleFree DEF Uppers, Live
  <1>9. /\ r \notin Led(o) /\ Led(o)' = Led(o) \cup {r}
        /\ \A p \in Owner \ {o} : Led(p)' = Led(p)
    BY <1>4, <1>5, <1>6, <1>7, <1>8 DEF Led, Uppers, Live
  <1>10. \A x, m \in Request : x # r => (Awaits(x, m)' <=> Awaits(x, m))
    BY <1>6 DEF Awaits
  <1>11. \A m \in Request : Awaits(r, m)' <=> m = r
    BY <1>4, <1>6 DEF Awaits
  <1>12. Clients(r)' = {r}
    BY <1>1, <1>4, <1>6, <1>10, <1>11, IdleFree DEF Clients
  <1>13. \A m \in Request \ {r} : Clients(m)' = Clients(m)
    BY <1>1, <1>6, <1>10, <1>11, IdleFree DEF Clients
  <1>14. Types'
    <2>1. request' \in [Request -> Handler]
      BY <1>1, <1>4 DEF Types
    <2>2. upstream' \in [Request -> Entry]
      BY <1>1, <1>5 DEF Types
    <2>3. inflight' \in [Key -> Request \cup {NoRequest}]
      BY <1>1 DEF Types
    <2>4. globalInFlight' \in Int /\ ownerInFlight' \in [Owner -> Nat]
      BY <1>1 DEF Types
    <2>5. QED
      BY <2>1, <2>2, <2>3, <2>4 DEF Types
  <1>15. LeaderInv'
    <2>1. \A m \in Uppers' : Awaits(m, m)'
      BY <1>8, <1>10, <1>11 DEF SlotInv, LeaderInv, Uppers
    <2>2. ASSUME NEW x \in Request, request'[x].phase = "waiting"
          PROVE  /\ request'[x].leader \in Uppers'
                 /\ KeyOf(request'[x].query) = KeyOf(request'[request'[x].leader].query)
      <3>1. CASE x = r
        BY <1>4, <1>6, <1>8, <3>1
      <3>2. CASE x # r
        BY <1>6, <1>8, <2>2, <3>2 DEF SlotInv, LeaderInv, Uppers
      <3>3. QED
        BY <3>1, <3>2
    <2>3. QED
      BY <2>1, <2>2 DEF LeaderInv
  <1>16. OnePerKey'
    <2>1. ASSUME NEW m \in Uppers
          PROVE  /\ m # r /\ KeyOf(request[m].query) # KeyOf(q)
                 /\ inflight[KeyOf(request[m].query)] = m
      BY <1>1, <1>8, CubeLoadAssumption DEF SlotInv, OnePerKey, Uppers
    <2>2. ASSUME NEW m \in Uppers' PROVE inflight'[KeyOf(request'[m].query)] = m
      <3>1. CASE m = r
        BY <1>1, <1>2, <1>4, <1>6, <3>1 DEF Types
      <3>2. CASE m # r
        <4>1. m \in Uppers /\ request'[m] = request[m]
          BY <1>6, <1>8, <3>2 DEF Uppers
        <4>2. QED
          BY <1>1, <2>1, <4>1 DEF Types
      <3>3. QED
        BY <3>1, <3>2
    <2>3. ASSUME NEW k \in Key, inflight'[k] # NoRequest
          PROVE  inflight'[k] \in Uppers' /\ KeyOf(request'[inflight'[k]].query) = k
      <3>1. CASE k = KeyOf(q)
        BY <1>1, <1>2, <1>4, <1>6, <1>8, <3>1 DEF Types
      <3>2. CASE k # KeyOf(q)
        <4>1. inflight'[k] = inflight[k]
          BY <1>1, <3>2 DEF Types
        <4>2. inflight[k] \in Uppers /\ KeyOf(request[inflight[k]].query) = k
          BY <2>3, <4>1 DEF SlotInv, OnePerKey, Uppers, Types
        <4>3. QED
          BY <1>6, <1>8, <4>1, <4>2 DEF Uppers
      <3>3. QED
        BY <3>1, <3>2
    <2>4. QED
      BY <2>2, <2>3 DEF OnePerKey, Uppers
  <1>17. SlotsExact' /\ CapsRespected'
    <2>1. Cardinality(Uppers') = Cardinality(Uppers) + 1
      BY <1>8, Finite, FS_AddElement
    <2>2. Cardinality(Led(o)') = Cardinality(Led(o)) + 1
      BY <1>9, Finite, FS_AddElement
    <2>3. /\ globalInFlight = Cardinality(Uppers)
          /\ \A p \in Owner : ownerInFlight[p] = Cardinality(Led(p))
          /\ \A p \in Owner : Cardinality(Led(p)) <= MaxPerOwner
      BY DEF SlotInv, SlotsExact, CapsRespected
    <2>4. globalInFlight' = Cardinality(Uppers')
      BY <1>1, <2>1, <2>3
    <2>5. Cardinality(Uppers') <= MaxGlobal
      BY <1>3, <2>1, <2>3, Finite, CubeLoadAssumption
    <2>6. ASSUME NEW p \in Owner
          PROVE  ownerInFlight'[p] = Cardinality(Led(p)') /\ Cardinality(Led(p)') <= MaxPerOwner
      <3>1. CASE p = o
        BY <1>1, <1>3, <2>2, <2>3, <3>1, Finite, CubeLoadAssumption DEF Types
      <3>2. CASE p # o
        BY <1>1, <1>9, <2>3, <3>2 DEF Types
      <3>3. QED
        BY <3>1, <3>2
    <2>7. QED
      BY <2>4, <2>5, <2>6 DEF SlotsExact, CapsRespected
  <1>18. RefcountExact'
    <2>1. Cardinality({r}) = 1
      BY FS_Singleton
    <2>2. ASSUME NEW m \in Uppers' PROVE upstream'[m].refcount = Cardinality(Clients(m)')
      <3>1. CASE m = r
        BY <1>5, <1>7, <1>12, <2>1, <3>1
      <3>2. CASE m # r
        BY <1>7, <1>8, <1>13, <3>2 DEF RefcountExact, Uppers
      <3>3. QED
        BY <3>1, <3>2
    <2>3. QED
      BY <2>2 DEF RefcountExact
  <1>19. OrphanInv'
    <2>1. ASSUME NEW m \in Uppers', upstream'[m].refcount <= 0
          PROVE  upstream'[m].phase = "sleep" /\ upstream'[m].aborted
      <3>1. m # r
        BY <1>5, <1>7, <2>1
      <3>2. m \in Uppers /\ upstream'[m] = upstream[m]
        BY <1>7, <1>8, <3>1 DEF Uppers
      <3>3. QED
        BY <2>1, <3>2 DEF OrphanInv
    <2>2. QED
      BY <2>1 DEF OrphanInv
  <1>20. QED
    BY <1>14, <1>15, <1>16, <1>17, <1>18, <1>19 DEF SlotInv

\* The end of the upstream call of l: its slot is free again, and nobody waits
\* for it any more.
LEMMA BaseSettled ==
    ASSUME Base, NEW l \in Uppers, NEW kind \in Kind, Release(l, kind),
           upstream' = [upstream EXCEPT ![l] = NoEntry],
           request' \in [Request -> Handler],
           \A x \in Request : Awaits(x, l) => request'[x].phase = "idle",
           \A x \in Request : ~Awaits(x, l) => request'[x] = request[x]
    PROVE  Base'
  <1> USE DEF Base
  <1>1. l \in Request /\ request[l] \in Handler /\ request[l].owner \in Owner
        /\ request[l].query \in Query
    BY DEF Uppers, Types, Handler
  <1>2. PICK p \in Owner : p = request[l].owner
    BY <1>1
  <1>3. PICK k0 \in Key : k0 = KeyOf(request[l].query)
    BY <1>1, KeyType
  <1>4. /\ inflight' = [inflight EXCEPT ![k0] = NoRequest]
        /\ globalInFlight' = globalInFlight - 1
        /\ ownerInFlight' = [ownerInFlight EXCEPT ![p] = IF @ > 0 THEN @ - 1 ELSE 0]
    BY <1>2, <1>3 DEF Release
  <1>5. (\A m \in Request \ {l} : upstream'[m] = upstream[m]) /\ upstream'[l] = NoEntry
    BY <1>1 DEF Types
  <1>6. Uppers' = Uppers \ {l}
    BY <1>5 DEF Uppers, Live, NoEntry
  <1>7. \A m \in Uppers : m # l => ~Awaits(m, l) /\ request'[m] = request[m]
    BY DEF SlotInv, LeaderInv, Uppers, Awaits
  <1>8. Led(p)' = Led(p) \ {l} /\ l \in Led(p)
    BY <1>2, <1>6, <1>7 DEF Led, Uppers
  <1>9. \A u \in Owner \ {p} : Led(u)' = Led(u)
    BY <1>2, <1>6, <1>7 DEF Led, Uppers
  <1>10. \A x, m \in Request : m # l => (Awaits(x, m)' <=> Awaits(x, m))
    BY DEF Awaits
  <1>11. \A m \in Request \ {l} : Clients(m)' = Clients(m)
    BY <1>10 DEF Clients, Awaits
  <1>12. Types'
    <2>1. upstream' \in [Request -> Entry]
      <3>1. NoEntry \in Entry
        BY <1>2, <1>1, RecordTypes
      <3>2. QED
        BY <3>1 DEF Types
    <2>2. inflight' \in [Key -> Request \cup {NoRequest}]
      BY <1>4 DEF Types
    <2>3. globalInFlight' \in Int /\ ownerInFlight' \in [Owner -> Nat]
      BY <1>4 DEF Types
    <2>4. QED
      BY <2>1, <2>2, <2>3 DEF Types
  <1>13. LeaderInv'
    <2>1. \A m \in Uppers' : Awaits(m, m)'
      BY <1>6, <1>10 DEF SlotInv, LeaderInv, Uppers
    <2>2. ASSUME NEW x \in Request, request'[x].phase = "waiting"
          PROVE  /\ request'[x].leader \in Uppers'
                 /\ KeyOf(request'[x].query) = KeyOf(request'[request'[x].leader].query)
      <3>1. ~Awaits(x, l) /\ request'[x] = request[x]
        BY <2>2
      <3>2. /\ request[x].leader \in Uppers /\ request[x].leader # l
            /\ KeyOf(request[x].query) = KeyOf(request[request[x].leader].query)
        BY <2>2, <3>1 DEF SlotInv, LeaderInv, Awaits
      <3>3. QED
        BY <1>6, <1>7, <3>1, <3>2
    <2>3. QED
      BY <2>1, <2>2 DEF LeaderInv
  <1>14. OnePerKey'
    <2>1. ASSUME NEW m \in Uppers'
          PROVE  inflight'[KeyOf(request'[m].query)] = m
      <3>1. m \in Uppers /\ m # l /\ request'[m] = request[m] /\ request[m].query \in Query
        BY <1>6, <1>7 DEF Uppers, Types, Handler
      <3>2. inflight[KeyOf(request[m].query)] = m /\ KeyOf(request[m].query) # k0
        BY <1>3, <3>1 DEF SlotInv, OnePerKey
      <3>3. QED
        BY <1>4, <3>1, <3>2, KeyType DEF Types
    <2>2. ASSUME NEW c \in Key, inflight'[c] # NoRequest
          PROVE  inflight'[c] \in Uppers' /\ KeyOf(request'[inflight'[c]].query) = c
      <3>1. c # k0 /\ inflight'[c] = inflight[c]
        BY <1>4, <2>2 DEF Types
      <3>2. inflight[c] \in Uppers /\ KeyOf(request[inflight[c]].query) = c
        BY <2>2, <3>1 DEF SlotInv, OnePerKey, Uppers, Types
      <3>3. inflight[c] # l
        BY <1>3, <3>1, <3>2
      <3>4. QED
        BY <1>6, <1>7, <3>1, <3>2, <3>3
    <2>3. QED
      BY <2>1, <2>2 DEF OnePerKey, Uppers
  <1>15. SlotsExact' /\ CapsRespected'
    <2>1. Cardinality(Uppers') = Cardinality(Uppers) - 1
      BY <1>6, Finite, FS_RemoveElement
    <2>2. Cardinality(Led(p)') = Cardinality(Led(p)) - 1
      BY <1>8, Finite, FS_RemoveElement
    <2>3. Cardinality(Led(p)) # 0
      BY <1>8, Finite, FS_EmptySet
    <2>4. /\ globalInFlight = Cardinality(Uppers) /\ Cardinality(Uppers) <= MaxGlobal
          /\ \A u \in Owner : ownerInFlight[u] = Cardinality(Led(u))
          /\ \A u \in Owner : Cardinality(Led(u)) <= MaxPerOwner
      BY DEF SlotInv, SlotsExact, CapsRespected
    <2>5. globalInFlight' = Cardinality(Uppers') /\ Cardinality(Uppers') <= MaxGlobal
      BY <1>4, <2>1, <2>4, Finite, CubeLoadAssumption
    <2>6. ASSUME NEW u \in Owner
          PROVE  ownerInFlight'[u] = Cardinality(Led(u)') /\ Cardinality(Led(u)') <= MaxPerOwner
      <3>1. CASE u = p
        BY <1>4, <2>2, <2>3, <2>4, <3>1, Finite, CubeLoadAssumption DEF Types
      <3>2. CASE u # p
        BY <1>4, <1>9, <2>4, <3>2 DEF Types
      <3>3. QED
        BY <3>1, <3>2
    <2>7. QED
      BY <2>5, <2>6 DEF SlotsExact, CapsRespected
  <1>16. RefcountExact' /\ OrphanInv'
    <2>1. \A m \in Uppers' : m \in Uppers /\ m \in Request \ {l} /\ upstream'[m] = upstream[m]
      BY <1>5, <1>6 DEF Uppers
    <2>2. QED
      BY <1>11, <2>1 DEF RefcountExact, OrphanInv
  <1>17. QED
    BY <1>12, <1>13, <1>14, <1>15, <1>16 DEF SlotInv

\* A step that keeps every entry alive, its clients' leaders and queries, and
\* the counters.
LEMMA BaseKept ==
    ASSUME Base, UNCHANGED <<inflight, globalInFlight, ownerInFlight>>,
           request' \in [Request -> Handler], upstream' \in [Request -> Entry],
           \A m \in Request : upstream'[m].phase = "none" <=> upstream[m].phase = "none",
           \A x \in Request : /\ request'[x].phase = request[x].phase
                              /\ request'[x].leader = request[x].leader
                              /\ request'[x].query = request[x].query
                              /\ request'[x].owner = request[x].owner
    PROVE  Types' /\ SlotInv' /\ Uppers' = Uppers
  <1> USE DEF Base
  <1>1. Uppers' = Uppers
    BY DEF Uppers, Live
  <1>2. \A p : Led(p)' = Led(p)
    BY DEF Led, Live
  <1>3. LeaderInv'
    <2>1. \A m \in Uppers' : Awaits(m, m)'
      BY <1>1 DEF SlotInv, LeaderInv, Uppers, Awaits
    <2>2. ASSUME NEW x \in Request, request'[x].phase = "waiting"
          PROVE  /\ request'[x].leader \in Uppers'
                 /\ KeyOf(request'[x].query) = KeyOf(request'[request'[x].leader].query)
      BY <1>1, <2>2 DEF SlotInv, LeaderInv, Uppers
    <2>3. QED
      BY <2>1, <2>2 DEF LeaderInv
  <1>4. OnePerKey'
    <2>1. \A m \in Uppers' : inflight'[KeyOf(request'[m].query)] = m
      BY <1>1 DEF SlotInv, OnePerKey, Uppers
    <2>2. ASSUME NEW c \in Key, inflight'[c] # NoRequest
          PROVE  inflight'[c] \in Uppers' /\ KeyOf(request'[inflight'[c]].query) = c
      BY <1>1, <2>2 DEF SlotInv, OnePerKey, Uppers, Types
    <2>3. QED
      BY <2>1, <2>2 DEF OnePerKey, Uppers
  <1>5. SlotsExact' /\ CapsRespected'
    BY <1>1, <1>2 DEF SlotInv, SlotsExact, CapsRespected
  <1>6. QED
    BY <1>1, <1>3, <1>4, <1>5 DEF Types, SlotInv

\* A pause begins or ends.
LEMMA BasePause ==
    ASSUME Base, NEW l \in Request, upstream[l].phase # "none", NEW e \in Entry,
           upstream' = [upstream EXCEPT ![l] = e],
           e.phase # "none", e.refcount = upstream[l].refcount, e.aborted = upstream[l].aborted,
           e.phase = "fetch" => ~upstream[l].aborted,
           UNCHANGED <<request, inflight, globalInFlight, ownerInFlight>>
    PROVE  Base'
  <1> USE DEF Base
  <1>1. (\A m \in Request \ {l} : upstream'[m] = upstream[m]) /\ upstream'[l] = e
    BY DEF Types
  <1>2. Types' /\ SlotInv' /\ Uppers' = Uppers
    BY <1>1, BaseKept DEF Types
  <1>3. \A m \in Request : Clients(m)' = Clients(m)
    BY DEF Clients, Awaits
  <1>4. RefcountExact'
    BY <1>1, <1>2, <1>3 DEF RefcountExact, Uppers
  <1>5. OrphanInv'
    <2>1. ASSUME NEW m \in Uppers', upstream'[m].refcount <= 0
          PROVE  upstream'[m].phase = "sleep" /\ upstream'[m].aborted
      <3>1. CASE m = l
        <4>1. upstream[l].phase = "sleep" /\ upstream[l].aborted
          BY <1>1, <1>2, <2>1, <3>1 DEF OrphanInv, Uppers
        <4>2. e.phase = "sleep"
          BY <4>1 DEF Entry
        <4>3. QED
          BY <1>1, <3>1, <4>1, <4>2
      <3>2. CASE m # l
        <4>1. m \in Uppers /\ upstream'[m] = upstream[m]
          BY <1>1, <1>2, <3>2 DEF Uppers
        <4>2. QED
          BY <2>1, <4>1 DEF OrphanInv
      <3>3. QED
        BY <3>1, <3>2
    <2>2. QED
      BY <2>1 DEF OrphanInv
  <1>6. QED
    BY <1>2, <1>4, <1>5

\* A client leaves, and the upstream call goes on (or sleeps until it sees the
\* abort).
LEMMA BaseLeaves ==
    ASSUME Base, NEW r \in Request, NEW l \in Request,
           Awaits(r, l), ~request[r].gone,
           Left(r, l) > 0 \/ upstream[l].phase = "sleep",
           upstream' = [upstream EXCEPT ![l].refcount = Left(r, l),
                                        ![l].aborted = @ \/ Left(r, l) <= 0],
           request' = [request EXCEPT ![r].gone = TRUE],
           UNCHANGED <<inflight, globalInFlight, ownerInFlight>>
    PROVE  Base'
  <1> USE DEF Base
  <1>1. l \in Uppers /\ upstream[l] \in Entry /\ request[r] \in Handler
    BY DEF Types, SlotInv, LeaderInv, Awaits
  <1>2. upstream'[l] = [upstream[l] EXCEPT !.refcount = Left(r, l),
                                           !.aborted = @ \/ Left(r, l) <= 0]
        /\ \A m \in Request \ {l} : upstream'[m] = upstream[m]
    BY DEF Types
  <1>3. /\ upstream'[l].phase = upstream[l].phase /\ upstream'[l].refcount = Left(r, l)
        /\ Left(r, l) \in Int
    <2>1. Left(r, l) \in Int
      BY <1>1 DEF Entry, Left
    <2> DEFINE e(n, b) == [upstream[l] EXCEPT !.refcount = n, !.aborted = b]
    <2>2. ASSUME NEW n, NEW b
          PROVE  e(n, b).phase = upstream[l].phase /\ e(n, b).refcount = n
      BY <1>1 DEF Entry
    <2>3. PICK n, b : upstream'[l] = e(n, b) /\ n = Left(r, l)
      BY <1>2
    <2> HIDE DEF e
    <2>4. QED
      BY <2>1, <2>2, <2>3
  <1>4. upstream'[l].aborted = (upstream[l].aborted \/ Left(r, l) <= 0)
    BY <1>1, <1>2 DEF Entry
  <1>5. upstream'[l] \in Entry
    <2>1. (upstream[l].aborted \/ Left(r, l) <= 0) \in BOOLEAN
      OBVIOUS
    <2>2. \A n \in Int : \A b \in BOOLEAN :
              [upstream[l] EXCEPT !.refcount = n, !.aborted = b] \in Entry
      BY <1>1 DEF Entry
    <2>3. QED
      BY <1>2, <1>3, <2>1, <2>2
  <1>6. /\ request'[r] = [request[r] EXCEPT !.gone = TRUE]
        /\ \A x \in Request \ {r} : request'[x] = request[x]
    BY DEF Types
  <1>7. request'[r] \in Handler
    <2>1. \A b \in BOOLEAN : [request[r] EXCEPT !.gone = b] \in Handler
      BY <1>1 DEF Handler
    <2>2. QED
      BY <1>6, <2>1
  <1>8. /\ request'[r].phase = request[r].phase /\ request'[r].leader = request[r].leader
        /\ request'[r].query = request[r].query /\ request'[r].owner = request[r].owner
        /\ request'[r].gone = TRUE
    BY <1>1, <1>6 DEF Handler
  <1>9. request' \in [Request -> Handler] /\ upstream' \in [Request -> Entry]
    BY <1>1, <1>2, <1>5, <1>6, <1>7 DEF Types
  <1>10. Types' /\ SlotInv' /\ Uppers' = Uppers
    BY <1>2, <1>3, <1>6, <1>8, <1>9, BaseKept
  <1>11. Clients(l)' = Clients(l) \ {r} /\ r \in Clients(l)
    BY <1>6, <1>8 DEF Clients, Awaits
  <1>12. \A m \in Request \ {l} : Clients(m)' = Clients(m)
    BY <1>6, <1>8 DEF Clients, Awaits
  <1>13. RefcountExact'
    <2>1. Cardinality(Clients(l)') = Cardinality(Clients(l)) - 1
      BY <1>11, Finite, FS_RemoveElement
    <2>2. upstream'[l].refcount = Cardinality(Clients(l)')
      BY <1>1, <1>3, <2>1 DEF RefcountExact, Left
    <2>3. ASSUME NEW m \in Uppers' PROVE upstream'[m].refcount = Cardinality(Clients(m)')
      <3>1. CASE m = l
        BY <2>2, <3>1
      <3>2. CASE m # l
        BY <1>2, <1>10, <1>12, <3>2 DEF RefcountExact, Uppers
      <3>3. QED
        BY <3>1, <3>2
    <2>4. QED
      BY <2>3 DEF RefcountExact
  <1>14. OrphanInv'
    <2>1. ASSUME NEW m \in Uppers', upstream'[m].refcount <= 0
          PROVE  upstream'[m].phase = "sleep" /\ upstream'[m].aborted
      <3>1. CASE m = l
        <4>1. Left(r, l) <= 0
          BY <1>3, <2>1, <3>1
        <4>2. upstream[l].phase = "sleep"
          BY <1>3, <4>1
        <4>3. QED
          BY <1>3, <1>4, <3>1, <4>1, <4>2
      <3>2. CASE m # l
        <4>1. m \in Uppers /\ upstream'[m] = upstream[m]
          BY <1>2, <1>10, <3>2 DEF Uppers
        <4>2. QED
          BY <2>1, <4>1 DEF OrphanInv
      <3>3. QED
        BY <3>1, <3>2
    <2>2. QED
      BY <2>1 DEF OrphanInv
  <1>15. QED
    BY <1>10, <1>13, <1>14
-----------------------------------------------------------------------------
(* The steps. *)

LEMMA Split == IInv <=> Base /\ CacheOK /\ OwnAnswer
  BY TypeSplit DEF IInv, Base

LEMMA KeyInjective ==
    ASSUME NEW p \in Query, NEW q \in Query, KeyOf(p) = KeyOf(q)
    PROVE  p = q
  BY DEF KeyOf, Query

\* A handler is replaced by one whose answer is its own.
LEMMA OwnReplaced ==
    ASSUME Types, OwnAnswer, NEW r \in Request, NEW h,
           request' = [request EXCEPT ![r] = h],
           h.answer.kind = "rows" => h.answer.query = h.query
    PROVE  OwnAnswer'
  <1>1. ASSUME NEW x \in Request, request'[x].answer.kind = "rows"
        PROVE  request'[x].answer.query = request'[x].query
    <2>1. CASE x = r
      BY <1>1, <2>1 DEF Types
    <2>2. CASE x # r
      BY <1>1, <2>2 DEF Types, OwnAnswer
    <2>3. QED
      BY <2>1, <2>2
  <1>2. QED
    BY <1>1 DEF OwnAnswer

LEMMA ServedKeeps ==
    ASSUME IInv, NEW r \in Request, NEW o \in Owner, NEW q \in Query, Served(r, o, q)
    PROVE  IInv'
  <1>1. Base /\ CacheOK /\ OwnAnswer /\ Types
    BY Split DEF Base
  <1>2. Lookup(KeyOf(q)) \in DOMAIN cache /\ cache[Lookup(KeyOf(q))].key = KeyOf(q)
    BY DEF Served, Hit, Holds, Lookup
  <1>3. PICK e \in Cached : e = cache[Lookup(KeyOf(q))]
    <2>1. DOMAIN cache = 1 .. Len(cache) /\ cache \in Seq(Cached)
      BY <1>1, LenProperties DEF CacheOK, IsMap
    <2>2. QED
      BY <1>2, <2>1, ElementOfSeq
  <1>4. e.key = KeyOf(q) /\ e.key = KeyOf(e.query) /\ e.query \in Query
    BY <1>1, <1>2, <1>3 DEF CacheOK, IsMap, Cached
  <1>5. e.query = q
    BY <1>4, KeyInjective
  <1> DEFINE h == [Arrives(o, q) EXCEPT !.answer = Told("rows", q)]
  <1>6. /\ request[r].phase = "idle"
        /\ cache' = Append(Without(KeyOf(q)), e)
        /\ request' = [request EXCEPT ![r] = h]
        /\ UNCHANGED <<upstream, inflight, globalInFlight, ownerInFlight>>
    BY <1>3, <1>5 DEF Served
  <1>7. /\ h \in Handler /\ h.phase = "idle"
        /\ h.answer.query = h.query
    BY RecordTypes DEF Arrives, Told, Kind
  <1> HIDE DEF h
  <1>8. Base'
    BY <1>1, <1>6, <1>7, BaseIdle
  <1>9. CacheOK'
    <2>1. /\ IsMap(Without(KeyOf(q))) /\ Len(Without(KeyOf(q))) < MaxEntries
          /\ \A j \in DOMAIN Without(KeyOf(q)) : Without(KeyOf(q))[j].key # e.key
      BY <1>1, <1>2, <1>4, WithoutMap DEF Holds
    <2>2. IsMap(Append(Without(KeyOf(q)), e))
          /\ Len(Append(Without(KeyOf(q)), e)) = Len(Without(KeyOf(q))) + 1
      BY <1>4, <2>1, MapAppend
    <2>3. Len(Without(KeyOf(q))) \in Nat
      BY <2>1, LenProperties DEF IsMap
    <2>4. QED
      BY <1>6, <2>1, <2>2, <2>3, CubeLoadAssumption DEF CacheOK
  <1>10. OwnAnswer'
    BY <1>1, <1>6, <1>7, OwnReplaced
  <1>11. QED
    BY <1>8, <1>9, <1>10, Split, PTL

\* A request that misses: it follows, leads or is rejected.
LEMMA MissesKeeps ==
    ASSUME IInv, NEW r \in Request, NEW o \in Owner, NEW q \in Query,
           Follow(r, o, q) \/ Rejected(r, o, q) \/ Lead(r, o, q)
    PROVE  IInv'
  <1>1. Base /\ CacheOK /\ OwnAnswer /\ Types
    BY Split DEF Base
  <1>2. request[r].phase = "idle" /\ cache' = Missed(q)
    BY DEF Follow, Rejected, Lead, Misses
  <1>3. CacheOK'
    BY <1>1, <1>2, WithoutMap DEF Missed, CacheOK
  <1>4. CASE Follow(r, o, q)
    <2>1. PICK l : l = inflight[KeyOf(q)]
      OBVIOUS
    <2>2. request' = [request EXCEPT ![r] = Waiting(o, q, l)]
      BY <1>4, <2>1 DEF Follow
    <2>3. Waiting(o, q, l).answer.kind = "none"
      BY DEF Waiting, Arrives, Told
    <2>4. OwnAnswer'
      BY <1>1, <2>2, <2>3, OwnReplaced
    <2>5. QED
      BY <1>1, <1>3, <1>4, <2>4, BaseFollow, Split, PTL
  <1>5. CASE Rejected(r, o, q)
    <2> DEFINE h == [Arrives(o, q) EXCEPT !.answer = Told("rejected", q)]
    <2>1. /\ request' = [request EXCEPT ![r] = h]
          /\ UNCHANGED <<upstream, inflight, globalInFlight, ownerInFlight>>
      BY <1>5 DEF Rejected
    <2>2. h \in Handler /\ h.phase = "idle" /\ h.answer.kind = "rejected"
      BY RecordTypes DEF Arrives, Told, Kind
    <2> HIDE DEF h
    <2>3. Base'
      BY <1>1, <1>2, <2>1, <2>2, BaseIdle
    <2>4. OwnAnswer'
      BY <1>1, <2>1, <2>2, OwnReplaced
    <2>5. QED
      BY <1>3, <2>3, <2>4, Split, PTL
  <1>6. CASE Lead(r, o, q)
    <2>1. request' = [request EXCEPT ![r] = Waiting(o, q, r)]
      BY <1>6 DEF Lead
    <2>2. Waiting(o, q, r).answer.kind = "none"
      BY DEF Waiting, Arrives, Told
    <2>3. OwnAnswer'
      BY <1>1, <2>1, <2>2, OwnReplaced
    <2>4. QED
      BY <1>1, <1>3, <1>6, <2>3, BaseLead, Split, PTL
  <1>7. QED
    BY <1>4, <1>5, <1>6

\* The end of an upstream call, whatever its outcome: rq is request, but for
\* the gone flags of its clients.
LEMMA SettledKeeps ==
    ASSUME IInv, NEW l \in Uppers, NEW kind \in Kind, NEW rq \in [Request -> Handler],
           Settled(l, kind, rq),
           \A x \in Request : rq[x].query = request[x].query,
           \A x \in Request : ~Awaits(x, l) => rq[x] = request[x]
    PROVE  IInv'
  <1>1. Base /\ CacheOK /\ OwnAnswer /\ Types
    BY Split DEF Base
  <1>2. PICK q \in Query : q = request[l].query
    BY <1>1 DEF Uppers, Types, Handler
  <1>3. /\ Release(l, kind) /\ upstream' = [upstream EXCEPT ![l] = NoEntry]
        /\ cache' = IF kind = "rows" /\ Cacheable(q) THEN Put(q) ELSE cache
        /\ request' = [r \in Request |->
              IF Awaits(r, l)
              THEN [rq[r] EXCEPT !.phase = "idle", !.leader = NoRequest,
                                 !.answer = Told(kind, q)]
              ELSE rq[r]]
    BY <1>2 DEF Settled
  <1>4. \A h \in Handler :
           LET g == [h EXCEPT !.phase = "idle", !.leader = NoRequest, !.answer = Told(kind, q)]
           IN  g \in Handler /\ g.phase = "idle" /\ g.query = h.query /\ g.answer = Told(kind, q)
    <2>1. Told(kind, q) \in Answer
      BY DEF Told, Answer
    <2>2. QED
      BY <2>1 DEF Handler
  <1>5. request' \in [Request -> Handler]
    BY <1>3, <1>4
  <1>6. \A x \in Request : Awaits(x, l) => request'[x].phase = "idle"
    BY <1>3, <1>4
  <1>7. \A x \in Request : ~Awaits(x, l) => request'[x] = request[x]
    BY <1>3
  <1>8. Base'
    BY <1>1, <1>3, <1>5, <1>6, <1>7, BaseSettled
  <1>9. CacheOK'
    BY <1>1, <1>3, PutMap DEF CacheOK
  <1>10. OwnAnswer'
    <2>1. ASSUME NEW x \in Request, request'[x].answer.kind = "rows"
          PROVE  request'[x].answer.query = request'[x].query
      <3>1. CASE Awaits(x, l)
        <4>1. request'[x].answer.query = q /\ request'[x].query = request[x].query
          <5>1. request'[x] = [rq[x] EXCEPT !.phase = "idle", !.leader = NoRequest,
                                            !.answer = Told(kind, q)]
            BY <1>3, <3>1
          <5>2. rq[x] \in Handler
            OBVIOUS
          <5>3. request'[x].query = rq[x].query /\ request'[x].answer = Told(kind, q)
            BY <5>1, <5>2 DEF Handler
          <5>4. QED
            BY <5>3 DEF Told
        <4>2. KeyOf(request[x].query) = KeyOf(q)
          BY <1>1, <1>2, <3>1 DEF Base, SlotInv, LeaderInv, Awaits
        <4>3. request[x].query = q
          BY <1>1, <4>2, KeyInjective DEF Types, Handler
        <4>4. QED
          BY <4>1, <4>3
      <3>2. CASE ~Awaits(x, l)
        BY <1>1, <1>7, <2>1, <3>2 DEF OwnAnswer
      <3>3. QED
        BY <3>1, <3>2
    <2>2. QED
      BY <2>1 DEF OwnAnswer
  <1>11. QED
    BY <1>8, <1>9, <1>10, Split, PTL

\* A pause begins or ends: nothing but the leader's entry changes.
LEMMA PauseKeeps ==
    ASSUME IInv, NEW l \in Request, upstream[l].phase # "none", NEW e \in Entry,
           upstream' = [upstream EXCEPT ![l] = e],
           e.phase # "none", e.refcount = upstream[l].refcount, e.aborted = upstream[l].aborted,
           e.phase = "fetch" => ~upstream[l].aborted,
           UNCHANGED <<request, inflight, globalInFlight, ownerInFlight, cache>>
    PROVE  IInv'
  <1>1. Base /\ CacheOK /\ OwnAnswer
    BY Split
  <1>2. Base'
    BY <1>1, BasePause
  <1>3. CacheOK' /\ OwnAnswer'
    BY <1>1 DEF CacheOK, OwnAnswer
  <1>4. QED
    BY <1>2, <1>3, Split, PTL

LEMMA FetchedKeeps ==
    ASSUME IInv, NEW l \in Request, Fetched(l)
    PROVE  IInv'
  <1>1. l \in Uppers /\ Types
    BY Split DEF Fetched, Uppers, Live, Base
  <1>2. PICK kind \in {"rows", "empty", "error"} : Settled(l, kind, request)
    BY DEF Fetched
  <1>3. kind \in Kind
    BY <1>2 DEF Kind
  <1>4. PICK rq : rq = request
    OBVIOUS
  <1>5. Settled(l, kind, rq) /\ rq \in [Request -> Handler]
    BY <1>1, <1>2, <1>4 DEF Types
  <1>6. QED
    BY <1>1, <1>3, <1>4, <1>5, SettledKeeps

LEMMA ContinueWaitKeeps ==
    ASSUME IInv, NEW l \in Request, ContinueWait(l)
    PROVE  IInv'
  <1>1. l \in Uppers /\ Types /\ OrphanInv
    BY Split DEF ContinueWait, Uppers, Live, Base
  <1>2. CASE Settled(l, "wait", request)
    <2>1. PICK rq : rq = request
      OBVIOUS
    <2>2. Settled(l, "wait", rq) /\ rq \in [Request -> Handler] /\ "wait" \in Kind
      BY <1>1, <1>2, <2>1 DEF Types, Kind
    <2>3. QED
      BY <1>1, <2>1, <2>2, SettledKeeps
  <1>3. CASE ~Settled(l, "wait", request)
    <2>1. /\ upstream[l].phase = "fetch" /\ upstream[l].polls < MaxPolls
          /\ upstream' = [upstream EXCEPT ![l].phase = "sleep", ![l].polls = @ + 1]
          /\ UNCHANGED <<request, inflight, globalInFlight, ownerInFlight, cache>>
      BY <1>3 DEF ContinueWait
    <2>2. PICK e : e = [upstream[l] EXCEPT !.phase = "sleep", !.polls = @ + 1]
      OBVIOUS
    <2>3. upstream[l] \in Entry
      BY <1>1 DEF Types
    <2>4. upstream[l].polls + 1 \in 0 .. MaxPolls
      BY <2>1, <2>3, CubeLoadAssumption DEF Entry
    <2>5. \A n \in 0 .. MaxPolls :
              LET d == [upstream[l] EXCEPT !.phase = "sleep", !.polls = n]
              IN  /\ d \in Entry /\ d.phase = "sleep" /\ d.refcount = upstream[l].refcount
                  /\ d.aborted = upstream[l].aborted
      BY <2>3 DEF Entry
    <2>6. /\ e \in Entry /\ e.phase = "sleep" /\ e.refcount = upstream[l].refcount
          /\ e.aborted = upstream[l].aborted
      BY <2>2, <2>4, <2>5
    <2>7. upstream' = [upstream EXCEPT ![l] = e]
      BY <1>1, <2>1, <2>2 DEF Types
    <2>8. QED
      BY <2>1, <2>6, <2>7, PauseKeeps
  <1>4. QED
    BY <1>2, <1>3

LEMMA PauseEndsKeeps ==
    ASSUME IInv, NEW l \in Request, PauseEnds(l)
    PROVE  IInv'
  <1>1. l \in Uppers /\ Types
    BY Split DEF PauseEnds, Uppers, Live, Base
  <1>2. CASE upstream[l].aborted
    <2>1. PICK rq : rq = request
      OBVIOUS
    <2>2. Settled(l, "gone", rq) /\ rq \in [Request -> Handler] /\ "gone" \in Kind
      BY <1>1, <1>2, <2>1 DEF PauseEnds, Types, Kind
    <2>3. QED
      BY <1>1, <2>1, <2>2, SettledKeeps
  <1>3. CASE ~upstream[l].aborted
    <2>1. /\ upstream[l].phase = "sleep"
          /\ upstream' = [upstream EXCEPT ![l].phase = "fetch"]
          /\ UNCHANGED <<request, inflight, globalInFlight, ownerInFlight, cache>>
      BY <1>3 DEF PauseEnds
    <2>2. PICK e : e = [upstream[l] EXCEPT !.phase = "fetch"]
      OBVIOUS
    <2>3. upstream[l] \in Entry
      BY <1>1 DEF Types
    <2>4. /\ e \in Entry /\ e.phase = "fetch" /\ e.refcount = upstream[l].refcount
          /\ e.aborted = upstream[l].aborted
      BY <2>2, <2>3 DEF Entry
    <2>5. upstream' = [upstream EXCEPT ![l] = e]
      BY <1>1, <2>1, <2>2 DEF Types
    <2>6. QED
      BY <1>3, <2>1, <2>4, <2>5, PauseKeeps
  <1>4. QED
    BY <1>2, <1>3

\* A client disconnects: the upstream call goes on, sleeps on or is aborted.
LEMMA ClosesKeeps ==
    ASSUME IInv, NEW r \in Request, Closes(r)
    PROVE  IInv'
  <1>1. Base /\ CacheOK /\ OwnAnswer /\ Types /\ LeaderInv
    BY Split DEF Base, SlotInv
  <1>2. request[r].phase = "waiting" /\ ~request[r].gone
    BY DEF Closes
  <1>3. PICK l \in Uppers : l = request[r].leader
    BY <1>1, <1>2 DEF LeaderInv
  <1>4. l \in Request /\ Awaits(r, l) /\ upstream[l] \in Entry
    BY <1>1, <1>2, <1>3 DEF Uppers, Awaits, Types
  <1>5. PICK rq : rq = [request EXCEPT ![r].gone = TRUE]
    OBVIOUS
  <1>6. IF Left(r, l) <= 0 /\ upstream[l].phase = "fetch" THEN Settled(l, "gone", rq)
        ELSE /\ upstream' = [upstream EXCEPT ![l].refcount = Left(r, l),
                                             ![l].aborted = @ \/ Left(r, l) <= 0]
             /\ request' = rq
             /\ UNCHANGED <<inflight, globalInFlight, ownerInFlight, cache>>
    BY <1>3, <1>5 DEF Closes
  <1>7. /\ rq[r] = [request[r] EXCEPT !.gone = TRUE] /\ request[r] \in Handler
        /\ \A x \in Request \ {r} : rq[x] = request[x]
        /\ DOMAIN rq = Request
    BY <1>1, <1>5 DEF Types
  <1>8. /\ rq[r].query = request[r].query /\ rq[r].answer = request[r].answer
    BY <1>7 DEF Handler
  <1>9. rq \in [Request -> Handler]
    <2>1. \A b \in BOOLEAN : [request[r] EXCEPT !.gone = b] \in Handler
      BY <1>7 DEF Handler
    <2>2. rq[r] \in Handler
      BY <1>7, <2>1
    <2>3. QED
      BY <1>1, <1>5, <2>2 DEF Types
  <1>10. CASE Left(r, l) <= 0 /\ upstream[l].phase = "fetch"
    <2>1. Settled(l, "gone", rq) /\ "gone" \in Kind
      BY <1>6, <1>10 DEF Kind
    <2>2. \A x \in Request : rq[x].query = request[x].query
      BY <1>7, <1>8
    <2>3. \A x \in Request : ~Awaits(x, l) => rq[x] = request[x]
      BY <1>4, <1>7
    <2>4. QED
      BY <1>9, <2>1, <2>2, <2>3, SettledKeeps
  <1>11. CASE ~(Left(r, l) <= 0 /\ upstream[l].phase = "fetch")
    <2>1. upstream[l].phase \in {"fetch", "sleep"} /\ Left(r, l) \in Int
      BY <1>3, <1>4 DEF Entry, Uppers, Live, Left
    <2>2. Left(r, l) > 0 \/ upstream[l].phase = "sleep"
      BY <1>11, <2>1
    <2>3. /\ upstream' = [upstream EXCEPT ![l].refcount = Left(r, l),
                                          ![l].aborted = @ \/ Left(r, l) <= 0]
          /\ request' = rq /\ request' = [request EXCEPT ![r].gone = TRUE]
          /\ UNCHANGED <<inflight, globalInFlight, ownerInFlight, cache>>
      BY <1>5, <1>6, <1>11
    <2>4. Base'
      BY <1>1, <1>2, <1>4, <2>2, <2>3, BaseLeaves
    <2>5. CacheOK'
      BY <1>1, <2>3 DEF CacheOK
    <2>6. OwnAnswer'
      BY <1>1, <1>7, <1>8, <2>3 DEF OwnAnswer
    <2>7. QED
      BY <2>4, <2>5, <2>6, Split, PTL
  <1>12. QED
    BY <1>10, <1>11

LEMMA ExpiresKeeps ==
    ASSUME IInv, Expires
    PROVE  IInv'
  <1>1. Base /\ CacheOK /\ OwnAnswer
    BY Split
  <1>2. PICK i \in DOMAIN cache : cache' = [cache EXCEPT ![i].valid = FALSE]
    BY DEF Expires
  <1>3. cache[i] \in Cached /\ cache[i].key = KeyOf(cache[i].query)
    <2>1. DOMAIN cache = 1 .. Len(cache) /\ cache \in Seq(Cached)
      BY <1>1, LenProperties DEF CacheOK, IsMap
    <2>2. QED
      BY <1>1, <1>2, <2>1, ElementOfSeq DEF CacheOK, IsMap
  <1>4. PICK e : e = [cache[i] EXCEPT !.valid = FALSE]
    OBVIOUS
  <1>5. e \in Cached
    <2>1. \A b \in BOOLEAN : [cache[i] EXCEPT !.valid = b] \in Cached
      BY <1>3 DEF Cached
    <2>2. QED
      BY <1>4, <2>1
  <1>6. e.key = cache[i].key /\ e.query = cache[i].query
    BY <1>3, <1>4 DEF Cached
  <1>7. PICK c : c = cache
    OBVIOUS
  <1>8. cache' = [c EXCEPT ![i] = e] /\ IsMap(c) /\ i \in DOMAIN c /\ e.key = c[i].key
        /\ e.key = KeyOf(e.query) /\ Len(c) <= MaxEntries
    BY <1>1, <1>2, <1>3, <1>4, <1>6, <1>7 DEF CacheOK
  <1>9. CacheOK'
    <2>1. IsMap([c EXCEPT ![i] = e]) /\ Len([c EXCEPT ![i] = e]) = Len(c)
      BY <1>5, <1>8, MapReplace
    <2>2. QED
      BY <1>8, <2>1 DEF CacheOK
  <1>10. UNCHANGED <<request, upstream, inflight, globalInFlight, ownerInFlight>>
    BY DEF Expires
  <1>11. Base' /\ OwnAnswer'
    BY <1>1, <1>10 DEF Base, Types, SlotInv, LeaderInv, OnePerKey, SlotsExact, CapsRespected,
           RefcountExact, OrphanInv, OwnAnswer, Uppers, Led, Live, Clients, Awaits
  <1>12. QED
    BY <1>9, <1>11, Split, PTL

LEMMA InitHolds == Init => IInv
  <1> SUFFICES ASSUME Init PROVE IInv
    OBVIOUS
  <1>1. PICK o \in Owner, q \in Query : request = [r \in Request |-> Arrives(o, q)]
    BY DEF Init
  <1>2. /\ upstream = [r \in Request |-> NoEntry]
        /\ inflight = [k \in Key |-> NoRequest]
        /\ globalInFlight = 0 /\ ownerInFlight = [p \in Owner |-> 0] /\ cache = <<>>
    BY DEF Init
  <1>3. Types
    BY <1>1, <1>2, RecordTypes DEF Types
  <1>4. Uppers = {} /\ \A p : Led(p) = {}
    BY <1>2 DEF Uppers, Led, Live, NoEntry
  <1>5. Cardinality(Uppers) = 0 /\ \A p : Cardinality(Led(p)) = 0
    BY <1>4, FS_EmptySet
  <1>6. \A r \in Request : request[r].phase = "idle" /\ request[r].answer.kind = "none"
    BY <1>1 DEF Arrives, Told
  <1>7. LeaderInv /\ OnePerKey /\ RefcountExact /\ OrphanInv /\ OwnAnswer
    BY <1>2, <1>4, <1>6 DEF LeaderInv, OnePerKey, RefcountExact, OrphanInv, OwnAnswer
  <1>8. SlotsExact /\ CapsRespected
    BY <1>2, <1>5, CubeLoadAssumption DEF SlotsExact, CapsRespected
  <1>9. CacheOK
    <2>1. cache \in Seq(Cached) /\ Len(cache) = 0 /\ DOMAIN cache = {}
      BY <1>2, EmptySeq
    <2>2. QED
      BY <2>1, CubeLoadAssumption DEF CacheOK, IsMap
  <1>10. QED
    BY <1>3, <1>7, <1>8, <1>9, Split DEF Base, SlotInv

LEMMA NextKeeps == IInv /\ [Next]_vars => IInv'
  <1> SUFFICES ASSUME IInv, [Next]_vars PROVE IInv'
    OBVIOUS
  <1>1. ASSUME NEW r \in Request, Load(r) PROVE IInv'
    BY <1>1, ServedKeeps, MissesKeeps DEF Load
  <1>2. ASSUME NEW r \in Request, Closes(r) PROVE IInv'
    BY <1>2, ClosesKeeps
  <1>3. ASSUME NEW l \in Request, Fetched(l) \/ ContinueWait(l) \/ PauseEnds(l) PROVE IInv'
    BY <1>3, FetchedKeeps, ContinueWaitKeeps, PauseEndsKeeps
  <1>4. CASE Expires
    BY <1>4, ExpiresKeeps
  <1>5. CASE UNCHANGED vars
    BY <1>5 DEF vars, IInv, TypeOK, CacheInv, SlotInv, LeaderInv, OnePerKey, SlotsExact,
           CapsRespected, RefcountExact, OrphanInv, OwnAnswer, Uppers, Led, Live, Clients, Awaits
  <1>6. QED
    BY <1>1, <1>2, <1>3, <1>4, <1>5 DEF Next
-----------------------------------------------------------------------------
(* The theorems. *)

\* The inductive invariant: entries, waiting handlers, counters, the in-flight
\* map and the cache agree in every reachable state.
THEOREM Invariance == Spec => []IInv
  BY InitHolds, NextKeeps, PTL DEF Spec

\* Every variable keeps its type, and the result cache stays a Map within its
\* cap, whatever expires, is evicted or is written again.
THEOREM TypeCorrect == Spec => []TypeOK
  <1>1. IInv => TypeOK
    BY DEF IInv
  <1>2. QED
    BY <1>1, Invariance, PTL

\* The counters of admitLoad count the upstream calls in flight: no path of an
\* upstream call leaks a slot or frees one twice.
THEOREM SlotsCorrect == Spec => []SlotsExact
  <1>1. IInv => SlotsExact
    BY DEF IInv, SlotInv
  <1>2. QED
    BY <1>1, Invariance, PTL

\* The proxy never has more queries at Cube than the caps, in total and per
\* owner, however many clients it has.
THEOREM CapsHold == Spec => []CapsRespected
  <1>1. IInv => CapsRespected
    BY DEF IInv, SlotInv
  <1>2. QED
    BY <1>1, Invariance, PTL

\* At most one upstream call per key, and the in-flight map names it.
THEOREM OneUpstreamPerKey == Spec => []OnePerKey
  <1>1. IInv => OnePerKey
    BY DEF IInv, SlotInv
  <1>2. QED
    BY <1>1, Invariance, PTL

\* A handler that waits awaits an upstream call in flight for its own key.
THEOREM WaitersHaveCall == Spec => []LeaderInv
  <1>1. IInv => LeaderInv
    BY DEF IInv, SlotInv
  <1>2. QED
    BY <1>1, Invariance, PTL

\* The refcount of an entry is the number of its connected clients.
THEOREM RefcountCorrect == Spec => []RefcountExact
  <1>1. IInv => RefcountExact
    BY DEF IInv
  <1>2. QED
    BY <1>1, Invariance, PTL

\* Rows always answer the query the client asked, cached and shared ones too.
THEOREM AnswersAreOwn == Spec => []OwnAnswer
  <1>1. IInv => OwnAnswer
    BY DEF IInv
  <1>2. QED
    BY <1>1, Invariance, PTL

\* Only the end of its own pause sends a query again.
LEMMA PollStep ==
    ASSUME IInv, [Next]_vars, NEW l \in Request,
           upstream[l].phase = "sleep", upstream'[l].phase = "fetch"
    PROVE  ~upstream[l].aborted
  <1>1. Base /\ Types /\ upstream[l] \in Entry
    BY Split DEF Base, Types
  <1>2. SUFFICES ASSUME upstream[l].aborted PROVE FALSE
    OBVIOUS
  <1>3. upstream'[l].phase # upstream[l].phase /\ upstream' # upstream
    OBVIOUS
  <1>4. ASSUME NEW m \in Request, NEW kind, NEW rq, Settled(m, kind, rq)
        PROVE  FALSE
    <2>1. upstream' = [upstream EXCEPT ![m] = NoEntry]
      BY <1>4 DEF Settled
    <2>2. upstream'[l].phase \in {"none", upstream[l].phase}
      BY <1>1, <2>1 DEF Types, NoEntry
    <2>3. QED
      BY <2>2
  <1>5. ASSUME NEW m \in Request, upstream[m] \in Entry, NEW n, NEW b,
               upstream' = [upstream EXCEPT ![m].refcount = n, ![m].aborted = b]
        PROVE  FALSE
    <2>1. CASE m = l
      <3>1. upstream'[l] = [upstream[l] EXCEPT !.refcount = n, !.aborted = b]
        BY <1>1, <1>5, <2>1 DEF Types
      <3>2. upstream'[l].phase = upstream[l].phase
        BY <1>1, <3>1 DEF Entry
      <3>3. QED
        BY <1>3, <3>2
    <2>2. CASE m # l
      <3>1. upstream'[l] = upstream[l]
        BY <1>1, <1>5, <2>2 DEF Types
      <3>2. QED
        BY <1>3, <3>1
    <2>3. QED
      BY <2>1, <2>2
  <1>6. ASSUME NEW r \in Request, NEW o \in Owner, NEW q \in Query,
               Served(r, o, q) \/ Follow(r, o, q) \/ Rejected(r, o, q) \/ Lead(r, o, q)
        PROVE  FALSE
    <2>1. CASE Served(r, o, q) \/ Rejected(r, o, q)
      BY <1>3, <2>1 DEF Served, Rejected
    <2>2. CASE Follow(r, o, q)
      <3>1. PICK m \in Request : m = inflight[KeyOf(q)]
        BY <1>1, <2>2, KeyType DEF Follow, Joinable, Types
      <3>2. upstream' = [upstream EXCEPT ![m].refcount = @ + 1] /\ upstream[m] \in Entry
        BY <1>1, <2>2, <3>1 DEF Follow, Types
      <3>3. CASE m = l
        <4>1. upstream'[l] = [upstream[l] EXCEPT !.refcount = @ + 1]
          BY <1>1, <3>2, <3>3 DEF Types
        <4>2. upstream'[l].phase = upstream[l].phase
          BY <1>1, <4>1 DEF Entry
        <4>3. QED
          BY <1>3, <4>2
      <3>4. CASE m # l
        <4>1. upstream'[l] = upstream[l]
          BY <1>1, <3>2, <3>4 DEF Types
        <4>2. QED
          BY <1>3, <4>1
      <3>5. QED
        BY <3>3, <3>4
    <2>3. CASE Lead(r, o, q)
      <3>1. request[r].phase = "idle" /\ upstream' = [upstream EXCEPT ![r] = NewEntry]
        BY <2>3 DEF Lead, Misses
      <3>2. r # l
        BY <1>1, <3>1, IdleFree DEF Uppers, Live
      <3>3. upstream'[l] = upstream[l]
        BY <1>1, <3>1, <3>2 DEF Types
      <3>4. QED
        BY <1>3, <3>3
    <2>4. QED
      BY <1>6, <2>1, <2>2, <2>3
  <1>7. ASSUME NEW r \in Request, Closes(r) PROVE FALSE
    <2>1. PICK m \in Request : m = request[r].leader
      BY <1>1, <1>7 DEF Closes, Base, SlotInv, LeaderInv, Uppers
    <2>2. PICK rq, n, b :
              \/ Settled(m, "gone", rq)
              \/ upstream' = [upstream EXCEPT ![m].refcount = n, ![m].aborted = b]
      <3>1. IF Left(r, m) <= 0 /\ upstream[m].phase = "fetch"
            THEN Settled(m, "gone", [request EXCEPT ![r].gone = TRUE])
            ELSE upstream' = [upstream EXCEPT ![m].refcount = Left(r, m),
                                              ![m].aborted = @ \/ Left(r, m) <= 0]
        BY <1>7, <2>1 DEF Closes
      <3>2. CASE Left(r, m) <= 0 /\ upstream[m].phase = "fetch"
        BY <3>1, <3>2
      <3>3. CASE ~(Left(r, m) <= 0 /\ upstream[m].phase = "fetch")
        <4>1. PICK n, b : n = Left(r, m) /\ b = (upstream[m].aborted \/ Left(r, m) <= 0)
          OBVIOUS
        <4>2. upstream' = [upstream EXCEPT ![m].refcount = n, ![m].aborted = b]
          BY <3>1, <3>3, <4>1
        <4>3. QED
          BY <4>2
      <3>4. QED
        BY <3>2, <3>3
    <2>3. upstream[m] \in Entry
      BY <1>1 DEF Types
    <2>4. QED
      BY <1>4, <1>5, <2>2, <2>3
  <1>8. ASSUME NEW m \in Request, Fetched(m) PROVE FALSE
    <2>1. PICK rq, kind : Settled(m, kind, rq)
      BY <1>8 DEF Fetched
    <2>2. QED
      BY <1>4, <2>1
  <1>9. ASSUME NEW m \in Request, ContinueWait(m) PROVE FALSE
    <2>1. CASE \E rq : Settled(m, "wait", rq)
      BY <1>4, <2>1
    <2>2. CASE ~\E rq : Settled(m, "wait", rq)
      <3>1. /\ upstream[m].phase = "fetch"
            /\ upstream' = [upstream EXCEPT ![m].phase = "sleep", ![m].polls = @ + 1]
        BY <1>9, <2>2 DEF ContinueWait
      <3>2. m # l
        BY <3>1
      <3>3. upstream'[l] = upstream[l]
        BY <1>1, <3>1, <3>2 DEF Types
      <3>4. QED
        BY <1>3, <3>3
    <2>3. QED
      BY <2>1, <2>2
  <1>10. ASSUME NEW m \in Request, PauseEnds(m) PROVE FALSE
    <2>1. CASE \E rq : Settled(m, "gone", rq)
      BY <1>4, <2>1
    <2>2. CASE ~\E rq : Settled(m, "gone", rq)
      <3>1. ~upstream[m].aborted /\ upstream' = [upstream EXCEPT ![m].phase = "fetch"]
        BY <1>10, <2>2 DEF PauseEnds
      <3>2. m # l
        BY <1>2, <3>1
      <3>3. upstream'[l] = upstream[l]
        BY <1>1, <3>1, <3>2 DEF Types
      <3>4. QED
        BY <1>3, <3>3
    <2>3. QED
      BY <2>1, <2>2
  <1>11. CASE Expires \/ UNCHANGED vars
    BY <1>3, <1>11 DEF Expires, vars
  <1>12. QED
    BY <1>6, <1>7, <1>8, <1>9, <1>10, <1>11 DEF Next, Load

\* A query whose clients have all disconnected is not sent to Cube again.
THEOREM OrphansStop == Spec => OrphansDoNotPoll
  <1> DEFINE Polls(l) == upstream[l].phase = "sleep" /\ upstream'[l].phase = "fetch"
  <1>1. ASSUME IInv, [Next]_vars, NEW l \in Request, Polls(l)
        PROVE  Clients(l) # {}
    <2>1. Types /\ OrphanInv /\ RefcountExact /\ Base
      BY <1>1, Split DEF Base
    <2>2. ~upstream[l].aborted
      BY <1>1, PollStep DEF vars
    <2>3. l \in Uppers /\ upstream[l].refcount \in Int
      BY <1>1, <2>1 DEF Uppers, Live, Types, Entry
    <2>4. ~(upstream[l].refcount <= 0)
      BY <2>1, <2>2, <2>3 DEF OrphanInv
    <2>5. Cardinality(Clients(l)) # 0
      BY <2>1, <2>3, <2>4 DEF RefcountExact
    <2>6. QED
      BY <2>5, FS_EmptySet
  <1>2. IInv /\ [Next]_vars => [\A l \in Request : Polls(l) => Clients(l) # {}]_vars
    BY <1>1
  <1>3. QED
    BY <1>2, Invariance, PTL DEF Spec, OrphansDoNotPoll
-----------------------------------------------------------------------------
(* CubeLoad implements SharedCalls: the cache, as the keys it would serve.   *)

Kept == StoredInv /\ CacheOK

LEMMA ValidIs == Valid = {k \in Key : \E x \in Elements(cache) : x.key = k /\ x.valid}
  BY DEF Valid, Elements

LEMMA StoredIs == StoredInv <=> \A x \in Elements(cache) : Cacheable(x.query)
  BY DEF StoredInv, Elements

LEMMA ValidNext == Valid' = {k \in Key : \E x \in Elements(cache)' : x.key = k /\ x.valid}
  BY DEF Valid, Elements

LEMMA StoredNext == StoredInv' <=> \A x \in Elements(cache)' : Cacheable(x.query)
  BY DEF StoredInv, Elements, Cacheable

LEMMA ElementsTyped ==
    ASSUME CacheOK, NEW i \in DOMAIN cache
    PROVE  cache[i] \in Cached /\ cache[i].key = KeyOf(cache[i].query) /\ cache[i].query \in Query
  <1>1. DOMAIN cache = 1 .. Len(cache) /\ cache \in Seq(Cached)
    BY LenProperties DEF CacheOK, IsMap
  <1>2. cache[i] \in Cached
    BY <1>1, ElementOfSeq
  <1>3. QED
    BY <1>2 DEF CacheOK, IsMap, Cached

\* A query hits the cache exactly if its key is among the valid ones.
LEMMA HitIs ==
    ASSUME Kept, NEW q \in Query
    PROVE  Hit(q) <=> KeyOf(q) \in Valid
  <1>1. ASSUME Hit(q) PROVE KeyOf(q) \in Valid
    <2>1. Lookup(KeyOf(q)) \in DOMAIN cache /\ cache[Lookup(KeyOf(q))].key = KeyOf(q)
      BY <1>1 DEF Hit, Holds, Lookup
    <2>2. QED
      BY <1>1, <2>1, KeyType DEF Hit, Valid
  <1>2. ASSUME KeyOf(q) \in Valid PROVE Hit(q)
    <2>1. PICK i \in DOMAIN cache : cache[i].key = KeyOf(q) /\ cache[i].valid
      BY <1>2 DEF Valid
    <2>2. Holds(KeyOf(q)) /\ Lookup(KeyOf(q)) = i
      BY <2>1 DEF Holds, Lookup, Kept, CacheOK, IsMap
    <2>3. cache[i].query = q
      BY <2>1, ElementsTyped, KeyInjective DEF Kept
    <2>4. Cacheable(q)
      BY <2>3 DEF Kept, StoredInv
    <2>5. QED
      BY <2>1, <2>2, <2>4 DEF Hit
  <1>3. QED
    BY <1>1, <1>2

\* A lookup that misses does not change what the cache would serve.
LEMMA MissedValid ==
    ASSUME Kept, NEW r \in Request, NEW q \in Query, Misses(r, q)
    PROVE  StoredInv' /\ Valid' = Valid /\ KeyOf(q) \notin Valid
  <1>1. KeyOf(q) \notin Valid /\ cache' = Missed(q)
    BY HitIs DEF Misses
  <1>2. CASE Cacheable(q)
    <2>1. Elements(cache)' = {x \in Elements(cache) : x.key # KeyOf(q)}
      BY <1>1, <1>2, WithoutMap DEF Missed, Kept
    <2>2. StoredInv'
      BY <2>1, StoredIs, StoredNext DEF Kept
    <2>3. Valid' = Valid
      BY <1>1, <2>1, ValidIs, ValidNext
    <2>4. QED
      BY <1>1, <2>2, <2>3
  <1>3. CASE ~Cacheable(q)
    BY <1>1, <1>3 DEF Missed, Kept, StoredInv, Valid
  <1>4. QED
    BY <1>2, <1>3

\* Neither does a hit, which makes its entry the youngest.
LEMMA ServedValid ==
    ASSUME Kept, NEW r \in Request, NEW o \in Owner, NEW q \in Query, Served(r, o, q)
    PROVE  /\ StoredInv' /\ Valid' = Valid /\ KeyOf(q) \in Valid
           /\ cache[Lookup(KeyOf(q))].query = q
  <1>1. Hit(q) /\ Lookup(KeyOf(q)) \in DOMAIN cache /\ cache[Lookup(KeyOf(q))].key = KeyOf(q)
    BY DEF Served, Hit, Holds, Lookup
  <1>2. PICK e : e = cache[Lookup(KeyOf(q))]
    OBVIOUS
  <1>3. /\ e \in Cached /\ e.key = KeyOf(e.query) /\ e.query \in Query
        /\ e.key = KeyOf(q) /\ e \in Elements(cache)
    BY <1>1, <1>2, ElementsTyped DEF Kept, Elements
  <1>4. cache' = Append(Without(KeyOf(q)), e)
    BY <1>2 DEF Served
  <1>5. /\ IsMap(Without(KeyOf(q)))
        /\ \A j \in DOMAIN Without(KeyOf(q)) : Without(KeyOf(q))[j].key # e.key
        /\ Elements(Without(KeyOf(q))) = {x \in Elements(cache) : x.key # KeyOf(q)}
    BY <1>3, WithoutMap DEF Kept
  <1>6. Elements(cache)' = {x \in Elements(cache) : x.key # KeyOf(q)} \cup {e}
    BY <1>3, <1>4, <1>5, MapAppend
  <1>7. \A x \in Elements(cache) : x.key = KeyOf(q) => x = e
    BY <1>1, <1>2 DEF Kept, CacheOK, IsMap, Elements
  <1>8. Elements(cache)' = Elements(cache)
    BY <1>3, <1>6, <1>7
  <1>9. StoredInv' /\ Valid' = Valid
    BY <1>8, StoredIs, StoredNext, ValidIs, ValidNext DEF Kept
  <1>10. QED
    BY <1>1, <1>2, <1>3, <1>9, HitIs, KeyInjective

\* What a call that ends stores is the rows of its own query.
LEMMA SettledValid ==
    ASSUME Kept, NEW q \in Query, NEW kind,
           cache' = IF kind = "rows" /\ Cacheable(q) THEN Put(q) ELSE cache
    PROVE  /\ StoredInv'
           /\ Valid' \subseteq Valid \cup IF kind = "rows" THEN {KeyOf(q)} ELSE {}
  <1>1. CASE kind = "rows" /\ Cacheable(q)
    <2>1. PICK e : e = [key |-> KeyOf(q), query |-> q, valid |-> TRUE]
      OBVIOUS
    <2>2. Elements(cache)' \subseteq Elements(cache) \cup {e}
      BY <1>1, <2>1, PutMap DEF Kept
    <2>3. e.key = KeyOf(q) /\ e.query = q
      BY <2>1
    <2>4. StoredInv'
      BY <1>1, <2>2, <2>3, StoredIs, StoredNext DEF Kept
    <2>5. Valid' \subseteq Valid \cup {KeyOf(q)}
      BY <2>2, <2>3, ValidIs, ValidNext
    <2>6. QED
      BY <1>1, <2>4, <2>5
  <1>2. CASE ~(kind = "rows" /\ Cacheable(q))
    BY <1>2 DEF Kept, StoredInv, Valid
  <1>3. QED
    BY <1>1, <1>2

LEMMA ExpiresValid ==
    ASSUME Kept, Expires
    PROVE  StoredInv' /\ Valid' \subseteq Valid
  <1>1. PICK i \in DOMAIN cache : cache' = [cache EXCEPT ![i].valid = FALSE]
    BY DEF Expires
  <1>2. DOMAIN cache' = DOMAIN cache
    BY <1>1
  <1>3. \A j \in DOMAIN cache : cache'[j].query = cache[j].query
    BY <1>1, ElementsTyped DEF Kept, Cached
  <1>4. \A j \in DOMAIN cache :
           cache'[j].key = cache[j].key /\ (cache'[j].valid => cache[j].valid)
    BY <1>1, ElementsTyped DEF Kept, Cached
  <1>5. StoredInv'
    BY <1>2, <1>3 DEF Kept, StoredInv, Cacheable
  <1>6. Valid' \subseteq Valid
    BY <1>2, <1>4 DEF Valid
  <1>7. QED
    BY <1>5, <1>6

\* The cache serves no more keys than its cap.
LEMMA ValidBound == CacheOK => Cardinality(Valid) <= MaxEntries
  <1> SUFFICES ASSUME CacheOK PROVE Cardinality(Valid) <= MaxEntries
    OBVIOUS
  <1>1. Len(cache) \in Nat /\ DOMAIN cache = 1 .. Len(cache) /\ Len(cache) <= MaxEntries
    BY LenProperties DEF CacheOK, IsMap
  <1> DEFINE T == {cache[i].key : i \in DOMAIN cache}
             f == [i \in DOMAIN cache |-> cache[i].key]
  <1>2. IsFiniteSet(DOMAIN cache) /\ Cardinality(DOMAIN cache) = Len(cache)
    <2>1. PICK n \in Nat : n = Len(cache)
      BY <1>1
    <2>2. IsFiniteSet(1 .. n) /\ Cardinality(1 .. n) = IF 1 > n THEN 0 ELSE n - 1 + 1
      BY FS_Interval
    <2>3. QED
      BY <1>1, <2>1, <2>2
  <1>3. f \in Surjection(DOMAIN cache, T)
    BY DEF Surjection
  <1>4. IsFiniteSet(T) /\ Cardinality(T) <= Len(cache)
    BY <1>2, <1>3, FS_Surjection
  <1>5. Valid \subseteq T
    BY DEF Valid
  <1> HIDE DEF T
  <1>6. /\ IsFiniteSet(Valid) /\ Cardinality(Valid) <= Cardinality(T)
        /\ Cardinality(T) \in Nat /\ Cardinality(Valid) \in Nat
    BY <1>4, <1>5, FS_Subset, FS_CardinalityType
  <1>7. QED
    BY <1>1, <1>4, <1>6, CubeLoadAssumption
-----------------------------------------------------------------------------
(* What SharedCalls sees of the handlers and the map.                        *)

calls  == [k \in Key |-> Payer(k)]
shares == [k \in Key |-> Sharers(k)]
away   == {r \in Request : request[r].phase = "waiting" /\ request[r].gone}
said   == [r \in Request |-> [kind |-> request[r].answer.kind,
                              query |-> KeyOf(request[r].answer.query)]]

\* The entry of a key is live, its leader waits for it, and all who wait for
\* the key wait for that entry.
LEMMA EntryIs ==
    ASSUME Base, NEW k \in Key
    PROVE  /\ k \in Shared!Calls <=> inflight[k] # NoRequest
           /\ inflight[k] # NoRequest =>
                  /\ inflight[k] \in Uppers /\ KeyOf(request[inflight[k]].query) = k
                  /\ inflight[k] \in Sharers(k)
           /\ \A r \in Request : r \in Sharers(k) =>
                  inflight[k] # NoRequest /\ Awaits(r, inflight[k])
           /\ inflight[k] # NoRequest =>
                  \A r \in Request : Awaits(r, inflight[k]) => r \in Sharers(k)
  <1>1. k \in Shared!Calls <=> inflight[k] # NoRequest
    BY DEF Shared!Calls, Payer
  <1>2. ASSUME inflight[k] # NoRequest
        PROVE  inflight[k] \in Uppers /\ KeyOf(request[inflight[k]].query) = k
    BY <1>2 DEF Base, Types, SlotInv, OnePerKey, Uppers
  <1>3. ASSUME inflight[k] # NoRequest PROVE inflight[k] \in Sharers(k)
    BY <1>2, <1>3 DEF Base, SlotInv, LeaderInv, Awaits, Sharers, Uppers
  <1>4. ASSUME NEW r \in Request, r \in Sharers(k)
        PROVE  inflight[k] # NoRequest /\ Awaits(r, inflight[k])
    <2>1. /\ request[r].phase = "waiting" /\ request[r].leader \in Uppers
          /\ KeyOf(request[request[r].leader].query) = k
      BY <1>4 DEF Base, SlotInv, LeaderInv, Sharers
    <2>2. inflight[k] = request[r].leader
      BY <2>1 DEF Base, SlotInv, OnePerKey
    <2>3. QED
      BY <2>1, <2>2, CubeLoadAssumption DEF Awaits, Uppers
  <1>5. ASSUME inflight[k] # NoRequest, NEW r \in Request, Awaits(r, inflight[k])
        PROVE  r \in Sharers(k)
    BY <1>2, <1>5 DEF Base, SlotInv, LeaderInv, Awaits, Sharers
  <1>6. QED
    BY <1>1, <1>2, <1>3, <1>4, <1>5

LEMMA UpperIs ==
    ASSUME Base, NEW l \in Uppers
    PROVE  /\ l \in Request /\ request[l].query \in Query /\ request[l].owner \in Owner
           /\ KeyOf(request[l].query) \in Key
           /\ inflight[KeyOf(request[l].query)] = l /\ l # NoRequest
           /\ \A r \in Request : r \in Sharers(KeyOf(request[l].query)) <=> Awaits(r, l)
  <1>1. l \in Request /\ request[l].query \in Query /\ request[l].owner \in Owner
    BY DEF Base, Types, Uppers, Handler
  <1>2. KeyOf(request[l].query) \in Key
    BY <1>1, KeyType
  <1>3. inflight[KeyOf(request[l].query)] = l /\ l # NoRequest
    BY <1>1, CubeLoadAssumption DEF Base, SlotInv, OnePerKey
  <1>4. QED
    BY <1>1, <1>2, <1>3, EntryIs

\* The leaders and the keys of their entries correspond one to one, so the
\* counters tell exactly whether SharedCalls has room.
LEMMA Paired ==
    ASSUME Base, NEW L \in SUBSET Uppers
    PROVE  Cardinality({KeyOf(request[l].query) : l \in L}) = Cardinality(L)
  <1> DEFINE f == [l \in L |-> KeyOf(request[l].query)]
             T == {KeyOf(request[l].query) : l \in L}
  <1>1. f \in [L -> T] /\ \A t \in T : \E l \in L : f[l] = t
    OBVIOUS
  <1>2. \A a, b \in L : f[a] = f[b] => a = b
    BY UpperIs
  <1>3. f \in Bijection(L, T)
    BY <1>1, <1>2 DEF Bijection, Injection, Surjection, IsInjective
  <1>4. IsFiniteSet(L)
    BY Finite, FS_Subset
  <1> HIDE DEF f, T
  <1>5. ExistsBijection(L, T)
    BY <1>3 DEF ExistsBijection
  <1>6. Cardinality(T) = Cardinality(L)
    BY <1>4, <1>5, FS_Bijection
  <1>7. QED
    BY <1>6 DEF T

\* SharedCalls counts with the operator of its own instance.
LEMMA CountIs ==
    ASSUME NEW S
    PROVE  Shared!Cardinality(S) = Cardinality(S)
  BY DEF Cardinality, Shared!Cardinality

LEMMA RoomIs ==
    ASSUME Base, NEW o \in Owner
    PROVE  Shared!HasRoom(o) <=> HasSlot(o)
  <1>1. Shared!Calls = {KeyOf(request[l].query) : l \in Uppers}
    <2>1. ASSUME NEW k \in Shared!Calls
          PROVE  k \in {KeyOf(request[l].query) : l \in Uppers}
      <3>1. k \in Key
        BY DEF Shared!Calls
      <3>2. QED
        BY <3>1, EntryIs
    <2>2. ASSUME NEW l \in Uppers PROVE KeyOf(request[l].query) \in Shared!Calls
      BY UpperIs, EntryIs
    <2>3. QED
      BY <2>1, <2>2
  <1>2. Shared!CallsOf(o) = {KeyOf(request[l].query) : l \in Led(o)}
    <2>1. ASSUME NEW k \in Key, o \in Payer(k)
          PROVE  k \in {KeyOf(request[l].query) : l \in Led(o)}
      <3>1. inflight[k] # NoRequest /\ o = request[inflight[k]].owner
        BY <2>1 DEF Payer
      <3>2. inflight[k] \in Led(o) /\ KeyOf(request[inflight[k]].query) = k
        BY <3>1, EntryIs DEF Led, Uppers
      <3>3. QED
        BY <3>2
    <2>2. ASSUME NEW l \in Led(o)
          PROVE  KeyOf(request[l].query) \in Key /\ o \in Payer(KeyOf(request[l].query))
      <3>1. l \in Uppers /\ request[l].owner = o
        BY DEF Led, Uppers
      <3>2. QED
        BY <3>1, UpperIs DEF Payer
    <2>3. Shared!CallsOf(o) = {k \in Key : o \in Payer(k)}
      BY DEF Shared!CallsOf
    <2>4. QED
      BY <2>1, <2>2, <2>3
  <1>3. Cardinality(Shared!Calls) = Cardinality(Uppers)
    BY <1>1, Paired
  <1>4. Cardinality(Shared!CallsOf(o)) = Cardinality(Led(o))
    <2>1. Led(o) \in SUBSET Uppers
      BY DEF Led, Uppers
    <2>2. QED
      BY <1>2, <2>1, Paired
  <1>5. /\ globalInFlight = Cardinality(Uppers)
        /\ ownerInFlight[o] = Cardinality(Led(o))
    BY DEF Base, SlotInv, SlotsExact
  <1>6. Shared!HasRoom(o) <=> /\ Cardinality(Shared!Calls) < MaxGlobal
                             /\ Cardinality(Shared!CallsOf(o)) < MaxPerOwner
    BY CountIs DEF Shared!HasRoom
  <1>7. QED
    BY <1>3, <1>4, <1>5, <1>6 DEF HasSlot

\* The handler of an idle request starts anew as h, with query q.
Asks(r, h, q, kind) ==
    /\ h \in Handler /\ ~h.gone /\ h.query = q /\ h.answer = Told(kind, q)
    /\ request[r].phase = "idle" /\ request' = [request EXCEPT ![r] = h]

LEMMA IdleView ==
    ASSUME Base, NEW r \in Request, NEW h, NEW q, NEW kind, Asks(r, h, q, kind)
    PROVE  /\ \A k \in Key : r \notin Sharers(k)
           /\ \A k \in Key : h.phase = "idle" \/ k # KeyOf(q) => Sharers(k)' = Sharers(k)
           /\ h.phase = "waiting" => Sharers(KeyOf(q))' = Sharers(KeyOf(q)) \cup {r}
           /\ \A k \in Key : inflight'[k] = inflight[k] => Payer(k)' = Payer(k)
           /\ away' = away
           /\ Shared!Asks(r, KeyOf(q), kind)
  <1>1. request'[r] = h /\ \A x \in Request \ {r} : request'[x] = request[x]
    BY DEF Base, Types, Asks
  <1>2. \A k \in Key : r \notin Sharers(k)
    BY DEF Sharers, Asks
  <1>3. /\ \A k \in Key : h.phase = "idle" \/ k # KeyOf(q) => Sharers(k)' = Sharers(k)
        /\ h.phase = "waiting" => Sharers(KeyOf(q))' = Sharers(KeyOf(q)) \cup {r}
    BY <1>1 DEF Sharers, KeyOf, Asks
  <1>4. ASSUME NEW k \in Key, inflight'[k] = inflight[k]
        PROVE  Payer(k)' = Payer(k)
    <2>1. CASE inflight[k] = NoRequest
      BY <1>4, <2>1 DEF Payer
    <2>2. CASE inflight[k] # NoRequest
      <3>1. inflight[k] \in Uppers /\ inflight[k] \in Request
        BY <2>2, EntryIs DEF Uppers
      <3>2. inflight[k] # r
        BY <3>1, IdleFree DEF Asks
      <3>3. QED
        BY <1>1, <1>4, <2>2, <3>1, <3>2 DEF Payer
    <2>3. QED
      BY <2>1, <2>2
  <1>5. away' = away
    BY <1>1 DEF away, Asks
  <1>6. said'[r] = Told(kind, KeyOf(q)) /\ \A x \in Request \ {r} : said'[x] = said[x]
    BY <1>1 DEF said, KeyOf, Told, Asks
  <1>7. Shared!Asks(r, KeyOf(q), kind)
    BY <1>2, <1>6 DEF Shared!Asks, Shared!Answer, said, Told
  <1>8. QED
    BY <1>2, <1>3, <1>4, <1>5, <1>7
-----------------------------------------------------------------------------
(* Every step of CubeLoad is a step of SharedCalls, or changes nothing of it. *)

LEMMA ServedRefines ==
    ASSUME Base, Kept, NEW r \in Request, NEW o \in Owner, NEW q \in Query, Served(r, o, q)
    PROVE  Shared!GiveAgain(r, KeyOf(q))
  <1>1. Valid' = Valid /\ KeyOf(q) \in Valid /\ cache[Lookup(KeyOf(q))].query = q
    BY ServedValid
  <1>2. PICK h : h = [Arrives(o, q) EXCEPT !.answer = Told("rows", q)]
    OBVIOUS
  <1>3. h \in Handler /\ ~h.gone /\ h.phase = "idle" /\ h.query = q
        /\ h.answer = Told("rows", q)
    BY <1>2, RecordTypes DEF Arrives, Kind
  <1>4. /\ request[r].phase = "idle" /\ request' = [request EXCEPT ![r] = h]
        /\ UNCHANGED inflight
    BY <1>1, <1>2 DEF Served
  <1>5. /\ \A k \in Key : r \notin Sharers(k) /\ Sharers(k)' = Sharers(k) /\ Payer(k)' = Payer(k)
        /\ away' = away
        /\ Shared!Asks(r, KeyOf(q), "rows")
    <2>1. Asks(r, h, q, "rows")
      BY <1>3, <1>4 DEF Asks
    <2>2. QED
      BY <1>3, <1>4, <2>1, IdleView
  <1>6. QED
    BY <1>1, <1>5, KeyType DEF Shared!GiveAgain, away

LEMMA RejectedRefines ==
    ASSUME Base, Kept, NEW r \in Request, NEW o \in Owner, NEW q \in Query, Rejected(r, o, q)
    PROVE  Shared!Refuse(r, o, KeyOf(q))
  <1>1. Valid' = Valid /\ KeyOf(q) \notin Valid
    BY MissedValid DEF Rejected
  <1>2. PICK h : h = [Arrives(o, q) EXCEPT !.answer = Told("rejected", q)]
    OBVIOUS
  <1>3. h \in Handler /\ ~h.gone /\ h.phase = "idle" /\ h.query = q
        /\ h.answer = Told("rejected", q)
    BY <1>2, RecordTypes DEF Arrives, Kind
  <1>4. /\ request[r].phase = "idle" /\ request' = [request EXCEPT ![r] = h]
        /\ UNCHANGED inflight
    BY <1>2 DEF Rejected, Misses
  <1>5. /\ \A k \in Key : r \notin Sharers(k) /\ Sharers(k)' = Sharers(k) /\ Payer(k)' = Payer(k)
        /\ away' = away
        /\ Shared!Asks(r, KeyOf(q), "rejected")
    <2>1. Asks(r, h, q, "rejected")
      BY <1>3, <1>4 DEF Asks
    <2>2. QED
      BY <1>3, <1>4, <2>1, IdleView
  <1>6. KeyOf(q) \in Key /\ KeyOf(q) \notin Shared!Calls /\ ~Shared!HasRoom(o)
    BY KeyType, EntryIs, RoomIs DEF Rejected, Joinable
  <1>7. QED
    BY <1>1, <1>5, <1>6 DEF Shared!Refuse, away

LEMMA FollowRefines ==
    ASSUME Base, Kept, NEW r \in Request, NEW o \in Owner, NEW q \in Query, Follow(r, o, q)
    PROVE  Shared!Join(r, KeyOf(q))
  <1>1. Valid' = Valid /\ KeyOf(q) \notin Valid
    BY MissedValid DEF Follow
  <1>2. KeyOf(q) \in Key /\ KeyOf(q) \in Shared!Calls /\ inflight[KeyOf(q)] \in Request
    BY KeyType, EntryIs DEF Follow, Joinable, Uppers
  <1>3. PICK h : h = Waiting(o, q, inflight[KeyOf(q)])
    OBVIOUS
  <1>4. h \in Handler /\ ~h.gone /\ h.phase = "waiting" /\ h.query = q /\ h.answer = Told("none", q)
    BY <1>2, <1>3, RecordTypes DEF Waiting, Arrives
  <1>5. /\ request[r].phase = "idle" /\ request' = [request EXCEPT ![r] = h]
        /\ UNCHANGED inflight
    BY <1>3 DEF Follow, Misses
  <1>6. /\ \A k \in Key :
              /\ r \notin Sharers(k) /\ Payer(k)' = Payer(k)
              /\ k # KeyOf(q) => Sharers(k)' = Sharers(k)
        /\ Sharers(KeyOf(q))' = Sharers(KeyOf(q)) \cup {r}
        /\ away' = away
        /\ Shared!Asks(r, KeyOf(q), "none")
    <2>1. Asks(r, h, q, "none")
      BY <1>4, <1>5 DEF Asks
    <2>2. QED
      BY <1>4, <1>5, <2>1, IdleView
  <1>7. shares' = [shares EXCEPT ![KeyOf(q)] = @ \cup {r}] /\ calls' = calls
    BY <1>2, <1>6 DEF shares, calls
  <1>8. QED
    BY <1>1, <1>2, <1>6, <1>7
    DEF Shared!Join, away, shares, calls

LEMMA LeadRefines ==
    ASSUME Base, Kept, NEW r \in Request, NEW o \in Owner, NEW q \in Query, Lead(r, o, q)
    PROVE  Shared!Start(r, o, KeyOf(q))
  <1>1. Valid' = Valid /\ KeyOf(q) \notin Valid
    BY MissedValid DEF Lead
  <1>2. KeyOf(q) \in Key /\ KeyOf(q) \notin Shared!Calls /\ Shared!HasRoom(o)
    BY KeyType, EntryIs, RoomIs DEF Lead, Joinable
  <1>3. PICK h : h = Waiting(o, q, r)
    OBVIOUS
  <1>4. /\ h \in Handler /\ ~h.gone /\ h.phase = "waiting" /\ h.query = q
        /\ h.answer = Told("none", q) /\ h.owner = o
    BY <1>3, RecordTypes DEF Waiting, Arrives
  <1>5. /\ request[r].phase = "idle" /\ request' = [request EXCEPT ![r] = h]
        /\ inflight' = [inflight EXCEPT ![KeyOf(q)] = r] /\ inflight[KeyOf(q)] = NoRequest
    BY <1>3 DEF Lead, Misses, Joinable
  <1>6. /\ \A k \in Key :
              /\ r \notin Sharers(k)
              /\ inflight'[k] = inflight[k] => Payer(k)' = Payer(k)
              /\ k # KeyOf(q) => Sharers(k)' = Sharers(k)
        /\ Sharers(KeyOf(q))' = Sharers(KeyOf(q)) \cup {r}
        /\ away' = away
        /\ Shared!Asks(r, KeyOf(q), "none")
    <2>1. Asks(r, h, q, "none")
      BY <1>4, <1>5 DEF Asks
    <2>2. QED
      BY <1>4, <1>5, <2>1, IdleView
  <1>7. Sharers(KeyOf(q)) = {}
    BY <1>2, <1>5, EntryIs DEF Sharers
  <1>8. Payer(KeyOf(q))' = {o}
    BY <1>2, <1>4, <1>5, CubeLoadAssumption DEF Payer, Base, Types
  <1>9. \A k \in Key : k # KeyOf(q) => Payer(k)' = Payer(k)
    BY <1>5, <1>6 DEF Base, Types
  <1>10. /\ shares' = [shares EXCEPT ![KeyOf(q)] = {r}]
         /\ calls' = [calls EXCEPT ![KeyOf(q)] = {o}]
    BY <1>2, <1>6, <1>7, <1>8, <1>9 DEF shares, calls
  <1>11. QED
    BY <1>1, <1>2, <1>6, <1>10
    DEF Shared!Start, away, shares, calls

\* The end of a call answers those who wait for it, and touches nobody else.
LEMMA SettledFrame ==
    ASSUME Base, NEW l \in Uppers, NEW kind, NEW rq \in [Request -> Handler],
           Settled(l, kind, rq),
           \A x \in Request : ~Awaits(x, l) => rq[x] = request[x]
    PROVE  /\ \A x \in Request : ~Awaits(x, l) => request'[x] = request[x]
           /\ \A x \in Request : Awaits(x, l) =>
                  /\ request'[x].phase = "idle"
                  /\ request'[x].answer = Told(kind, request[l].query)
           /\ \A m \in Uppers : m # l => request'[m] = request[m]
           /\ \A m \in Uppers' : m \in Uppers /\ m # l /\ upstream'[m] = upstream[m]
           /\ inflight' = [inflight EXCEPT ![KeyOf(request[l].query)] = NoRequest]
  <1>1. PICK q : q = request[l].query
    OBVIOUS
  <1>2. /\ upstream' = [upstream EXCEPT ![l] = NoEntry]
        /\ request' = [r \in Request |->
              IF Awaits(r, l)
              THEN [rq[r] EXCEPT !.phase = "idle", !.leader = NoRequest,
                                 !.answer = Told(kind, q)]
              ELSE rq[r]]
        /\ inflight' = [inflight EXCEPT ![KeyOf(q)] = NoRequest]
    BY <1>1 DEF Settled, Release
  <1>3. \A x \in Request : ~Awaits(x, l) => request'[x] = request[x]
    BY <1>2
  <1>4. ASSUME NEW x \in Request, Awaits(x, l)
        PROVE  request'[x].phase = "idle" /\ request'[x].answer = Told(kind, q)
    <2>1. request'[x] = [rq[x] EXCEPT !.phase = "idle", !.leader = NoRequest,
                                      !.answer = Told(kind, q)]
      BY <1>2, <1>4
    <2>2. rq[x] \in Handler
      OBVIOUS
    <2>3. QED
      BY <2>1, <2>2 DEF Handler
  <1>5. \A m \in Uppers : m # l => m \in Request /\ ~Awaits(m, l)
    BY DEF Base, SlotInv, LeaderInv, Uppers, Awaits
  <1>6. \A m \in Uppers' : m \in Uppers /\ m # l /\ upstream'[m] = upstream[m]
    BY <1>2 DEF Base, Types, Uppers, Live, NoEntry
  <1>7. QED
    BY <1>1, <1>2, <1>3, <1>4, <1>5, <1>6

\* The cache stays within its bound.
LEMMA ValidBoundNext ==
    ASSUME CacheOK'
    PROVE  Shared!Cardinality(Valid') <= MaxEntries
  <1>1. (Cardinality(Valid) <= MaxEntries)'
    BY ValidBound, PTL
  <1>2. QED
    BY <1>1, CountIs

\* A call ends for all who wait for it, of whom those in G have left.
LEMMA SettledRefines ==
    ASSUME Base, Kept, CacheOK', NEW l \in Uppers, NEW kind \in Kind,
           NEW rq \in [Request -> Handler], Settled(l, kind, rq),
           \A x \in Request : ~Awaits(x, l) => rq[x] = request[x],
           NEW G, kind = "gone" => G \cap Sharers(KeyOf(request[l].query)) # {}
    PROVE  Shared!Ends(KeyOf(request[l].query), kind, G)
  <1>1. PICK q \in Query : q = request[l].query
    BY UpperIs
  <1>2. PICK k \in Key : k = KeyOf(q)
    BY KeyType
  <1>3. /\ inflight[k] = l /\ l # NoRequest
        /\ \A x \in Request : x \in Sharers(k) <=> Awaits(x, l)
    BY <1>1, <1>2, UpperIs
  <1>4. /\ \A x \in Request : x \notin Sharers(k) => request'[x] = request[x]
        /\ \A x \in Request : x \in Sharers(k) =>
               request'[x].phase = "idle" /\ request'[x].answer = Told(kind, q)
        /\ \A m \in Uppers : m # l => request'[m] = request[m]
        /\ inflight' = [inflight EXCEPT ![k] = NoRequest]
    BY <1>1, <1>2, <1>3, SettledFrame
  <1>5. k \in Shared!Calls
    BY <1>3, EntryIs
  <1>6. calls' = [calls EXCEPT ![k] = {}]
    <2>1. Payer(k)' = {}
      BY <1>4 DEF Payer, Base, Types
    <2>2. ASSUME NEW c \in Key, c # k PROVE Payer(c)' = Payer(c)
      <3>1. inflight'[c] = inflight[c]
        BY <1>4, <2>2 DEF Base, Types
      <3>2. inflight[c] # NoRequest => inflight[c] \in Uppers /\ inflight[c] # l
        BY <1>1, <1>2, <2>2, EntryIs
      <3>3. QED
        BY <1>4, <3>1, <3>2 DEF Payer
    <2>3. QED
      BY <2>1, <2>2 DEF calls
  <1>7. shares' = [shares EXCEPT ![k] = {}]
    <2>1. Sharers(k)' = {}
      BY <1>4 DEF Sharers, KeyOf
    <2>2. ASSUME NEW c \in Key, c # k PROVE Sharers(c)' = Sharers(c)
      BY <1>4, <2>2 DEF Sharers, KeyOf
    <2>3. QED
      BY <2>1, <2>2 DEF shares
  <1>8. away' = away \ Sharers(k)
    BY <1>4 DEF away
  <1>9. Valid' \subseteq Valid \cup IF kind = "rows" THEN {k} ELSE {}
    <2>1. cache' = IF kind = "rows" /\ Cacheable(q) THEN Put(q) ELSE cache
      BY <1>1 DEF Settled
    <2>2. QED
      BY <1>2, <2>1, SettledValid
  <1>10. said' = [x \in Request |-> IF x \in Sharers(k) THEN Told(kind, k) ELSE said[x]]
    BY <1>2, <1>4 DEF said, Told, KeyOf
  <1>11. kind = "gone" => G \cap shares[k] # {}
    BY <1>1, <1>2 DEF shares
  <1>12. shares[k] = Sharers(k)
    BY DEF shares
  <1>13. Shared!Cardinality(Valid') <= MaxEntries
    BY ValidBoundNext
  <1>14. Shared!Ends(k, kind, G)
    BY <1>5, <1>6, <1>7, <1>8, <1>9, <1>10, <1>11, <1>12, <1>13
    DEF Shared!Ends, Shared!Answer, Told, calls, shares, away, said
  <1>15. QED
    BY <1>1, <1>2, <1>14
-----------------------------------------------------------------------------
(* The leader of an aborted entry has left.                                  *)

\* Whoever leaves an entry last is its only client that was still connected.
LEMMA LastClient ==
    ASSUME Base, NEW l \in Uppers, NEW r \in Request, Awaits(r, l), ~request[r].gone,
           Left(r, l) <= 0
    PROVE  Clients(l) = {r}
  <1>1. r \in Clients(l)
    BY DEF Clients
  <1>2. upstream[l].refcount = Cardinality(Clients(l))
    BY DEF Base, RefcountExact
  <1>3. Cardinality(Clients(l) \ {r}) = Cardinality(Clients(l)) - 1
    BY <1>1, Finite, FS_RemoveElement
  <1>4. IsFiniteSet(Clients(l) \ {r}) /\ Cardinality(Clients(l) \ {r}) \in Nat
    BY Finite, FS_Subset, FS_CardinalityType
  <1>5. Cardinality(Clients(l) \ {r}) = 0
    BY <1>2, <1>3, <1>4, Finite DEF Left
  <1>6. Clients(l) \ {r} = {}
    BY <1>4, <1>5, FS_EmptySet
  <1>7. QED
    BY <1>1, <1>6

\* A step keeps AbortInv if it aborts no entry whose leader has not left.
LEMMA AbortFrame ==
    ASSUME AbortInv,
           \A m \in Uppers' :
               \/ ~upstream'[m].aborted \/ request'[m].gone
               \/ /\ m \in Uppers /\ upstream'[m].aborted = upstream[m].aborted
                  /\ request'[m].gone = request[m].gone
    PROVE  AbortInv'
  BY DEF AbortInv

LEMMA AbortLoad ==
    ASSUME Base, AbortInv, NEW r \in Request, Load(r)
    PROVE  AbortInv'
  <1>1. PICK o \in Owner, q \in Query :
           Served(r, o, q) \/ Follow(r, o, q) \/ Rejected(r, o, q) \/ Lead(r, o, q)
    BY DEF Load
  <1>2. r \notin Uppers /\ \E h : request' = [request EXCEPT ![r] = h]
    <2>1. request[r].phase = "idle"
      BY <1>1 DEF Served, Follow, Rejected, Lead, Misses
    <2>2. \E h : request' = [request EXCEPT ![r] = h]
      BY <1>1 DEF Served, Follow, Rejected, Lead
    <2>3. QED
      BY <2>1, <2>2, IdleFree
  <1>3. \A m \in Uppers : m \in Request /\ request'[m] = request[m]
    BY <1>2 DEF Uppers, Base, Types
  <1>4. CASE Served(r, o, q) \/ Rejected(r, o, q)
    <2>1. UNCHANGED upstream
      BY <1>4 DEF Served, Rejected
    <2>2. QED
      BY <1>3, <2>1, AbortFrame DEF Uppers, Live
  <1>5. CASE Follow(r, o, q)
    <2>1. PICK l \in Request : upstream' = [upstream EXCEPT ![l].refcount = @ + 1]
      BY <1>5, KeyType DEF Follow, Joinable, Base, Types
    <2>2. \A m \in Request : /\ upstream'[m].phase = upstream[m].phase
                             /\ upstream'[m].aborted = upstream[m].aborted
      <3>1. \A m \in Request \ {l} : upstream'[m] = upstream[m]
        BY <2>1 DEF Base, Types
      <3>2. upstream[l] \in Entry /\ upstream'[l] = [upstream[l] EXCEPT !.refcount = @ + 1]
        BY <2>1 DEF Base, Types
      <3>3. QED
        BY <3>1, <3>2 DEF Entry
    <2>3. QED
      BY <1>3, <2>2, AbortFrame DEF Uppers, Live
  <1>6. CASE Lead(r, o, q)
    <2>1. upstream' = [upstream EXCEPT ![r] = NewEntry]
      BY <1>6 DEF Lead
    <2>2. ~upstream'[r].aborted /\ \A m \in Request \ {r} : upstream'[m] = upstream[m]
      BY <2>1 DEF NewEntry, Base, Types
    <2>3. QED
      BY <1>3, <2>2, AbortFrame DEF Uppers, Live
  <1>7. QED
    BY <1>1, <1>4, <1>5, <1>6
-----------------------------------------------------------------------------
(* The steps of the upstream calls and the disconnections.                   *)

\* The upstream call of l ends while its clients wait.
LEMMA EndRefines ==
    ASSUME Base, Kept, AbortInv, CacheOK', NEW l \in Uppers,
           NEW kind \in Kind \ {"none", "rejected"}, Settled(l, kind, request),
           kind = "gone" => upstream[l].aborted
    PROVE  Shared!Next /\ AbortInv'
  <1>1. PICK rq : rq = request
    OBVIOUS
  <1>2. rq \in [Request -> Handler] /\ Settled(l, kind, rq) /\ kind \in Kind
    BY <1>1 DEF Base, Types
  <1>3. KeyOf(request[l].query) \in Key /\ l \in Sharers(KeyOf(request[l].query))
    BY UpperIs DEF Base, SlotInv, LeaderInv
  <1>4. kind = "gone" => away \cap Sharers(KeyOf(request[l].query)) # {}
    BY <1>3 DEF AbortInv, away, Sharers
  <1>5. Shared!Ends(KeyOf(request[l].query), kind, away)
    <2>1. PICK G : G = away
      OBVIOUS
    <2>2. kind = "gone" => G \cap Sharers(KeyOf(request[l].query)) # {}
      BY <1>4, <2>1
    <2>3. \A x \in Request : rq[x] = request[x]
      BY <1>1
    <2>4. Shared!Ends(KeyOf(request[l].query), kind, G)
      BY <1>2, <2>2, <2>3, SettledRefines
    <2>5. QED
      BY <2>1, <2>4 DEF Shared!Ends
  <1>6. Shared!Next
    BY <1>3, <1>5 DEF Shared!Next, away
  <1>7. \A m \in Uppers' : m \in Uppers /\ upstream'[m] = upstream[m] /\ request'[m] = request[m]
    BY <1>1, <1>2, SettledFrame
  <1>8. AbortInv'
    BY <1>7, AbortFrame
  <1>9. QED
    BY <1>6, <1>8

\* A pause begins or ends.
LEMMA PauseView ==
    ASSUME Base, AbortInv, UNCHANGED <<request, inflight, cache>>,
           \A m \in Request : upstream'[m].aborted = upstream[m].aborted,
           \A m \in Request : upstream'[m].phase = "none" <=> upstream[m].phase = "none"
    PROVE  UNCHANGED Shared!sharedVars /\ AbortInv'
  <1>1. AbortInv'
    BY AbortFrame DEF Uppers, Live
  <1>2. UNCHANGED Shared!sharedVars
    BY DEF Shared!sharedVars, Payer, Sharers, Valid, KeyOf
  <1>3. QED
    BY <1>1, <1>2

LEMMA CallRefines ==
    ASSUME Base, Kept, AbortInv, CacheOK', NEW l \in Request,
           Fetched(l) \/ ContinueWait(l) \/ PauseEnds(l)
    PROVE  [Shared!Next]_Shared!sharedVars /\ AbortInv'
  <1>1. l \in Uppers /\ upstream[l] \in Entry
    BY DEF Fetched, ContinueWait, PauseEnds, Uppers, Live, Base, Types
  <1>2. CASE \E kind \in Kind \ {"none", "rejected"} :
                 Settled(l, kind, request) /\ (kind = "gone" => upstream[l].aborted)
    BY <1>1, <1>2, EndRefines
  <1>3. CASE /\ UNCHANGED <<request, inflight, cache>>
             /\ upstream[l].phase # "none"
             /\ \/ upstream' = [upstream EXCEPT ![l].phase = "fetch"]
                \/ upstream' = [upstream EXCEPT ![l].phase = "sleep", ![l].polls = @ + 1]
    <2>1. \A m \in Request \ {l} : upstream'[m] = upstream[m]
      BY <1>3 DEF Base, Types
    <2>2. \/ upstream'[l] = [upstream[l] EXCEPT !.phase = "fetch"]
          \/ upstream'[l] = [upstream[l] EXCEPT !.phase = "sleep", !.polls = @ + 1]
      BY <1>3 DEF Base, Types
    <2>3. upstream'[l].aborted = upstream[l].aborted /\ upstream'[l].phase # "none"
      BY <1>1, <2>2 DEF Entry
    <2>4. QED
      BY <1>3, <2>1, <2>3, PauseView
  <1>4. CASE Fetched(l)
    BY <1>2, <1>4 DEF Fetched, Kind
  <1>5. CASE ContinueWait(l)
    BY <1>2, <1>3, <1>5 DEF ContinueWait, Kind
  <1>6. CASE PauseEnds(l)
    BY <1>2, <1>3, <1>6 DEF PauseEnds, Kind
  <1>7. QED
    BY <1>4, <1>5, <1>6

\* A client disconnects: the last one, from a fetch, ends the call; any other
\* only leaves.
LEMMA ClosesRefines ==
    ASSUME Base, Kept, AbortInv, CacheOK', NEW r \in Request, Closes(r)
    PROVE  Shared!Next /\ AbortInv'
  <1>1. request[r].phase = "waiting" /\ ~request[r].gone
    BY DEF Closes
  <1>2. PICK l \in Uppers : l = request[r].leader
    BY <1>1 DEF Base, SlotInv, LeaderInv
  <1>3. /\ l \in Request /\ Awaits(r, l) /\ upstream[l] \in Entry
        /\ KeyOf(request[l].query) \in Key
        /\ \A x \in Request : x \in Sharers(KeyOf(request[l].query)) <=> Awaits(x, l)
    BY <1>1, <1>2, UpperIs DEF Awaits, Base, Types
  <1>4. PICK k \in Key : k = KeyOf(request[l].query)
    BY <1>3
  <1>5. PICK rq : rq = [request EXCEPT ![r].gone = TRUE]
    OBVIOUS
  <1>6. /\ rq \in [Request -> Handler]
        /\ rq[r].phase = request[r].phase /\ rq[r].query = request[r].query
        /\ rq[r].answer = request[r].answer /\ rq[r].owner = request[r].owner /\ rq[r].gone
        /\ \A x \in Request \ {r} : rq[x] = request[x]
    <2>1. request[r] \in Handler /\ rq[r] = [request[r] EXCEPT !.gone = TRUE]
      BY <1>5 DEF Base, Types
    <2>2. /\ rq[r] \in Handler
          /\ rq[r].phase = request[r].phase /\ rq[r].query = request[r].query
          /\ rq[r].answer = request[r].answer /\ rq[r].owner = request[r].owner /\ rq[r].gone
      BY <2>1 DEF Handler
    <2>3. QED
      BY <1>5, <2>2 DEF Base, Types
  <1>7. CASE Left(r, l) <= 0 /\ upstream[l].phase = "fetch"
    <2>1. Settled(l, "gone", rq)
      BY <1>2, <1>5, <1>7 DEF Closes
    <2>2. \A x \in Request : ~Awaits(x, l) => rq[x] = request[x]
      BY <1>3, <1>6
    <2>3. PICK G : G = away \cup {r}
      OBVIOUS
    <2>4. G \cap Sharers(KeyOf(request[l].query)) # {} /\ "gone" \in Kind
      BY <1>3, <2>3 DEF Kind
    <2>5. Shared!Ends(k, "gone", G)
      <3>1. PICK kind \in Kind : kind = "gone"
        BY <2>4
      <3>2. /\ Settled(l, kind, rq) /\ rq \in [Request -> Handler]
            /\ kind = "gone" => G \cap Sharers(KeyOf(request[l].query)) # {}
        BY <1>6, <2>1, <2>4, <3>1
      <3>3. Shared!Ends(KeyOf(request[l].query), kind, G)
        BY <2>2, <3>2, SettledRefines
      <3>4. QED
        BY <1>4, <3>1, <3>3 DEF Shared!Ends
    <2>6. Clients(l) = {r}
      BY <1>1, <1>3, <1>7, LastClient
    <2>7. Sharers(k) \ away = {r}
      BY <1>3, <1>4, <2>6 DEF Clients, Sharers, away
    <2>8. Shared!LastLeaves(r, k)
      BY <2>3, <2>5, <2>7 DEF Shared!LastLeaves, Shared!Ends, away
    <2>9. \A m \in Uppers' : m \in Uppers /\ upstream'[m] = upstream[m] /\ request'[m] = request[m]
      BY <1>6, <2>1, <2>2, SettledFrame
    <2>10. QED
      BY <2>8, <2>9, AbortFrame DEF Shared!Next
  <1>8. CASE ~(Left(r, l) <= 0 /\ upstream[l].phase = "fetch")
    <2>1. /\ upstream' = [upstream EXCEPT ![l].refcount = Left(r, l),
                                          ![l].aborted = @ \/ Left(r, l) <= 0]
          /\ request' = rq
          /\ UNCHANGED <<inflight, cache>>
      BY <1>2, <1>5, <1>8 DEF Closes
    <2>2. away' = away \cup {r} /\ r \notin away
      BY <1>1, <1>6, <2>1 DEF away
    <2>3. \A c \in Key : Sharers(c)' = Sharers(c) /\ Payer(c)' = Payer(c)
      <3>1. \A x \in Request : /\ request'[x].phase = request[x].phase
                               /\ request'[x].query = request[x].query
                               /\ request'[x].owner = request[x].owner
        BY <1>6, <2>1
      <3>2. \A c \in Key : inflight[c] # NoRequest => inflight[c] \in Request
        BY DEF Base, Types
      <3>3. ASSUME NEW c \in Key PROVE Sharers(c)' = Sharers(c)
        BY <3>1 DEF Sharers, KeyOf
      <3>4. ASSUME NEW c \in Key PROVE Payer(c)' = Payer(c)
        BY <2>1, <3>1, <3>2 DEF Payer
      <3>5. QED
        BY <3>3, <3>4
    <2>4. said' = said
      BY <1>6, <2>1 DEF said, KeyOf
    <2>5. Valid' = Valid
      BY <2>1 DEF Valid
    <2>6. r \in Sharers(k)
      BY <1>3, <1>4
    <2>7. Shared!Leave(r)
      BY <2>2, <2>3, <2>4, <2>5, <2>6 DEF Shared!Leave, away, said
    <2>8. /\ \A m \in Request \ {l} : upstream'[m] = upstream[m]
          /\ upstream'[l].phase = upstream[l].phase
          /\ upstream'[l].aborted = (upstream[l].aborted \/ Left(r, l) <= 0)
      <3>1. PICK n, b : n = Left(r, l) /\ b = (upstream[l].aborted \/ Left(r, l) <= 0)
        OBVIOUS
      <3>2. upstream' = [upstream EXCEPT ![l] = [upstream[l] EXCEPT !.refcount = n, !.aborted = b]]
        BY <2>1, <3>1 DEF Base, Types
      <3>3. QED
        BY <1>3, <3>1, <3>2 DEF Base, Types, Entry
    <2>9. Left(r, l) <= 0 => request'[l].gone
      <3>1. ASSUME Left(r, l) <= 0 PROVE Clients(l) = {r}
        BY <1>1, <1>3, <3>1, LastClient
      <3>2. Awaits(l, l)
        BY DEF Base, SlotInv, LeaderInv
      <3>3. QED
        BY <1>3, <1>6, <2>1, <3>1, <3>2 DEF Clients
    <2>10. \A m \in Uppers' : m \in Uppers /\ (request[m].gone => request'[m].gone)
      BY <1>3, <1>6, <2>1, <2>8 DEF Uppers, Live
    <2>11. AbortInv'
      BY <2>8, <2>9, <2>10 DEF AbortInv, Uppers
    <2>12. QED
      BY <2>7, <2>11 DEF Shared!Next
  <1>9. QED
    BY <1>7, <1>8

LEMMA LoadRefines ==
    ASSUME Base, Kept, NEW r \in Request, Load(r)
    PROVE  Shared!Next
  <1>1. PICK o \in Owner, q \in Query :
           Served(r, o, q) \/ Follow(r, o, q) \/ Rejected(r, o, q) \/ Lead(r, o, q)
    BY DEF Load
  <1>2. KeyOf(q) \in Key
    BY KeyType
  <1>3. CASE Served(r, o, q)
    BY <1>2, <1>3, ServedRefines DEF Shared!Next
  <1>4. CASE Follow(r, o, q)
    BY <1>2, <1>4, FollowRefines DEF Shared!Next
  <1>5. CASE Rejected(r, o, q)
    BY <1>2, <1>5, RejectedRefines DEF Shared!Next
  <1>6. CASE Lead(r, o, q)
    BY <1>2, <1>6, LeadRefines DEF Shared!Next
  <1>7. QED
    BY <1>1, <1>3, <1>4, <1>5, <1>6

LEMMA ExpiresRefines ==
    ASSUME Kept, Expires
    PROVE  Shared!Next
  <1>1. Valid' \in SUBSET Valid
    BY ExpiresValid
  <1>2. UNCHANGED <<request, inflight>>
    BY DEF Expires
  <1>3. Shared!Forget
    BY <1>1, <1>2 DEF Shared!Forget, Payer, Sharers, KeyOf
  <1>4. QED
    BY <1>3 DEF Shared!Next

LEMMA StoredStep ==
    ASSUME Base, Kept, [Next]_vars
    PROVE  StoredInv'
  <1>1. ASSUME NEW r \in Request, Load(r) PROVE StoredInv'
    BY <1>1, ServedValid, MissedValid DEF Load, Follow, Rejected, Lead
  <1>2. ASSUME NEW l \in Uppers, NEW kind, NEW rq, Settled(l, kind, rq) PROVE StoredInv'
    <2>1. PICK q \in Query : q = request[l].query
      BY UpperIs
    <2>2. cache' = IF kind = "rows" /\ Cacheable(q) THEN Put(q) ELSE cache
      BY <1>2, <2>1 DEF Settled
    <2>3. QED
      BY <2>2, SettledValid
  <1>3. UNCHANGED cache => StoredInv'
    BY DEF Kept, StoredInv, Cacheable
  <1>4. ASSUME NEW l \in Request, Fetched(l) \/ ContinueWait(l) \/ PauseEnds(l)
        PROVE  StoredInv'
    <2>1. l \in Uppers
      BY <1>4 DEF Fetched, ContinueWait, PauseEnds, Uppers, Live
    <2>2. UNCHANGED cache \/ \E kind : Settled(l, kind, request)
      BY <1>4 DEF Fetched, ContinueWait, PauseEnds
    <2>3. QED
      BY <1>2, <1>3, <2>1, <2>2
  <1>5. ASSUME NEW r \in Request, Closes(r) PROVE StoredInv'
    <2>1. request[r].leader \in Uppers
      BY <1>5 DEF Closes, Base, SlotInv, LeaderInv
    <2>2. UNCHANGED cache \/ \E rq : Settled(request[r].leader, "gone", rq)
      BY <1>5 DEF Closes
    <2>3. QED
      BY <1>2, <1>3, <2>1, <2>2
  <1>6. CASE Expires
    BY <1>6, ExpiresValid
  <1>7. CASE UNCHANGED vars
    BY <1>3, <1>7 DEF vars
  <1>8. QED
    BY <1>1, <1>4, <1>5, <1>6, <1>7 DEF Next

LEMMA StepRefines ==
    ASSUME IInv, IInv', AbortInv, StoredInv, [Next]_vars
    PROVE  [Shared!Next]_Shared!sharedVars /\ AbortInv' /\ StoredInv'
  <1>1. Base /\ Kept
    BY Split DEF Kept
  <1>2. CacheOK'
    BY Split, PTL
  <1>3. StoredInv'
    BY <1>1, StoredStep
  <1>4. CASE \E r \in Request : Load(r)
    BY <1>1, <1>3, <1>4, LoadRefines, AbortLoad
  <1>5. CASE \E r \in Request : Closes(r)
    BY <1>1, <1>2, <1>3, <1>5, ClosesRefines
  <1>6. CASE \E l \in Request : Fetched(l) \/ ContinueWait(l) \/ PauseEnds(l)
    BY <1>1, <1>2, <1>3, <1>6, CallRefines
  <1>7. CASE Expires
    <2>1. AbortInv'
      BY <1>7 DEF Expires, AbortInv, Uppers, Live
    <2>2. QED
      BY <1>1, <1>3, <1>7, <2>1, ExpiresRefines
  <1>8. CASE UNCHANGED vars
    <2>1. UNCHANGED Shared!sharedVars
      BY <1>8 DEF vars, Shared!sharedVars, Payer, Sharers, Valid, KeyOf
    <2>2. AbortInv'
      BY <1>8 DEF vars, AbortInv, Uppers, Live
    <2>3. QED
      BY <1>3, <2>1, <2>2
  <1>9. QED
    BY <1>4, <1>5, <1>6, <1>7, <1>8 DEF Next

LEMMA InitRefines == Init => Shared!Init /\ AbortInv /\ StoredInv
  <1> SUFFICES ASSUME Init PROVE Shared!Init /\ AbortInv /\ StoredInv
    OBVIOUS
  <1>1. PICK o \in Owner, q \in Query : request = [r \in Request |-> Arrives(o, q)]
    BY DEF Init
  <1>2. \A r \in Request : /\ request[r].phase = "idle" /\ ~request[r].gone
                           /\ request[r].answer = Told("none", q)
    BY <1>1 DEF Arrives
  <1>3. /\ \A k \in Key : Payer(k) = {} /\ Sharers(k) = {}
        /\ away = {} /\ Valid = {}
    BY <1>2 DEF Init, Payer, Sharers, away, Valid
  <1>4. said \in [Request -> {Shared!Answer("none", k) : k \in Key}]
    BY <1>2, KeyType DEF said, Told, Shared!Answer
  <1>5. Shared!Init
    BY <1>3, <1>4 DEF Shared!Init, away, said
  <1>6. AbortInv /\ StoredInv
    BY DEF Init, AbortInv, StoredInv, Uppers, Live, NoEntry
  <1>7. QED
    BY <1>5, <1>6

\* The proxy implements SharedCalls: deduplication, admission, polls, aborts,
\* disconnections, expiry and eviction together do to calls and clients only
\* what that specification allows, for any connections, owners, queries and caps.
THEOREM SharesCalls == Spec => ImplementsSharedCalls
  <1>1. IInv /\ IInv' /\ AbortInv /\ StoredInv /\ [Next]_vars
            => [Shared!Next]_Shared!sharedVars /\ (AbortInv /\ StoredInv)'
    BY StepRefines
  <1>2. QED
    BY <1>1, Invariance, InitRefines, PTL DEF Spec, ImplementsSharedCalls, Shared!Spec
=============================================================================
