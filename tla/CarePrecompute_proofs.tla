----------------------- MODULE CarePrecompute_proofs -----------------------
(* Proofs about CarePrecompute: its passes, its payloads and their dates,   *)
(* for any number of segments, requests, refreshes, failures and restarts.  *)
EXTENDS CarePrecompute, FiniteSetTheorems, TLAPS

\* The list a loop runs over names segments, and is empty only if none is due.
LEMMA Listing ==
    ASSUME NEW S, S \subseteq Segment, S # {}
    PROVE  /\ SetToSeq(S) \in Seq(Segment)
           /\ SetToSeq(S) # <<>>
  <1>1. IsFiniteSet(S)
    BY CarePrecomputeAssumption, FS_Subset
  <1> DEFINE n == Cardinality(S)
  <1>2. n \in Nat /\ ExistsBijection(1 .. n, S)
    BY <1>1, FS_CardinalityType
  <1>3. n # 0
    BY <1>1, FS_EmptySet
  <1>4. \E f \in [1 .. n -> S] : IsInjective(f)
    BY <1>2 DEF ExistsBijection, Bijection, Injection
  <1>5. SetToSeq(S) \in [1 .. n -> S]
    BY <1>4 DEF SetToSeq
  <1> HIDE DEF n
  <1>6. SetToSeq(S) \in Seq(S) /\ Len(SetToSeq(S)) = n
    BY <1>2, <1>5
  <1>7. QED
    BY <1>2, <1>3, <1>6

\* The jobs of l on a chain: one at most, or some.
JobsOf(q, l) == {i \in DOMAIN q : q[i].source = l}
Single(q, l) == \A i, j \in JobsOf(q, l) : i = j
Has(q, l)    == JobsOf(q, l) # {}

LEMMA JobAdded ==
    ASSUME NEW q \in Seq(Job), NEW x \in Job, NEW l, Single(q, l)
    PROVE  /\ Append(q, x) \in Seq(Job)
           /\ q = <<>> => Append(q, x)[1] = x
           /\ q # <<>> => Append(q, x)[1] = q[1]
           /\ Append(q, x) # <<>>
           /\ x.source # l => Single(Append(q, x), l) /\ (Has(Append(q, x), l) <=> Has(q, l))
           /\ x.source = l /\ ~Has(q, l) => Single(Append(q, x), l) /\ Has(Append(q, x), l)
  <1> DEFINE w == Append(q, x)
  <1>1. w \in Seq(Job) /\ Len(w) = Len(q) + 1 /\ w[Len(q) + 1] = x /\ Len(q) \in Nat
    OBVIOUS
  <1>2. \A i \in 1 .. Len(q) : w[i] = q[i]
    OBVIOUS
  <1>3. DOMAIN q = 1 .. Len(q) /\ DOMAIN w = 1 .. Len(q) + 1
    BY <1>1
  <1>4. q = <<>> => Len(q) = 0
    OBVIOUS
  <1>5. q # <<>> => Len(q) > 0
    OBVIOUS
  <1> HIDE DEF w
  <1>6. JobsOf(w, l) = JobsOf(q, l) \cup (IF x.source = l THEN {Len(q) + 1} ELSE {})
    BY <1>1, <1>2, <1>3 DEF JobsOf
  <1>7. x.source # l => Single(w, l) /\ (Has(w, l) <=> Has(q, l))
    BY <1>6 DEF Single, Has
  <1>8. x.source = l /\ ~Has(q, l) => Single(w, l) /\ Has(w, l)
    BY <1>6 DEF Single, Has
  <1>9. w # <<>> /\ (q = <<>> => w[1] = x) /\ (q # <<>> => w[1] = q[1])
    BY <1>1, <1>2, <1>4, <1>5
  <1>10. QED
    BY <1>1, <1>7, <1>8, <1>9 DEF w

LEMMA HeadTaken ==
    ASSUME NEW q \in Seq(Job), q # <<>>, NEW l, Single(q, l)
    PROVE  /\ Tail(q) \in Seq(Job)
           /\ q[1] \in Job
           /\ Single(Tail(q), l)
           /\ q[1].source # l => (Has(Tail(q), l) <=> Has(q, l))
           /\ q[1].source = l => Has(q, l) /\ ~Has(Tail(q), l)
  <1> DEFINE w == Tail(q)
  <1>1. w \in Seq(Job) /\ Len(w) = Len(q) - 1 /\ Len(q) \in Nat /\ Len(q) > 0
    OBVIOUS
  <1>2. \A i \in 1 .. Len(q) - 1 : w[i] = q[i + 1]
    OBVIOUS
  <1>3. DOMAIN q = 1 .. Len(q) /\ DOMAIN w = 1 .. Len(q) - 1 /\ q[1] \in Job
    BY <1>1
  <1> HIDE DEF w
  <1>4. \A i \in DOMAIN w : i \in JobsOf(w, l) <=> i + 1 \in JobsOf(q, l)
    BY <1>1, <1>2, <1>3 DEF JobsOf
  <1>5. \A i \in JobsOf(q, l) : i # 1 => i - 1 \in DOMAIN w /\ i - 1 \in JobsOf(w, l)
    BY <1>1, <1>2, <1>3 DEF JobsOf
  <1>6. Single(w, l)
    <2>0. SUFFICES \A i, j \in JobsOf(w, l) : i = j
      BY DEF Single
    <2>1. TAKE i, j \in JobsOf(w, l)
    <2>2. i \in DOMAIN w /\ j \in DOMAIN w
      BY <2>1 DEF JobsOf
    <2>3. i + 1 = j + 1
      BY <1>4, <2>1, <2>2 DEF Single
    <2>4. QED
      BY <1>3, <2>2, <2>3
  <1>7. ASSUME q[1].source # l PROVE Has(w, l) <=> Has(q, l)
    <2>1. 1 \notin JobsOf(q, l)
      BY <1>7 DEF JobsOf
    <2>2. JobsOf(w, l) # {} <=> JobsOf(q, l) # {}
      BY <1>4, <1>5, <2>1 DEF JobsOf
    <2>3. QED
      BY <2>2 DEF Has
  <1>8. ASSUME q[1].source = l PROVE Has(q, l) /\ ~Has(w, l)
    <2>1. 1 \in JobsOf(q, l)
      BY <1>1, <1>3, <1>8 DEF JobsOf
    <2>2. JobsOf(w, l) = {}
      <3>1. SUFFICES ASSUME NEW i \in JobsOf(w, l) PROVE FALSE
        OBVIOUS
      <3>2. i \in DOMAIN w /\ i + 1 \in JobsOf(q, l)
        BY <1>4, <3>1 DEF JobsOf
      <3>3. i + 1 = 1
        BY <2>1, <3>2 DEF Single
      <3>4. QED
        BY <1>3, <3>2, <3>3
    <2>3. QED
      BY <2>1, <2>2 DEF Has
  <1>9. QED
    BY <1>1, <1>3, <1>6, <1>7, <1>8 DEF w

-----------------------------------------------------------------------------
LEMMA FirstJob == ASSUME NEW q \in Seq(Job), q # <<>> PROVE q[1].seg \in Segment
  <1>1. q[1] \in Job
    OBVIOUS
  <1>2. QED
    BY <1>1 DEF Job

LEMMA PassExactIs ==
    PassExact <=> \A l \in Loop : /\ Single(chain, l)
                                  /\ pass[l].on <=> Has(chain, l)
                                  /\ ~pass[l].on => pass[l].rest = <<>>
  BY DEF PassExact, Single, Has, JobsOf

\* What is read now is the membership of now.
LEMMA ReadNow ==
    ASSUME TypeOK, NEW s \in Segment
    PROVE  ReadOf(s) \in Read /\ ReadOf(s).from = clock /\ ReadOf(s).gen = segs[s].gen
  BY DEF TypeOK, ReadOf, Read, Row, Instant

\* A job put on the chain begins if it is alone there.
LEMMA EnqueuedKeeps ==
    ASSUME IInv, NEW job \in Job, Enqueued(job), UNCHANGED <<clock, segs>>
    PROVE  /\ chain' \in Seq(Job) /\ build' \in Read
           /\ BuildInv'
           /\ \A l \in Loop :
                  /\ job.source # l => Single(chain', l) /\ (pass[l].on <=> Has(chain', l))
                  /\ job.source = l /\ ~pass[l].on => Single(chain', l) /\ Has(chain', l)
  <1>1. TypeOK /\ PassExact /\ BuildInv
    BY DEF IInv
  <1>2. chain \in Seq(Job) /\ chain' = Append(chain, job) /\ job.seg \in Segment
    BY <1>1 DEF TypeOK, Enqueued, Job
  <1>3. pass \in [Loop -> Pass]
    BY <1>1 DEF TypeOK
  <1>4. \A l \in Loop : Single(chain, l) /\ (pass[l].on <=> Has(chain, l))
    BY <1>1, PassExactIs
  <1>5. \A l \in Loop : /\ chain' \in Seq(Job)
                        /\ chain = <<>> => chain'[1] = job
                        /\ chain # <<>> => chain'[1] = chain[1]
                        /\ chain' # <<>>
                        /\ job.source # l => Single(chain', l) /\ (pass[l].on <=> Has(chain', l))
                        /\ job.source = l /\ ~pass[l].on => Single(chain', l) /\ Has(chain', l)
    BY <1>2, <1>4, JobAdded
  <1>6. "cron" \in Loop
    BY DEF Loop
  <1>7. build' \in Read
    BY <1>1, <1>2, ReadNow DEF TypeOK, Enqueued
  <1>8. BuildInv'
    <2>1. CASE chain = <<>>
      <3>1. build' = ReadOf(job.seg) /\ chain'[1] = job
        BY <2>1, <1>5, <1>6 DEF Enqueued
      <3>2. QED
        BY <1>1, <1>2, <3>1, ReadNow DEF BuildInv, ReadInv, TypeOK, Instant
    <2>2. CASE chain # <<>>
      <3>1. build' = build /\ chain'[1] = chain[1]
        BY <2>2, <1>5, <1>6 DEF Enqueued
      <3>2. QED
        BY <1>1, <2>2, <3>1 DEF BuildInv, ReadInv
    <2>3. QED
      BY <2>1, <2>2
  <1>9. QED
    BY <1>5, <1>6, <1>7, <1>8

\* The chain goes on to the next job, and its loop to the next segment.
LEMMA SettledKeeps ==
    ASSUME IInv, chain # <<>>, NEW rejects \in BOOLEAN,
           Settled(chain[1].source, rejects), UNCHANGED <<clock, segs>>
    PROVE  /\ chain' \in Seq(Job) /\ build' \in Read /\ pass' \in [Loop -> Pass]
           /\ PassExact' /\ BuildInv'
  <1> DEFINE src    == chain[1].source
             goesOn == src \in Loop /\ ~rejects /\ pass[src].rest # <<>>
             job    == [seg |-> Head(pass[src].rest), source |-> src]
  <1>1. TypeOK /\ PassExact
    BY DEF IInv
  <1>2. chain \in Seq(Job) /\ pass \in [Loop -> Pass]
    BY <1>1 DEF TypeOK
  <1>3. \A l \in Loop : /\ pass[l].on \in BOOLEAN /\ pass[l].rest \in Seq(Segment)
                        /\ Single(chain, l) /\ (pass[l].on <=> Has(chain, l))
                        /\ ~pass[l].on => pass[l].rest = <<>>
    BY <1>1, <1>2, PassExactIs DEF Pass
  <1>4. \A l \in Loop : /\ Tail(chain) \in Seq(Job) /\ chain[1] \in Job
                        /\ Single(Tail(chain), l)
                        /\ src # l => (pass[l].on <=> Has(Tail(chain), l))
                        /\ src = l => pass[l].on /\ ~Has(Tail(chain), l)
    BY <1>2, <1>3, HeadTaken
  <1>5. "cron" \in Loop
    BY DEF Loop
  <1>6. Tail(chain) \in Seq(Job) /\ src \in Source
    BY <1>4, <1>5 DEF Job
  <1>7. goesOn => job \in Job /\ Tail(pass[src].rest) \in Seq(Segment)
    BY <1>3, <1>6 DEF Job
  <1>8. chain' = IF goesOn THEN Append(Tail(chain), job) ELSE Tail(chain)
    BY DEF Settled
  <1>9. pass' = IF src \notin Loop THEN pass
                ELSE IF goesOn THEN [pass EXCEPT ![src].rest = Tail(@)]
                ELSE [pass EXCEPT ![src] = Off]
    BY DEF Settled, LoopEnds
  <1>10. build' = IF chain' = <<>> THEN NoRead ELSE ReadOf(chain'[1].seg)
    BY DEF Settled
  <1> HIDE DEF job
  <1>11. pass' \in [Loop -> Pass]
    <2>1. Off \in Pass
      BY DEF Off, Pass
    <2>2. goesOn => [pass[src] EXCEPT !.rest = Tail(@)] \in Pass
      BY <1>2, <1>7 DEF Pass
    <2>3. QED
      BY <1>2, <1>9, <2>1, <2>2
  <1>12. \A l \in Loop : /\ chain' \in Seq(Job)
                         /\ Single(chain', l) /\ (pass'[l].on <=> Has(chain', l))
                         /\ ~pass'[l].on => pass'[l].rest = <<>>
    <2>1. TAKE l \in Loop
    <2>2. CASE goesOn /\ src = l
      <3>1. job.source = l /\ pass'[l].on /\ chain' = Append(Tail(chain), job)
        BY <1>2, <1>4, <1>8, <1>9, <2>2 DEF job, Pass
      <3>2. Single(Tail(chain), l) /\ ~Has(Tail(chain), l)
        BY <1>4, <2>2
      <3>3. job \in Job
        BY <1>7, <2>2
      <3>4. chain' \in Seq(Job) /\ Single(chain', l) /\ Has(chain', l)
        BY <1>6, <3>1, <3>2, <3>3, JobAdded
      <3>5. QED
        BY <3>1, <3>4
    <2>3. CASE goesOn /\ src # l
      <3>1. job.source # l /\ pass'[l] = pass[l] /\ chain' = Append(Tail(chain), job)
        BY <1>2, <1>8, <1>9, <2>3 DEF job
      <3>2. Single(Tail(chain), l) /\ (pass[l].on <=> Has(Tail(chain), l))
        BY <1>4, <2>3
      <3>3. job \in Job
        BY <1>7, <2>3
      <3>4. chain' \in Seq(Job) /\ Single(chain', l) /\ (pass[l].on <=> Has(chain', l))
        BY <1>6, <3>1, <3>2, <3>3, JobAdded
      <3>5. QED
        BY <1>3, <3>1, <3>4
    <2>4. CASE ~goesOn /\ src = l
      <3>1. pass'[l] = Off /\ chain' = Tail(chain)
        BY <1>2, <1>8, <1>9, <2>4
      <3>2. ~pass'[l].on /\ pass'[l].rest = <<>>
        BY <3>1 DEF Off
      <3>3. chain' \in Seq(Job) /\ Single(chain', l) /\ ~Has(chain', l)
        BY <1>4, <1>6, <2>4, <3>1
      <3>4. QED
        BY <3>2, <3>3
    <2>5. CASE ~goesOn /\ src # l
      <3>1. pass'[l] = pass[l] /\ chain' = Tail(chain)
        BY <1>2, <1>8, <1>9, <2>5
      <3>2. QED
        BY <1>3, <1>4, <1>6, <2>5, <3>1
    <2>6. QED
      BY <2>2, <2>3, <2>4, <2>5
  <1>13. PassExact'
    BY <1>12 DEF PassExact, Single, Has, JobsOf
  <1>14. chain' # <<>> => chain'[1] \in Job
    BY <1>5, <1>12
  <1>15. build' \in Read
    <2>1. NoRead \in Read
      BY CarePrecomputeAssumption DEF NoRead, Read, Instant
    <2>2. chain' # <<>> => ReadOf(chain'[1].seg) \in Read
      BY <1>1, <1>14, ReadNow DEF Job
    <2>3. QED
      BY <1>10, <2>1, <2>2
  <1>16. BuildInv'
    <2>1. SUFFICES ASSUME chain' # <<>>
                   PROVE  ReadInv(chain[1].seg, build.gen, build.from)'
      BY DEF BuildInv
    <2>2. chain'[1].seg \in Segment /\ build' = ReadOf(chain'[1].seg)
      BY <1>10, <1>14, <2>1 DEF Job
    <2>3. build'.from = clock /\ build'.gen = segs[chain'[1].seg].gen
      BY <1>1, <2>2, ReadNow
    <2>4. QED
      BY <1>1, <2>3 DEF ReadInv, TypeOK, Instant
  <1>17. QED
    BY <1>5, <1>11, <1>12, <1>13, <1>15, <1>16

\* A restart leaves nothing on the chain.
LEMMA LostKeeps ==
    ASSUME IInv, Lost, UNCHANGED segs
    PROVE  /\ clock' = clock + 1 /\ clock' \in Instant
           /\ chain' \in Seq(Job) /\ build' \in Read /\ pass' \in [Loop -> Pass]
           /\ trigger' \in [Segment -> Instant \cup {None}]
           /\ reader' \in [Reader -> SUBSET Request]
           /\ PassExact' /\ BuildInv' /\ ReaderInv'
  <1>1. clock' = clock + 1 /\ clock' \in Instant
    BY CarePrecomputeAssumption DEF Lost, IInv, TypeOK, Instant
  <1>2. chain' = <<>> /\ build' = NoRead /\ pass' = [l \in Loop |-> Off]
    BY DEF Lost
  <1>3. build' \in Read /\ pass' \in [Loop -> Pass]
    BY <1>2, CarePrecomputeAssumption DEF NoRead, Read, Instant, Off, Pass
  <1>4. PassExact'
    <2>1. DOMAIN chain' = {}
      BY <1>2
    <2>2. QED
      BY <1>2, <2>1 DEF PassExact, Off
  <1>5. BuildInv'
    BY <1>2 DEF BuildInv
  <1>6. /\ trigger' \in [Segment -> Instant \cup {None}]
        /\ reader' \in [Reader -> SUBSET Request]
        /\ ReaderInv'
    BY DEF Lost, ReaderInv
  <1>7. QED
    BY <1>1, <1>2, <1>3, <1>4, <1>5, <1>6

\* What an attempt leaves of a cache row.
Attempt(s, read) ==
    \/ UNCHANGED cache
    \/ cache' = [cache EXCEPT ![s] = Marked(@)]
    \/ cache' = [cache EXCEPT ![s] = Marked(Written(read))]

GoodKept ==
    \A s \in Segment : /\ cache[s].gen # None => cache'[s].gen # None
                       /\ cache'[s].computed >= cache[s].computed

LEMMA AttemptKeeps ==
    ASSUME IInv, NEW s \in Segment, NEW read \in Read, ReadInv(s, read.gen, read.from),
           Attempt(s, read), UNCHANGED segs, clock' \in {clock, clock + 1}
    PROVE  cache' \in [Segment -> Care] /\ CareInv' /\ GoodKept
  <1>1. TypeOK /\ CareInv /\ clock \in Nat /\ clock \in Instant
    BY CarePrecomputeAssumption DEF IInv, TypeOK, Instant
  <1>2. cache \in [Segment -> Care] /\ segs \in [Segment -> Row]
    BY <1>1 DEF TypeOK
  <1>3. CASE cache' = cache
    <2>1. CareInv'
      BY <1>1, <1>2, <1>3 DEF CareInv, ReadInv, Care, Row, Instant, None
    <2>2. GoodKept
      BY <1>2, <1>3 DEF GoodKept, Care, Instant, None
    <2>3. QED
      BY <1>2, <1>3, <2>1, <2>2
  <1>4. CASE cache' = [cache EXCEPT ![s] = Marked(Written(read))]
    <2>1. cache'[s] = [gen |-> read.gen, computed |-> clock,
                       built |-> [from |-> read.from, to |-> clock]]
      BY <1>2, <1>4 DEF Marked, Written
    <2>2. \A r \in Segment : r # s => cache'[r] = cache[r]
      BY <1>2, <1>4
    <2>3. cache' \in [Segment -> Care]
      <3>1. cache'[s] \in Care
        BY <1>1, <2>1 DEF Care, Read
      <3>2. QED
        BY <1>2, <1>4, <3>1
    <2>4. CareInv'
      BY <1>1, <1>2, <2>1, <2>2 DEF CareInv, ReadInv, Care, Row, Instant, None, Read
    <2>5. GoodKept
      <3>1. read.gen # None
        BY DEF Read, None
      <3>2. \A r \in Segment : cache[r].computed <= clock /\ cache[r].computed \in Int
        BY <1>1, <1>2 DEF CareInv, Care, Instant, None
      <3>3. QED
        BY <1>1, <2>1, <2>2, <3>1, <3>2 DEF GoodKept
    <2>6. QED
      BY <2>3, <2>4, <2>5
  <1>5. CASE cache' = [cache EXCEPT ![s] = Marked(@)]
    BY <1>2, <1>3, <1>5 DEF Marked
  <1>6. QED
    BY <1>3, <1>4, <1>5 DEF Attempt
-----------------------------------------------------------------------------
LEMMA InitInv == Init => IInv
  <1>1. SUFFICES ASSUME Init PROVE IInv
    OBVIOUS
  <1>2. 0 \in Instant /\ 0 \in 0 .. MaxRefreshes
    BY CarePrecomputeAssumption DEF Instant
  <1>3. TypeOK
    <2>1. Off \in Pass /\ NoRead \in Read /\ NoCare \in Care
      BY <1>2 DEF Off, Pass, NoRead, Read, NoCare, Care, None
    <2>2. segs \in [Segment -> Row]
      BY <1>1, <1>2 DEF Init, Row
    <2>3. clock \in Instant /\ chain \in Seq(Job) /\ build \in Read
      BY <1>1, <1>2, <2>1 DEF Init
    <2>4. cache \in [Segment -> Care] /\ pass \in [Loop -> Pass]
      BY <1>1, <2>1 DEF Init
    <2>5. /\ trigger \in [Segment -> Instant \cup {None}]
          /\ reader \in [Reader -> SUBSET Request]
      BY <1>1 DEF Init
    <2>6. QED
      BY <2>2, <2>3, <2>4, <2>5 DEF TypeOK
  <1>4. PassExact
    <2>1. DOMAIN chain = {}
      BY <1>1 DEF Init
    <2>2. QED
      BY <1>1, <2>1 DEF Init, PassExact, Off
  <1>5. BuildInv /\ ReaderInv /\ CareInv
    BY <1>1 DEF Init, BuildInv, ReaderInv, CareInv, NoCare, None
  <1>6. QED
    BY <1>3, <1>4, <1>5 DEF IInv

\* A loop begins with a list.
LEMMA BeginKeeps ==
    ASSUME IInv, NEW l \in Loop, ~pass[l].on,
           NEW ids \in Seq(Segment), ids # <<>>, Begin(l, ids),
           UNCHANGED <<clock, segs, cache, trigger, reader>>
    PROVE  IInv'
  <1> DEFINE job == [seg |-> Head(ids), source |-> l]
  <1>1. TypeOK /\ PassExact /\ ReaderInv /\ CareInv
    BY DEF IInv
  <1>2. job \in Job /\ job.source = l /\ Tail(ids) \in Seq(Segment)
    BY DEF Job, Loop, Source
  <1>3. Enqueued(job)
    BY DEF Begin
  <1> HIDE DEF job
  <1>4. /\ chain' \in Seq(Job) /\ build' \in Read /\ BuildInv'
        /\ \A k \in Loop :
               /\ job.source # k => Single(chain', k) /\ (pass[k].on <=> Has(chain', k))
               /\ job.source = k /\ ~pass[k].on => Single(chain', k) /\ Has(chain', k)
    BY <1>2, <1>3, EnqueuedKeeps
  <1>5. pass \in [Loop -> Pass] /\ pass' = [pass EXCEPT ![l] = [on |-> TRUE, rest |-> Tail(ids)]]
    BY <1>1 DEF TypeOK, Begin
  <1>6. pass' \in [Loop -> Pass]
    BY <1>2, <1>5 DEF Pass
  <1>7. TypeOK'
    BY <1>1, <1>4, <1>6 DEF TypeOK
  <1>8. \A k \in Loop : /\ Single(chain', k) /\ (pass'[k].on <=> Has(chain', k))
                        /\ ~pass'[k].on => pass'[k].rest = <<>>
    <2>1. TAKE k \in Loop
    <2>2. CASE k = l
      <3>1. pass'[k].on
        BY <1>5, <2>2
      <3>2. QED
        BY <1>2, <1>4, <2>2, <3>1
    <2>3. CASE k # l
      <3>1. pass'[k] = pass[k]
        BY <1>5, <2>3
      <3>2. ~pass[k].on => pass[k].rest = <<>>
        BY <1>1, PassExactIs
      <3>3. QED
        BY <1>2, <1>4, <2>3, <3>1, <3>2
    <2>4. QED
      BY <2>2, <2>3
  <1>9. PassExact'
    BY <1>8 DEF PassExact, Single, Has, JobsOf
  <1>10. ReaderInv' /\ CareInv'
    BY <1>1 DEF ReaderInv, CareInv, ReadInv
  <1>11. QED
    BY <1>4, <1>7, <1>9, <1>10 DEF IInv

LEMMA StepTick == IInv /\ Tick => IInv'
  <1>1. SUFFICES ASSUME IInv, Tick PROVE IInv'
    OBVIOUS
  <1> DEFINE ids == SetToSeq({s \in Segment : Listed(s)})
  <1>2. ids \in Seq(Segment) /\ ids # <<>>
    BY <1>1, Listing DEF Tick
  <1>3. /\ Begin("cron", ids) /\ ~pass["cron"].on /\ "cron" \in Loop
        /\ UNCHANGED <<clock, segs, cache, trigger, reader>>
    BY <1>1 DEF Tick, Loop
  <1> HIDE DEF ids
  <1>4. QED
    BY <1>1, <1>2, <1>3, BeginKeeps

LEMMA StepRewarm == IInv /\ Rewarm => IInv'
  <1>1. SUFFICES ASSUME IInv, Rewarm PROVE IInv'
    OBVIOUS
  <1> DEFINE ids == SetToSeq({s \in Segment : segs[s].exists})
  <1>2. ids \in Seq(Segment) /\ ids # <<>>
    BY <1>1, Listing DEF Rewarm
  <1>3. /\ Begin("rewarm", ids) /\ ~pass["rewarm"].on /\ "rewarm" \in Loop
        /\ UNCHANGED <<clock, segs, cache, trigger, reader>>
    BY <1>1 DEF Rewarm, Loop
  <1> HIDE DEF ids
  <1>4. QED
    BY <1>1, <1>2, <1>3, BeginKeeps

LEMMA StepTrigger == ASSUME IInv, NEW s \in Segment, Trigger(s) PROVE IInv'
  <1> DEFINE job == [seg |-> s, source |-> "manual"]
  <1>1. TypeOK /\ PassExact /\ ReaderInv /\ CareInv
    BY DEF IInv
  <1>2. job \in Job /\ \A l \in Loop : job.source # l
    BY DEF Job, Loop, Source
  <1>3. Enqueued(job) /\ UNCHANGED <<clock, segs, cache, pass, reader>>
    BY DEF Trigger
  <1> HIDE DEF job
  <1>4. /\ chain' \in Seq(Job) /\ build' \in Read /\ BuildInv'
        /\ \A l \in Loop : Single(chain', l) /\ (pass[l].on <=> Has(chain', l))
    BY <1>2, <1>3, EnqueuedKeeps
  <1>5. TypeOK'
    BY <1>1, <1>3, <1>4 DEF TypeOK, Trigger
  <1>6. \A l \in Loop : ~pass[l].on => pass[l].rest = <<>>
    BY <1>1, PassExactIs
  <1>7. PassExact'
    BY <1>3, <1>4, <1>6 DEF PassExact, Single, Has, JobsOf
  <1>8. ReaderInv' /\ CareInv'
    BY <1>1, <1>3 DEF ReaderInv, CareInv, ReadInv
  <1>9. QED
    BY <1>4, <1>5, <1>7, <1>8 DEF IInv

\* The running job's attempt on its own row.
LEMMA OwnAttempt ==
    ASSUME IInv, NEW s \in Segment, chain # <<>>, chain[1].seg = s,
           Attempt(s, build), UNCHANGED segs, clock' \in {clock, clock + 1}
    PROVE  cache' \in [Segment -> Care] /\ CareInv' /\ GoodKept
  <1>1. build \in Read /\ ReadInv(s, build.gen, build.from)
    BY DEF IInv, TypeOK, BuildInv
  <1>2. QED
    BY <1>1, AttemptKeeps

LEMMA StepSettled ==
    ASSUME IInv, NEW s \in Segment, chain # <<>>, chain[1].seg = s,
           Attempt(s, build), NEW rejects \in BOOLEAN, Settled(chain[1].source, rejects),
           UNCHANGED <<clock, segs>>
    PROVE  IInv' /\ GoodKept
  <1>1. TypeOK /\ ReaderInv /\ clock' \in {clock, clock + 1}
    BY DEF IInv
  <1>2. cache' \in [Segment -> Care] /\ CareInv' /\ GoodKept
    BY <1>1, OwnAttempt
  <1>3. /\ chain' \in Seq(Job) /\ build' \in Read /\ pass' \in [Loop -> Pass]
        /\ PassExact' /\ BuildInv'
    BY SettledKeeps
  <1>4. UNCHANGED <<trigger, reader>>
    BY DEF Settled
  <1>5. TypeOK'
    BY <1>1, <1>2, <1>3, <1>4 DEF TypeOK
  <1>6. ReaderInv'
    BY <1>1, <1>4 DEF ReaderInv, ReadInv
  <1>7. QED
    BY <1>2, <1>3, <1>5, <1>6 DEF IInv

LEMMA StepLost ==
    ASSUME IInv, NEW s \in Segment, cache' = cache \/ (/\ chain # <<>> /\ chain[1].seg = s
                                                       /\ Attempt(s, build)),
           Lost, UNCHANGED segs
    PROVE  IInv' /\ GoodKept
  <1>1. TypeOK
    BY DEF IInv
  <1>2. /\ clock' = clock + 1 /\ clock' \in Instant
        /\ chain' \in Seq(Job) /\ build' \in Read /\ pass' \in [Loop -> Pass]
        /\ trigger' \in [Segment -> Instant \cup {None}]
        /\ reader' \in [Reader -> SUBSET Request]
        /\ PassExact' /\ BuildInv' /\ ReaderInv'
    BY LostKeeps
  <1>3. cache' \in [Segment -> Care] /\ CareInv' /\ GoodKept
    <2>1. CASE cache' = cache
      <3>1. CareInv /\ clock \in Int /\ segs \in [Segment -> Row] /\ cache \in [Segment -> Care]
        BY <1>1 DEF IInv, TypeOK, Instant
      <3>2. CareInv'
        <4>1. SUFFICES ASSUME NEW u \in Segment
                       PROVE  /\ segs'[u].refreshed <= clock'
                              /\ cache'[u].computed <= clock'
                              /\ cache'[u].gen # None =>
                                     /\ cache'[u].computed = cache'[u].built.to
                                     /\ cache'[u].built.from <= cache'[u].built.to
                                     /\ ReadInv(u, cache[u].gen, cache[u].built.from)'
          BY DEF CareInv
        <4>2. segs[u] \in Row /\ cache[u] \in Care
          BY <3>1
        <4>3. segs[u].refreshed \in Int /\ cache[u].computed \in Int /\ cache[u].built.from \in Int
          BY <4>2 DEF Care, Row, Instant, None
        <4>4. /\ segs[u].refreshed <= clock /\ cache[u].computed <= clock
              /\ cache[u].gen # None =>
                     /\ cache[u].computed = cache[u].built.to
                     /\ cache[u].built.from <= cache[u].built.to
                     /\ ReadInv(u, cache[u].gen, cache[u].built.from)
          BY <3>1 DEF CareInv
        <4>5. segs'[u] = segs[u] /\ cache'[u] = cache[u]
          BY <2>1
        <4>6. QED
          BY <1>2, <3>1, <4>3, <4>4, <4>5 DEF ReadInv
      <3>3. GoodKept
        BY <2>1, <3>1 DEF GoodKept, Care, Instant, None
      <3>4. QED
        BY <2>1, <3>1, <3>2, <3>3
    <2>2. CASE chain # <<>> /\ chain[1].seg = s /\ Attempt(s, build)
      BY <1>2, <2>2, OwnAttempt
    <2>3. QED
      BY <2>1, <2>2
  <1>4. TypeOK'
    BY <1>1, <1>2, <1>3 DEF TypeOK
  <1>5. QED
    BY <1>2, <1>3, <1>4 DEF IInv

LEMMA StepJob ==
    ASSUME IInv, NEW s \in Segment, Built(s) \/ BuildFails(s) \/ Vanished(s) \/ DbFails(s)
    PROVE  IInv' /\ GoodKept
  <1>1. CASE Built(s)
    <2>1. Attempt(s, build)
      BY <1>1 DEF Built, Attempt, Marked
    <2>2. QED
      BY <1>1, <2>1, StepSettled DEF Built
  <1>2. CASE BuildFails(s)
    <2>1. Attempt(s, build)
      BY <1>2 DEF BuildFails, Attempt
    <2>2. QED
      BY <1>2, <2>1, StepSettled DEF BuildFails
  <1>3. CASE Vanished(s)
    <2>1. Attempt(s, build)
      BY <1>3 DEF Vanished, Attempt
    <2>2. QED
      BY <1>3, <2>1, StepSettled DEF Vanished
  <1>4. CASE DbFails(s)
    <2>1. Attempt(s, build) /\ chain # <<>> /\ chain[1].seg = s /\ UNCHANGED segs
      BY <1>4 DEF DbFails, Attempt
    <2>2. CASE Settled(chain[1].source, TRUE) /\ UNCHANGED clock
      BY <2>1, <2>2, StepSettled
    <2>3. CASE Lost
      BY <2>1, <2>3, StepLost
    <2>4. QED
      BY <1>4, <2>2, <2>3 DEF DbFails, Rejected
  <1>5. QED
    BY <1>1, <1>2, <1>3, <1>4

LEMMA StepOpen ==
    ASSUME IInv, NEW r \in Reader, NEW s \in Segment, Open(r, s)
    PROVE  IInv' /\ GoodKept
  <1> DEFINE q == [seg |-> s, read |-> ReadOf(s)]
  <1>1. TypeOK /\ PassExact /\ BuildInv /\ ReaderInv /\ CareInv
    BY DEF IInv
  <1>2. q \in Request /\ q.seg = s /\ q.read.from = clock /\ q.read.gen = segs[s].gen
    BY <1>1, ReadNow DEF Request
  <1>3. reader \in [Reader -> SUBSET Request] /\ reader' = [reader EXCEPT ![r] = {q}]
    BY <1>1 DEF TypeOK, Open
  <1>4. UNCHANGED <<clock, segs, cache, chain, build, pass, trigger>>
    BY DEF Open
  <1> HIDE DEF q
  <1>5. TypeOK'
    <2>1. reader' \in [Reader -> SUBSET Request]
      BY <1>2, <1>3
    <2>2. QED
      BY <1>1, <1>4, <2>1 DEF TypeOK
  <1>6. ReaderInv'
    BY <1>1, <1>2, <1>3, <1>4 DEF ReaderInv, ReadInv, TypeOK, Instant
  <1>7. PassExact' /\ BuildInv' /\ CareInv'
    BY <1>1, <1>4 DEF PassExact, BuildInv, CareInv, ReadInv
  <1>8. GoodKept
    BY <1>1, <1>4 DEF GoodKept, TypeOK, Care, Instant, None
  <1>9. QED
    BY <1>5, <1>6, <1>7, <1>8 DEF IInv

LEMMA StepAnswer ==
    ASSUME IInv, NEW r \in Reader, Answer(r)
    PROVE  IInv' /\ GoodKept
  <1>1. TypeOK /\ PassExact /\ BuildInv /\ ReaderInv /\ CareInv
    BY DEF IInv
  <1>2. PICK q \in reader[r] : /\ Attempt(q.seg, q.read)
                               /\ reader' = [reader EXCEPT ![r] = {}]
                               /\ UNCHANGED <<clock, segs, chain, build, pass, trigger>>
    BY DEF Answer, Attempt, Marked
  <1>3. reader \in [Reader -> SUBSET Request] /\ q \in Request
    BY <1>1, <1>2 DEF TypeOK
  <1>4. q.seg \in Segment /\ q.read \in Read /\ ReadInv(q.seg, q.read.gen, q.read.from)
    BY <1>1, <1>2, <1>3 DEF Request, ReaderInv
  <1>5. clock' \in {clock, clock + 1} /\ UNCHANGED segs
    BY <1>2
  <1>6. cache' \in [Segment -> Care] /\ CareInv' /\ GoodKept
    BY <1>2, <1>4, <1>5, AttemptKeeps
  <1>7. TypeOK' /\ ReaderInv'
    BY <1>1, <1>2, <1>3, <1>6 DEF TypeOK, ReaderInv, ReadInv
  <1>8. PassExact' /\ BuildInv'
    BY <1>1, <1>2 DEF PassExact, BuildInv, ReadInv
  <1>9. QED
    BY <1>6, <1>7, <1>8 DEF IInv

\* A refresh dates every read that it makes out of date.
LEMMA StepRefresh ==
    ASSUME IInv, NEW s \in Segment, Refresh(s)
    PROVE  IInv' /\ GoodKept
  <1>1. TypeOK /\ PassExact /\ BuildInv /\ ReaderInv /\ CareInv
    BY DEF IInv
  <1>2. /\ segs \in [Segment -> Row] /\ clock \in Instant /\ clock \in Nat
        /\ cache \in [Segment -> Care]
    BY <1>1, CarePrecomputeAssumption DEF TypeOK, Instant
  <1>3. UNCHANGED <<clock, cache, chain, build, pass, trigger, reader>>
    BY DEF Refresh
  <1>4. /\ segs' = [segs EXCEPT ![s].gen = @ + 1, ![s].refreshed = clock]
        /\ segs[s].gen < MaxRefreshes
    BY DEF Refresh
  <1>5. segs'[s] = [segs[s] EXCEPT !.gen = @ + 1, !.refreshed = clock]
    BY <1>2, <1>4
  <1>6. segs'[s] \in Row /\ segs'[s].refreshed = clock
    <2>1. segs[s] \in Row /\ segs[s].gen \in 0 .. MaxRefreshes
      BY <1>2 DEF Row
    <2>2. segs[s].gen + 1 \in 0 .. MaxRefreshes
      BY <1>4, <2>1, CarePrecomputeAssumption
    <2>3. QED
      BY <1>2, <1>5, <2>1, <2>2 DEF Row
  <1>7. \A x \in Segment : x # s => segs'[x] = segs[x]
    BY <1>2, <1>4
  <1>8. segs' \in [Segment -> Row]
    BY <1>2, <1>4, <1>5, <1>6
  <1>9. TypeOK'
    BY <1>1, <1>3, <1>8 DEF TypeOK
  <1>10. \A x \in Segment : \A g, f : ReadInv(x, g, f) => ReadInv(x, g, f)'
    BY <1>3, <1>6, <1>7 DEF ReadInv
  <1>11. BuildInv'
    <2>1. chain # <<>> => chain[1].seg \in Segment
      BY <1>1, FirstJob DEF TypeOK
    <2>2. QED
      BY <1>1, <1>3, <1>10, <2>1 DEF BuildInv
  <1>12. ReaderInv'
    <2>1. \A r \in Reader : \A q \in reader[r] : q.seg \in Segment
      BY <1>1 DEF TypeOK, Request
    <2>2. QED
      BY <1>1, <1>3, <1>10, <2>1 DEF ReaderInv
  <1>13. CareInv'
    <2>1. SUFFICES ASSUME NEW x \in Segment
                   PROVE  /\ segs'[x].refreshed <= clock'
                          /\ cache'[x].computed <= clock'
                          /\ cache'[x].gen # None =>
                                 /\ cache'[x].computed = cache'[x].built.to
                                 /\ cache'[x].built.from <= cache'[x].built.to
                                 /\ ReadInv(x, cache[x].gen, cache[x].built.from)'
      BY DEF CareInv
    <2>2. segs'[x].refreshed <= clock'
      BY <1>1, <1>2, <1>3, <1>6, <1>7 DEF CareInv
    <2>3. QED
      BY <1>1, <1>3, <1>10, <2>2 DEF CareInv
  <1>14. PassExact'
    BY <1>1, <1>3 DEF PassExact
  <1>15. GoodKept
    BY <1>2, <1>3 DEF GoodKept, Care, Instant, None
  <1>16. QED
    BY <1>9, <1>11, <1>12, <1>13, <1>14, <1>15 DEF IInv

LEMMA StepDelete ==
    ASSUME IInv, NEW s \in Segment, Delete(s)
    PROVE  IInv' /\ GoodKept
  <1>1. TypeOK /\ PassExact /\ BuildInv /\ ReaderInv /\ CareInv
    BY DEF IInv
  <1>2. segs \in [Segment -> Row] /\ cache \in [Segment -> Care]
    BY <1>1 DEF TypeOK
  <1>3. UNCHANGED <<clock, cache, chain, build, pass, trigger, reader>>
    BY DEF Delete
  <1>4. segs' = [segs EXCEPT ![s].exists = FALSE]
    BY DEF Delete
  <1>5. segs' \in [Segment -> Row]
    BY <1>2, <1>4 DEF Row
  <1>6. \A x \in Segment : segs'[x].gen = segs[x].gen /\ segs'[x].refreshed = segs[x].refreshed
    BY <1>2, <1>4 DEF Row
  <1>7. \A x \in Segment : \A g, f : ReadInv(x, g, f) => ReadInv(x, g, f)'
    BY <1>3, <1>6 DEF ReadInv
  <1>8. BuildInv'
    <2>1. chain # <<>> => chain[1].seg \in Segment
      BY <1>1, FirstJob DEF TypeOK
    <2>2. QED
      BY <1>1, <1>3, <1>7, <2>1 DEF BuildInv
  <1>9. ReaderInv'
    <2>1. \A r \in Reader : \A q \in reader[r] : q.seg \in Segment
      BY <1>1 DEF TypeOK, Request
    <2>2. QED
      BY <1>1, <1>3, <1>7, <2>1 DEF ReaderInv
  <1>10. CareInv'
    BY <1>1, <1>3, <1>6, <1>7 DEF CareInv
  <1>11. TypeOK' /\ PassExact'
    BY <1>1, <1>3, <1>5 DEF TypeOK, PassExact
  <1>12. GoodKept
    BY <1>2, <1>3 DEF GoodKept, Care, Instant, None
  <1>13. QED
    BY <1>8, <1>9, <1>10, <1>11, <1>12 DEF IInv

LEMMA StepAdvance == IInv /\ Advance => IInv' /\ GoodKept
  <1>1. SUFFICES ASSUME IInv, Advance PROVE IInv' /\ GoodKept
    OBVIOUS
  <1>2. TypeOK /\ PassExact /\ BuildInv /\ ReaderInv /\ CareInv
    BY <1>1 DEF IInv
  <1>3. /\ clock' = clock + 1 /\ clock < MaxClock
        /\ UNCHANGED <<segs, cache, chain, build, pass, trigger, reader>>
    BY <1>1 DEF Advance
  <1>4. clock \in Nat /\ clock' \in Instant
    BY <1>2, <1>3, CarePrecomputeAssumption DEF TypeOK, Instant
  <1>5. segs \in [Segment -> Row] /\ cache \in [Segment -> Care] /\ build \in Read
    BY <1>2 DEF TypeOK
  <1>6. TypeOK' /\ PassExact'
    BY <1>2, <1>3, <1>4 DEF TypeOK, PassExact
  <1>7. BuildInv'
    BY <1>2, <1>3, <1>4, <1>5 DEF BuildInv, ReadInv, Read, Instant
  <1>8. ReaderInv'
    <2>1. \A r \in Reader : \A q \in reader[r] : q.read.from \in Nat
      BY <1>2, CarePrecomputeAssumption DEF TypeOK, Request, Read, Instant
    <2>2. QED
      BY <1>2, <1>3, <1>4, <2>1 DEF ReaderInv, ReadInv
  <1>9. CareInv'
    BY <1>2, <1>3, <1>4, <1>5 DEF CareInv, ReadInv, Care, Row, Instant, None
  <1>10. GoodKept
    BY <1>3, <1>5 DEF GoodKept, Care, Instant, None
  <1>11. QED
    BY <1>6, <1>7, <1>8, <1>9, <1>10 DEF IInv

LEMMA StepCrash == IInv /\ Crash => IInv' /\ GoodKept
  <1>1. SUFFICES ASSUME IInv, Crash PROVE IInv' /\ GoodKept
    OBVIOUS
  <1>2. TypeOK /\ Lost /\ cache' = cache /\ UNCHANGED segs
    BY <1>1 DEF Crash, IInv
  <1>3. /\ clock' = clock + 1 /\ clock' \in Instant
        /\ chain' \in Seq(Job) /\ build' \in Read /\ pass' \in [Loop -> Pass]
        /\ trigger' \in [Segment -> Instant \cup {None}]
        /\ reader' \in [Reader -> SUBSET Request]
        /\ PassExact' /\ BuildInv' /\ ReaderInv'
    BY <1>1, <1>2, LostKeeps
  <1>4. CareInv /\ clock \in Int /\ segs \in [Segment -> Row] /\ cache \in [Segment -> Care]
    BY <1>1, <1>2 DEF IInv, TypeOK, Instant
  <1>5. CareInv'
    BY <1>2, <1>3, <1>4 DEF CareInv, ReadInv, Care, Row, Instant, None
  <1>6. GoodKept
    BY <1>2, <1>4 DEF GoodKept, Care, Instant, None
  <1>7. TypeOK'
    BY <1>2, <1>3 DEF TypeOK
  <1>8. QED
    BY <1>3, <1>5, <1>6, <1>7 DEF IInv
-----------------------------------------------------------------------------
LEMMA Quiet == IInv /\ cache' = cache => GoodKept
  <1>1. IInv => cache \in [Segment -> Care]
    BY DEF IInv, TypeOK
  <1>2. QED
    BY <1>1 DEF GoodKept, Care, Instant, None

LEMMA NextInv == IInv /\ [Next]_vars => IInv' /\ GoodKept
  <1>1. SUFFICES ASSUME IInv, [Next]_vars PROVE IInv' /\ GoodKept
    OBVIOUS
  <1>2. CASE Tick
    BY <1>1, <1>2, StepTick, Quiet DEF Tick
  <1>3. CASE Rewarm
    BY <1>1, <1>3, StepRewarm, Quiet DEF Rewarm
  <1>4. CASE Advance
    BY <1>1, <1>4, StepAdvance
  <1>5. CASE Crash
    BY <1>1, <1>5, StepCrash
  <1>6. ASSUME NEW s \in Segment, Trigger(s) PROVE IInv' /\ GoodKept
    BY <1>1, <1>6, StepTrigger, Quiet DEF Trigger
  <1>7. ASSUME NEW s \in Segment, Built(s) \/ BuildFails(s) \/ Vanished(s) \/ DbFails(s)
        PROVE  IInv' /\ GoodKept
    BY <1>1, <1>7, StepJob
  <1>8. ASSUME NEW s \in Segment, Refresh(s) PROVE IInv' /\ GoodKept
    BY <1>1, <1>8, StepRefresh
  <1>9. ASSUME NEW s \in Segment, Delete(s) PROVE IInv' /\ GoodKept
    BY <1>1, <1>9, StepDelete
  <1>10. ASSUME NEW r \in Reader, NEW s \in Segment, Open(r, s) PROVE IInv' /\ GoodKept
    BY <1>1, <1>10, StepOpen
  <1>11. ASSUME NEW r \in Reader, Answer(r) PROVE IInv' /\ GoodKept
    BY <1>1, <1>11, StepAnswer
  <1>12. CASE UNCHANGED vars
    <2>1. IInv'
      BY <1>1, <1>12 DEF vars, IInv, TypeOK, PassExact, BuildInv, ReaderInv, CareInv, ReadInv
    <2>2. QED
      BY <1>1, <1>12, <2>1, Quiet DEF vars
  <1>13. QED
    BY <1>1, <1>2, <1>3, <1>4, <1>5, <1>6, <1>7, <1>8, <1>9, <1>10, <1>11, <1>12 DEF Next

THEOREM Inductive == Spec => []IInv
  <1>1. QED
    BY InitInv, NextInv, PTL DEF Spec

\* The state keeps its types: scheduler, cache and requests.
THEOREM TypeCorrect == Spec => []TypeOK
  <1>1. IInv => TypeOK
    BY DEF IInv
  <1>2. QED
    BY <1>1, Inductive, PTL

\* draining and rewarmingAll are set exactly while their loop has its one job
\* on the chain, through failures, rejections and restarts.
THEOREM FlagsExact == Spec => []PassExact
  <1>1. IInv => PassExact
    BY DEF IInv
  <1>2. QED
    BY <1>1, Inductive, PTL

\* Only a refresh during its own build makes a payload out of date unnoticed.
THEOREM StaleOnlyIfOverlapped == Spec => []StaleIsOverlapped
  <1>1. IInv => StaleIsOverlapped
    <2>1. SUFFICES ASSUME IInv, NEW s \in Segment,
                          cache[s].gen \notin {None, segs[s].gen}, ~Newer(s)
                   PROVE  segs[s].refreshed \in cache[s].built.from .. cache[s].built.to
      BY DEF StaleIsOverlapped
    <2>2. /\ cache[s].computed = cache[s].built.to
          /\ segs[s].refreshed >= cache[s].built.from
      BY <2>1 DEF IInv, CareInv, ReadInv
    <2>3. /\ segs[s].refreshed \in Int /\ cache[s].computed \in Int
          /\ cache[s].built.from \in Nat /\ cache[s].built.to \in Nat
      BY <2>1, CarePrecomputeAssumption DEF IInv, TypeOK, Row, Care, Instant, None
    <2>4. segs[s].refreshed <= cache[s].computed
      BY <2>1, <2>2, <2>3 DEF Newer, None
    <2>5. QED
      BY <2>2, <2>3, <2>4
  <1>2. QED
    BY <1>1, Inductive, PTL

\* No attempt loses the last good payload or sets its date back.
THEOREM GoodPayloadKept == Spec => LastGoodKept
  <1>1. IInv /\ [Next]_vars => [GoodKept]_vars
    BY NextInv
  <1>2. LastGoodKept <=> [][GoodKept]_vars
    BY DEF LastGoodKept, GoodKept
  <1>3. QED
    BY <1>1, <1>2, Inductive, PTL DEF Spec
=============================================================================
