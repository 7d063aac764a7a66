-------------------------- MODULE CareCases_proofs --------------------------
(* Proofs about CareCases. The lock lemmas say what a change of one handler *)
(* does to the lock: it keeps its side of it, takes it or gives it back.    *)
EXTENDS CareCases, TLAPS

LEMMA Constants ==
    /\ Default \in Workspace /\ All \notin Playbook
    /\ Cron \subseteq Sweep /\ NoSweep \notin Sweep
BY CareCasesAssumption

LEMMA CaseTypes == NoCase \in Case /\ NewCase \in Case /\ NoCase.open = FALSE
BY DEF NoCase, NewCase, Case

LEMMA IdleType == Idle \in Handler /\ Idle.pc = "idle" /\ Idle.todo = {}
BY Constants DEF Idle, Handler

LEMMA InitInv == Init => IInv
<1> SUFFICES ASSUME Init PROVE IInv
  OBVIOUS
<1>1. \A h \in Sweep : sweep[h] = Idle
  BY DEF Init
<1>2. TypeOK
  BY CaseTypes, IdleType DEF Init, TypeOK
<1>3. PoolInv
  BY <1>1, IdleType DEF PoolInv
<1>4. SweepsExact
  BY <1>1, IdleType DEF SweepsExact, Holders, Holding, Init
<1>5. QED
  BY <1>2, <1>3, <1>4 DEF IInv
-----------------------------------------------------------------------------
(* One handler changes. *)

\* A record of a handler that PoolInv allows.
Sound(rec) ==
    /\ rec \in Handler
    /\ rec.todo # {} => rec.pc \in {"cohorts", "leftover"}
    /\ rec.pc = "leftover" => "db_fails" \in Env

LEMMA BecomeIs ==
    ASSUME IInv, NEW h \in Sweep, NEW rec, Sound(rec), Become(h, rec)
    PROVE  /\ sweep' \in [Sweep -> Handler] /\ PoolInv'
           /\ \A g \in Sweep : sweep'[g] = IF g = h THEN rec ELSE sweep[g]
<1>1. sweep \in [Sweep -> Handler] /\ rec \in Handler
  BY DEF IInv, TypeOK, Sound
<1>2. \A g \in Sweep : sweep'[g] = IF g = h THEN rec ELSE sweep[g]
  BY <1>1 DEF Become
<1>3. sweep' \in [Sweep -> Handler]
  BY <1>1 DEF Become
<1>4. PoolInv'
  BY <1>2 DEF IInv, PoolInv, Sound
<1>5. QED
  BY <1>2, <1>3, <1>4

\* The handler stays on its side of the lock.
LEMMA KeepsLock ==
    ASSUME IInv, NEW h \in Sweep, NEW rec, Sound(rec), Become(h, rec), UNCHANGED inFlight,
           rec.pc \in Holding <=> sweep[h].pc \in Holding,
           rec.pc \in Holding => rec.ws = sweep[h].ws,
           match' \in [Workspace -> SUBSET Slot], ledger' \in [Slot -> Case]
    PROVE  IInv'
<1>1. \A w \in Workspace : Holders(w)' = Holders(w)
  BY BecomeIs DEF Holders
<1>2. SweepsExact'
  BY <1>1 DEF IInv, SweepsExact
<1>3. TypeOK'
  BY BecomeIs DEF IInv, TypeOK
<1>4. QED
  BY <1>2, <1>3, BecomeIs DEF IInv

\* The handler gives the lock back.
LEMMA GivesLock ==
    ASSUME IInv, NEW h \in Sweep, NEW rec, Sound(rec), Become(h, rec), Unlock(h),
           sweep[h].pc \in Holding, rec.pc \notin Holding,
           match' \in [Workspace -> SUBSET Slot], ledger' \in [Slot -> Case]
    PROVE  IInv'
<1> DEFINE w == sweep[h].ws
<1>1. w \in Workspace /\ inFlight \in [Workspace -> Sweep \cup {NoSweep}]
  BY DEF IInv, TypeOK, Handler
<1>2. h \in Holders(w) /\ Holders(w) = {inFlight[w]} \ {NoSweep}
  BY <1>1 DEF Holders, IInv, SweepsExact
<1>3. Holders(w) = {h}
  BY <1>2
<1>4. \A v \in Workspace : inFlight'[v] = IF v = w THEN NoSweep ELSE inFlight[v]
  BY <1>1 DEF Unlock
<1>5. \A v \in Workspace : Holders(v)' = Holders(v) \ {h}
  BY BecomeIs DEF Holders
<1>6. \A v \in Workspace \ {w} : h \notin Holders(v)
  BY DEF Holders
<1>7. SweepsExact'
  <2> SUFFICES ASSUME NEW v \in Workspace
               PROVE  Holders(v)' = {inFlight'[v]} \ {NoSweep}
    BY DEF SweepsExact
  <2>1. CASE v = w
    BY <1>3, <1>4, <1>5, <2>1
  <2>2. CASE v # w
    BY <1>4, <1>5, <1>6, <2>2 DEF IInv, SweepsExact
  <2>3. QED
    BY <2>1, <2>2
<1>8. TypeOK'
  BY <1>1, BecomeIs DEF IInv, TypeOK, Unlock
<1>9. QED
  BY <1>7, <1>8, BecomeIs DEF IInv

\* The handler takes a free lock.
LEMMA TakesLock ==
    ASSUME IInv, NEW h \in Sweep, NEW w \in Workspace, NEW only \in Playbook \cup {All},
           Claim(h, w, only), sweep[h].pc \notin Holding,
           match' \in [Workspace -> SUBSET Slot], ledger' \in [Slot -> Case]
    PROVE  IInv'
<1> DEFINE rec == [pc |-> "members", ws |-> w, only |-> only, todo |-> {}]
<1>1. Sound(rec) /\ Become(h, rec)
  BY DEF Claim, Sound, Handler
<1>2. inFlight \in [Workspace -> Sweep \cup {NoSweep}] /\ inFlight[w] = NoSweep
  BY DEF IInv, TypeOK, Claim, Busy
<1>3. \A v \in Workspace : inFlight'[v] = IF v = w THEN h ELSE inFlight[v]
  BY <1>2 DEF Claim
<1>4. \A g \in Sweep : sweep'[g] = IF g = h THEN rec ELSE sweep[g]
  BY <1>1, BecomeIs
<1>5. Holders(w) = {} /\ Holders(w)' = Holders(w) \cup {h}
  <2>1. Holders(w) = {}
    BY <1>2 DEF IInv, SweepsExact
  <2>2. QED
    BY <1>4, <2>1 DEF Holders, Holding
<1>6. \A v \in Workspace \ {w} : Holders(v)' = Holders(v)
  BY <1>4 DEF Holders
<1>7. SweepsExact'
  <2> SUFFICES ASSUME NEW v \in Workspace
               PROVE  Holders(v)' = {inFlight'[v]} \ {NoSweep}
    BY DEF SweepsExact
  <2>1. CASE v = w
    BY <1>3, <1>5, <2>1, Constants
  <2>2. CASE v # w
    BY <1>3, <1>6, <2>2 DEF IInv, SweepsExact
  <2>3. QED
    BY <2>1, <2>2
<1>8. TypeOK'
  BY <1>1, <1>2, BecomeIs DEF IInv, TypeOK, Claim
<1>9. QED
  BY <1>1, <1>7, <1>8, BecomeIs DEF IInv
-----------------------------------------------------------------------------
(* The two ways in which a step of a sweep ends. *)

LEMMA IdleSound == Sound(Idle)
BY IdleType DEF Sound, Idle

LEMMA Continues ==
    ASSUME IInv, NEW h \in Sweep, NEW rest \in SUBSET Playbook, Continue(h, rest),
           sweep[h].pc \in {"members", "cohorts", "leftover"},
           match' \in [Workspace -> SUBSET Slot], ledger' \in [Slot -> Case]
    PROVE  /\ IInv'
           /\ \A g \in Sweep \ {h} : sweep'[g] = sweep[g]
<1>1. sweep[h] \in Handler /\ (sweep[h].pc = "leftover" => "db_fails" \in Env)
  BY DEF IInv, TypeOK, PoolInv
<1>2. CASE rest # {}
  <2> DEFINE rec == [sweep[h] EXCEPT !.pc = IF @ = "members" THEN "cohorts" ELSE @, !.todo = rest]
  <2>1. Become(h, rec) /\ UNCHANGED inFlight
    BY <1>2 DEF Continue
  <2>2. rec.pc = (IF sweep[h].pc = "members" THEN "cohorts" ELSE sweep[h].pc)
        /\ rec.ws = sweep[h].ws /\ rec \in Handler
    BY <1>1 DEF Handler
  <2>3. Sound(rec) /\ (rec.pc \in Holding <=> sweep[h].pc \in Holding)
    BY <1>1, <2>2 DEF Sound, Holding
  <2>4. QED
    BY <2>1, <2>2, <2>3, KeepsLock, BecomeIs
<1>3. CASE rest = {} /\ sweep[h].pc # "leftover" /\ \E s \in Slot : ledger'[s].open
  <2> DEFINE rec == [sweep[h] EXCEPT !.pc = "profiles", !.todo = {}]
  <2>1. Become(h, rec) /\ UNCHANGED inFlight
    BY <1>3 DEF Continue
  <2>2. rec.pc = "profiles" /\ rec.ws = sweep[h].ws /\ rec.todo = {} /\ rec \in Handler
    BY <1>1 DEF Handler
  <2>3. Sound(rec) /\ rec.pc \in Holding /\ sweep[h].pc \in Holding
    BY <1>3, <2>2 DEF Sound, Holding
  <2>4. QED
    BY <2>1, <2>2, <2>3, KeepsLock, BecomeIs
<1>4. CASE rest = {} /\ sweep[h].pc # "leftover" /\ \A s \in Slot : ~ledger'[s].open
  <2>1. Become(h, Idle) /\ Unlock(h)
    BY <1>4 DEF Continue
  <2>2. sweep[h].pc \in Holding /\ Idle.pc \notin Holding
    BY <1>4, IdleType DEF Holding
  <2>3. QED
    BY <2>1, <2>2, IdleSound, GivesLock, BecomeIs
<1>5. CASE rest = {} /\ sweep[h].pc = "leftover"
  <2>1. Become(h, Idle) /\ UNCHANGED inFlight
    BY <1>5 DEF Continue
  <2>2. sweep[h].pc \notin Holding /\ Idle.pc \notin Holding
    BY <1>5, IdleType DEF Holding
  <2>3. QED
    BY <2>1, <2>2, IdleSound, KeepsLock, BecomeIs
<1>6. QED
  BY <1>2, <1>3, <1>4, <1>5 DEF Continue

LEMMA Throws ==
    ASSUME IInv, NEW h \in Sweep, NEW rest \in SUBSET Playbook, Throw(h, rest),
           sweep[h].pc \in {"members", "cohorts", "leftover"}, "db_fails" \in Env,
           match' \in [Workspace -> SUBSET Slot], ledger' \in [Slot -> Case]
    PROVE  /\ IInv'
           /\ \A g \in Sweep \ {h} : sweep'[g] = sweep[g]
<1> DEFINE rec == IF rest = {} THEN Idle ELSE [sweep[h] EXCEPT !.pc = "leftover", !.todo = rest]
<1>1. Become(h, rec)
  BY DEF Throw
<1>2. Sound(rec) /\ rec.pc \notin Holding
  <2>1. sweep[h] \in Handler
    BY DEF IInv, TypeOK
  <2>2. QED
    BY <2>1, IdleSound, IdleType DEF Sound, Handler, Holding
<1>3. CASE sweep[h].pc = "leftover"
  <2>1. UNCHANGED inFlight /\ sweep[h].pc \notin Holding
    BY <1>3 DEF Throw, Holding
  <2>2. QED
    BY <1>1, <1>2, <2>1, KeepsLock, BecomeIs
<1>4. CASE sweep[h].pc # "leftover"
  <2>1. Unlock(h) /\ sweep[h].pc \in Holding
    BY <1>4 DEF Throw, Holding
  <2>2. QED
    BY <1>1, <1>2, <2>1, GivesLock, BecomeIs
<1>5. QED
  BY <1>3, <1>4

LEMMA WorkedType ==
    ASSUME TypeOK, NEW only, NEW opened, NEW ended
    PROVE  Worked(only, opened, ended) \in [Slot -> Case]
BY CaseTypes DEF TypeOK, Worked, Case
-----------------------------------------------------------------------------
(* The steps of a sweep. *)

LEMMA TodoPc ==
    ASSUME IInv, NEW h \in Sweep, NEW p \in sweep[h].todo
    PROVE  /\ sweep[h].pc \in {"cohorts", "leftover"}
           /\ sweep[h].todo \ {p} \in SUBSET Playbook
BY DEF IInv, TypeOK, PoolInv, Handler

LEMMA MembersInv ==
    ASSUME IInv, NEW h \in Sweep, Members(h)
    PROVE  /\ IInv'
           /\ \A g \in Sweep \ {h} : sweep'[g] = sweep[g]
<1>1. ASSUME NEW available \in SUBSET Playbook, HasMembers(h, available)
      PROVE  /\ IInv'
             /\ \A g \in Sweep \ {h} : sweep'[g] = sweep[g]
  <2>1. match' \in [Workspace -> SUBSET Slot] /\ ledger' \in [Slot -> Case]
    BY <1>1 DEF HasMembers, IInv, TypeOK
  <2>2. PICK rest \in SUBSET Playbook : Continue(h, rest)
    BY <1>1 DEF HasMembers
  <2>3. QED
    BY <1>1, <2>1, <2>2, Continues DEF HasMembers
<1>2. CASE /\ "db_fails" \in Env /\ sweep[h].pc = "members"
           /\ UNCHANGED <<match, ledger>>
           /\ Throw(h, {})
  <2>1. match' \in [Workspace -> SUBSET Slot] /\ ledger' \in [Slot -> Case]
    BY <1>2 DEF IInv, TypeOK
  <2>2. QED
    BY <1>2, <2>1, Throws
<1>3. QED
  BY <1>1, <1>2 DEF Members

LEMMA AppliedInv ==
    ASSUME IInv, NEW h \in Sweep, NEW p, Applied(h, p)
    PROVE  /\ IInv'
           /\ \A g \in Sweep \ {h} : sweep'[g] = sweep[g]
<1>1. match' \in [Workspace -> SUBSET Slot] /\ ledger' \in [Slot -> Case]
  BY WorkedType DEF Applied, IInv, TypeOK
<1>2. QED
  BY <1>1, TodoPc, Continues DEF Applied

LEMMA QueryFailsInv ==
    ASSUME IInv, NEW h \in Sweep, NEW p, QueryFails(h, p)
    PROVE  /\ IInv'
           /\ \A g \in Sweep \ {h} : sweep'[g] = sweep[g]
<1>1. match' \in [Workspace -> SUBSET Slot] /\ ledger' \in [Slot -> Case]
  BY DEF QueryFails, IInv, TypeOK
<1>2. QED
  BY <1>1, TodoPc, Continues DEF QueryFails

LEMMA ApplyFailsInv ==
    ASSUME IInv, NEW h \in Sweep, NEW p, ApplyFails(h, p)
    PROVE  /\ IInv'
           /\ \A g \in Sweep \ {h} : sweep'[g] = sweep[g]
<1>1. match' \in [Workspace -> SUBSET Slot] /\ ledger' \in [Slot -> Case]
  BY WorkedType DEF ApplyFails, IInv, TypeOK
<1>2. QED
  BY <1>1, TodoPc, Throws DEF ApplyFails

LEMMA ProfiledInv == ASSUME IInv, NEW h \in Sweep, Profiled(h) PROVE IInv'
<1>1. match' \in [Workspace -> SUBSET Slot] /\ ledger' \in [Slot -> Case]
  BY DEF Profiled, IInv, TypeOK
<1>2. Become(h, Idle) /\ Unlock(h) /\ sweep[h].pc \in Holding /\ Idle.pc \notin Holding
  BY IdleType DEF Profiled, Holding
<1>3. QED
  BY <1>1, <1>2, IdleSound, GivesLock
-----------------------------------------------------------------------------
(* The callers, the operators and the process. *)

LEMMA CallersInv ==
    ASSUME IInv, NEW h \in Sweep,
           \/ PostSweep(h) \/ ResetAndSweep(h)
           \/ h \in Cron /\ (Tick(h) \/ Eligible(h) \/ Skipped(h))
    PROVE  IInv'
<1>1. CASE PostSweep(h)
  <2>1. match' \in [Workspace -> SUBSET Slot] /\ ledger' \in [Slot -> Case]
    BY <1>1 DEF PostSweep, IInv, TypeOK
  <2>2. QED
    BY <1>1, <2>1, TakesLock DEF PostSweep, Holding
<1>2. CASE ResetAndSweep(h)
  <2>1. match' \in [Workspace -> SUBSET Slot] /\ ledger' \in [Slot -> Case]
    BY <1>2, CaseTypes DEF ResetAndSweep, Clear, IInv, TypeOK
  <2>2. QED
    BY <1>2, <2>1, TakesLock DEF ResetAndSweep, Holding
<1>3. CASE Tick(h)
  <2>1. match' \in [Workspace -> SUBSET Slot] /\ ledger' \in [Slot -> Case]
    BY <1>3 DEF Tick, IInv, TypeOK
  <2>2. PICK rec : rec = [Idle EXCEPT !.pc = "probe"]
    OBVIOUS
  <2>3. Sound(rec) /\ rec.pc \notin Holding
    BY <2>2, Constants DEF Sound, Handler, Idle, Holding
  <2>4. QED
    BY <1>3, <2>1, <2>2, <2>3, KeepsLock DEF Tick, Holding
<1>4. CASE Eligible(h)
  <2>1. match' \in [Workspace -> SUBSET Slot] /\ ledger' \in [Slot -> Case]
    BY <1>4 DEF Eligible, IInv, TypeOK
  <2>2. QED
    BY <1>4, <2>1, TakesLock, Constants DEF Eligible, Holding
<1>5. CASE Skipped(h)
  <2>1. match' \in [Workspace -> SUBSET Slot] /\ ledger' \in [Slot -> Case]
    BY <1>5 DEF Skipped, IInv, TypeOK
  <2>2. Idle.pc \notin Holding /\ sweep[h].pc \notin Holding
    BY <1>5, IdleType DEF Skipped, Holding
  <2>3. QED
    BY <1>5, <2>1, <2>2, IdleSound, KeepsLock DEF Skipped
<1>6. QED
  BY <1>1, <1>2, <1>3, <1>4, <1>5

\* Nothing happens to the handlers and the lock.
LEMMA QuietInv ==
    ASSUME IInv, UNCHANGED <<sweep, inFlight>>,
           match' \in [Workspace -> SUBSET Slot], ledger' \in [Slot -> Case]
    PROVE  IInv'
BY DEF IInv, TypeOK, SweepsExact, Holders, PoolInv

LEMMA OthersInv ==
    ASSUME IInv,
           \/ \E s \in Slot : Patch(s) \/ \E w \in Workspace : Moves(w, s)
           \/ Reset
    PROVE  IInv'
<1>1. UNCHANGED <<sweep, inFlight>>
  BY DEF Patch, Moves, Reset
<1>2. match' \in [Workspace -> SUBSET Slot]
  BY DEF Patch, Moves, Reset, IInv, TypeOK
<1>3. ledger' \in [Slot -> Case]
  BY CaseTypes DEF Patch, Moves, Reset, Clear, IInv, TypeOK
<1>4. QED
  BY <1>1, <1>2, <1>3, QuietInv

LEMMA CrashInv == ASSUME IInv, Crash PROVE IInv'
<1>1. \A h \in Sweep : sweep'[h] = Idle
  BY DEF Crash
<1>2. TypeOK'
  BY IdleType DEF Crash, IInv, TypeOK
<1>3. PoolInv'
  BY <1>1, IdleType DEF PoolInv
<1>4. SweepsExact'
  BY <1>1, IdleType DEF Crash, SweepsExact, Holders, Holding
<1>5. QED
  BY <1>2, <1>3, <1>4 DEF IInv

LEMMA NextInv == IInv /\ [Next]_vars => IInv'
<1> SUFFICES ASSUME IInv, [Next]_vars PROVE IInv'
  OBVIOUS
<1>1. CASE \E h \in Sweep : Work(h)
  BY <1>1, MembersInv, ProfiledInv, AppliedInv, QueryFailsInv, ApplyFailsInv DEF Work
<1>2. CASE \/ \E h \in Sweep : PostSweep(h) \/ ResetAndSweep(h)
           \/ \E c \in Cron : Tick(c) \/ Eligible(c) \/ Skipped(c)
  BY <1>2, CallersInv, Constants
<1>3. CASE \/ \E s \in Slot : Patch(s) \/ \E w \in Workspace : Moves(w, s)
           \/ Reset
  BY <1>3, OthersInv
<1>4. CASE Crash
  BY <1>4, CrashInv
<1>5. CASE UNCHANGED vars
  BY <1>5, QuietInv DEF vars, IInv, TypeOK
<1>6. QED
  BY <1>1, <1>2, <1>3, <1>4, <1>5 DEF Next

LEMMA Invariant == Spec => []IInv
BY InitInv, NextInv, PTL DEF Spec
-----------------------------------------------------------------------------
(* Every variable keeps its type.                                          *)
THEOREM TypeCorrect == Spec => []TypeOK
BY Invariant, PTL DEF IInv

(* The lock of a workspace is held by the one running sweep, if any.       *)
THEOREM LockCorrect == Spec => []SweepsExact
BY Invariant, PTL DEF IInv

(* As long as no write to the database fails, the lock keeps the sweeps of *)
(* a workspace apart; the workers that a failed sweep leaves behind are    *)
(* outside of it (care-sweep-execute.ts lines 7-9).                        *)
THEOREM SweepsApart == ASSUME "db_fails" \notin Env PROVE Spec => []NoOverlap
<1>1. IInv => NoOverlap
  <2> SUFFICES ASSUME IInv, NEW g \in Sweep, NEW h \in Sweep,
                      sweep[g].todo # {}, sweep[h].todo # {}, sweep[g].ws = sweep[h].ws
               PROVE  g = h
    BY DEF NoOverlap
  <2>1. sweep[g].pc = "cohorts" /\ sweep[h].pc = "cohorts" /\ sweep[h].ws \in Workspace
    BY DEF IInv, PoolInv, TypeOK, Handler
  <2>2. {g, h} \subseteq Holders(sweep[h].ws)
    BY <2>1 DEF Holders, Holding
  <2>3. QED
    BY <2>1, <2>2 DEF IInv, SweepsExact
<1>2. QED
  BY <1>1, Invariant, PTL
-----------------------------------------------------------------------------
(* What a step does to the case of a playbook that it settles. *)

Evidence(s, h) ==
    s[1] \in sweep[h].todo \ sweep'[h].todo /\ ledger[s].open /\ ledger'[s] # ledger[s] =>
        /\ s \notin match[sweep[h].ws] /\ ~ledger[s].treated
        /\ ~ledger'[s].open => sweep[h].only # All

LEMMA WorkedIs ==
    ASSUME IInv, NEW s \in Slot, NEW p, NEW cohort, NEW only, NEW opened, NEW ended,
           opened \subseteq Entered(p, cohort), ended \subseteq Exited(p, cohort),
           ledger' = Worked(only, opened, ended), ledger[s].open, ledger'[s] # ledger[s]
    PROVE  /\ s \notin cohort /\ ~ledger[s].treated
           /\ ~ledger'[s].open => only # All
<1>1. s \notin opened
  BY DEF Entered
<1>2. s \in ended
  BY <1>1 DEF Worked
<1>3. s \notin cohort /\ ~ledger[s].treated
  BY <1>2 DEF Exited
<1>4. only = All => ledger'[s].open
  <2>1. ledger[s] \in Case
    BY DEF IInv, TypeOK
  <2>2. only = All => ledger'[s] = [ledger[s] EXCEPT !.lapsed = TRUE]
    BY <1>1, <1>2 DEF Worked
  <2>3. QED
    BY <2>1, <2>2 DEF Case
<1>5. QED
  BY <1>3, <1>4

LEMMA SettlesOnEvidence ==
    ASSUME IInv, [Next]_vars, "identity_fails" \notin Env, NEW s \in Slot, NEW h \in Sweep
    PROVE  Evidence(s, h)
<1> SUFFICES ASSUME s[1] \in sweep[h].todo, s[1] \notin sweep'[h].todo,
                    ledger[s].open, ledger'[s] # ledger[s]
             PROVE  /\ s \notin match[sweep[h].ws] /\ ~ledger[s].treated
                    /\ ~ledger'[s].open => sweep[h].only # All
  BY DEF Evidence
<1>1. ledger' # ledger /\ sweep' # sweep
  OBVIOUS
<1>2. sweep[h].pc \in {"cohorts", "leftover"}
  BY DEF IInv, PoolInv
<1>3. PICK g \in Sweep : \E p \in Playbook : Applied(g, p) \/ ApplyFails(g, p)
  <2>1. \A g \in Sweep : ~ResetAndSweep(g)
    <3> SUFFICES ASSUME NEW g \in Sweep, ResetAndSweep(g) PROVE FALSE
      OBVIOUS
    <3>1. g # h
      BY <1>2 DEF ResetAndSweep
    <3>2. PICK rec : sweep' = [sweep EXCEPT ![g] = rec]
      BY DEF ResetAndSweep, Claim, Become
    <3>3. sweep'[h] = sweep[h]
      BY <3>1, <3>2 DEF IInv, TypeOK
    <3>4. QED
      BY <3>3
  <2>2. QED
    BY <1>1, <2>1 DEF Next, vars, Work, Members, HasMembers, Profiled, QueryFails,
        PostSweep, Tick, Eligible, Skipped, Patch, Moves, Reset, Crash
<1>4. PICK p \in Playbook : Applied(g, p) \/ ApplyFails(g, p)
  BY <1>3
<1>5. g = h
  BY <1>4, AppliedInv, ApplyFailsInv
<1>6. PICK opened, ended :
         /\ opened \subseteq Entered(p, match[sweep[h].ws])
         /\ ended \subseteq Exited(p, match[sweep[h].ws])
         /\ ledger' = Worked(sweep[h].only, opened, ended)
  BY <1>4, <1>5 DEF Applied, ApplyFails, Cohorts
<1>7. QED
  BY <1>6, WorkedIs

(* Unless the identity field of a cohort is looked up in vain, a sweep ends *)
(* or flags a case only if its user has left the cohort and it is not       *)
(* treated, whatever else fails in Cube or in the database.                 *)
THEOREM EvidenceOnly == ASSUME "identity_fails" \notin Env PROVE Spec => CaseEndsOnEvidence
<1>1. IInv /\ [Next]_vars => [\A s \in Slot, h \in Sweep :
           s[1] \in sweep[h].todo \ sweep'[h].todo /\ ledger[s].open /\ ledger'[s] # ledger[s] =>
               /\ s \notin match[sweep[h].ws] /\ ~ledger[s].treated
               /\ ~ledger'[s].open => sweep[h].only # All]_vars
  BY SettlesOnEvidence DEF Evidence
<1>2. QED
  BY <1>1, Invariant, PTL DEF Spec, CaseEndsOnEvidence
=============================================================================
