----------------------------- MODULE CareCases -----------------------------
(***************************************************************************)
(* The ledger of VIP-care cases of one game (care/care-case-store.ts,      *)
(* care/care-case-engine.ts), the sweeps that compare it with the cohorts  *)
(* of the playbooks (care/care-case-sweep.ts, care/care-sweep-execute.ts)  *)
(* for the cron (jobs/care-auto-sweep.ts) and for the routes               *)
(* (routes/care-cases.ts), and the operators who work on the same cases.   *)
(*                                                                         *)
(* A sweep holds the lock of its workspace while it awaits Cube; the cases *)
(* belong to the game, whichever workspace opened them. An action is what  *)
(* runs between two awaits.                                                *)
(***************************************************************************)
CONSTANTS Workspace,
          Default,    \* the workspace the cron sweeps
          Playbook,   \* the membership playbooks that are enabled, with a predicate
          All,        \* the scope of a sweep that is not limited to one playbook
          Uid,
          Sweep,      \* calls of executeSweep, and the ticks that lead to one
          Cron,       \* the ticks
          NoSweep,
          Env         \* what may happen: see Environment

\* "meta_fails", "query_fails": Cube; "identity_fails": Cube, while the cohort's
\* identity field is looked up; "db_fails": a write to SQLite throws.
Environment == {"meta_fails", "query_fails", "identity_fails", "db_fails", "crash"}

ASSUME CareCasesAssumption ==
    /\ Default \in Workspace /\ All \notin Playbook
    /\ Cron \subseteq Sweep /\ NoSweep \notin Sweep
    /\ Env \subseteq Environment

VARIABLES
    match,    \* what is so in the warehouse, through each workspace's model
    ledger,   \* rows of care_cases that are not resolved or dismissed
    sweep,    \* the handlers
    inFlight  \* inFlight

vars == <<match, ledger, sweep, inFlight>>

Slot == Playbook \X Uid
\* treated stands for the status. Closed rows are not kept (operators may
\* reopen any row that the database holds from before), and neither is the
\* workspace that opened a case, which only a reset looks at.
Case == [open : BOOLEAN, treated : BOOLEAN, lapsed : BOOLEAN]
NoCase == [open |-> FALSE, treated |-> FALSE, lapsed |-> FALSE]
NewCase == [open |-> TRUE, treated |-> FALSE, lapsed |-> FALSE]

\* todo: the playbooks whose cohort is not settled. A "leftover" is the pool of
\* a sweep that has failed: its other workers go on without the handler.
Handler == [pc : {"idle", "probe", "members", "cohorts", "profiles", "leftover"},
            ws : Workspace, only : Playbook \cup {All}, todo : SUBSET Playbook]
Idle == [pc |-> "idle", ws |-> Default, only |-> All, todo |-> {}]

Holding == {"members", "cohorts", "profiles"}

Init ==
    /\ match \in [Workspace -> SUBSET Slot]
    /\ ledger = [s \in Slot |-> NoCase]
    /\ sweep = [h \in Sweep |-> Idle]
    /\ inFlight = [w \in Workspace |-> NoSweep]
-----------------------------------------------------------------------------
(* The engine: what a cohort does to the ledger. *)

Entered(p, cohort) == {s \in Slot : s[1] = p /\ s \in cohort /\ ~ledger[s].open}

BugExited(p, cohort) == {s \in Slot : s[1] = p /\ s \notin cohort /\ ledger[s].open}

Exited(p, cohort) ==
    {s \in Slot : s[1] = p /\ s \notin cohort /\ ledger[s].open /\ ~ledger[s].treated}

\* A sweep of one playbook prunes the cases it ends, a full one flags them.
Worked(only, opened, ended) ==
    [s \in Slot |->
        IF s \in opened THEN NewCase
        ELSE IF s \in ended THEN IF only = All THEN [ledger[s] EXCEPT !.lapsed = TRUE] ELSE NoCase
        ELSE ledger[s]]

\* A cohort whose identity field is not found is taken to be empty.
Cohorts(w) == {match[w]} \cup IF "identity_fails" \in Env THEN {{}} ELSE {}
-----------------------------------------------------------------------------
(* The executor. *)

Unlock(h) == inFlight' = [inFlight EXCEPT ![sweep[h].ws] = NoSweep]

Become(h, rec) == sweep' = [sweep EXCEPT ![h] = rec]

BugBusy(w) == FALSE

Busy(w) == inFlight[w] # NoSweep

Claim(h, w, only) ==
    /\ ~Busy(w)
    /\ inFlight' = [inFlight EXCEPT ![w] = h]
    /\ Become(h, [pc |-> "members", ws |-> w, only |-> only, todo |-> {}])

\* The handler goes on with what is left to settle, then with the profiles of
\* the open cases, if there are any, and returns after recording the run.
Continue(h, rest) ==
    \/ /\ rest # {}
       /\ Become(h, [sweep[h] EXCEPT !.pc = IF @ = "members" THEN "cohorts" ELSE @, !.todo = rest])
       /\ UNCHANGED inFlight
    \/ /\ rest = {} /\ sweep[h].pc # "leftover" /\ \E s \in Slot : ledger'[s].open
       /\ Become(h, [sweep[h] EXCEPT !.pc = "profiles", !.todo = {}])
       /\ UNCHANGED inFlight
    \/ /\ rest = {} /\ sweep[h].pc # "leftover" /\ \A s \in Slot : ~ledger'[s].open
       /\ Become(h, Idle) /\ Unlock(h)
    \/ /\ rest = {} /\ sweep[h].pc = "leftover"
       /\ Become(h, Idle)
       /\ UNCHANGED inFlight

\* The lock stays when the sweep throws.
BugThrow(h, rest) ==
    /\ Become(h, IF rest = {} THEN Idle ELSE [sweep[h] EXCEPT !.pc = "leftover", !.todo = rest])
    /\ UNCHANGED inFlight

\* The handler rejects: it records a failed run and frees the lock. The workers
\* of its pool are not stopped, and a leftover has no handler to reject.
Throw(h, rest) ==
    /\ Become(h, IF rest = {} THEN Idle ELSE [sweep[h] EXCEPT !.pc = "leftover", !.todo = rest])
    /\ IF sweep[h].pc = "leftover" THEN UNCHANGED inFlight ELSE Unlock(h)

\* getGameMembers answers; without /meta it answers that nothing is there.
HasMembers(h, available) ==
    /\ sweep[h].pc = "members"
    /\ UNCHANGED <<match, ledger>>
    /\ Continue(h, IF sweep[h].only = All THEN available ELSE available \cap {sweep[h].only})

Members(h) ==
    \/ HasMembers(h, Playbook)
    \/ "meta_fails" \in Env /\ HasMembers(h, {})
    \/ /\ "db_fails" \in Env /\ sweep[h].pc = "members"
       /\ UNCHANGED <<match, ledger>>
       /\ Throw(h, {})

\* The cohort of p answers, and is applied at once.
Applied(h, p) ==
    /\ p \in sweep[h].todo
    /\ \E cohort \in Cohorts(sweep[h].ws) :
           ledger' = Worked(sweep[h].only, Entered(p, cohort), Exited(p, cohort))
    /\ Continue(h, sweep[h].todo \ {p})
    /\ UNCHANGED match

\* The query rejects, and the playbook is skipped.
QueryFails(h, p) ==
    /\ "query_fails" \in Env /\ p \in sweep[h].todo
    /\ UNCHANGED <<match, ledger>>
    /\ Continue(h, sweep[h].todo \ {p})

\* A write throws: what is written before stays (pruning is one transaction).
ApplyFails(h, p) ==
    /\ "db_fails" \in Env /\ p \in sweep[h].todo
    /\ LET cohort == match[sweep[h].ws]
       IN  \E opened \in SUBSET Entered(p, cohort), ended \in SUBSET Exited(p, cohort) :
               /\ ended # {} => opened = Entered(p, cohort) /\ sweep[h].only = All
               /\ ledger' = Worked(sweep[h].only, opened, ended)
    /\ Throw(h, sweep[h].todo \ {p})
    /\ UNCHANGED match

\* The profiles have answered or failed, which is the same to the ledger.
Profiled(h) ==
    /\ sweep[h].pc = "profiles"
    /\ Become(h, Idle) /\ Unlock(h)
    /\ UNCHANGED <<match, ledger>>
-----------------------------------------------------------------------------
(* Who sweeps. *)

\* POST /api/care/cases/sweep; a busy workspace answers 409.
PostSweep(h) ==
    /\ h \notin Cron /\ sweep[h].pc = "idle"
    /\ \E w \in Workspace, only \in Playbook \cup {All} : Claim(h, w, only)
    /\ UNCHANGED <<match, ledger>>

\* The cases that a workspace has opened, which may be any, are deleted.
Clear == \E own \in SUBSET Slot : ledger' = [s \in Slot |-> IF s \in own THEN NoCase ELSE ledger[s]]

\* POST /api/care/cases/reset, without and with resweep (409 if busy).
Reset == Clear /\ UNCHANGED <<match, sweep, inFlight>>

ResetAndSweep(h) ==
    /\ h \notin Cron /\ sweep[h].pc = "idle"
    /\ Clear /\ \E w \in Workspace : Claim(h, w, All)
    /\ UNCHANGED match

\* A tick finds the game free and asks whether it is eligible.
Tick(c) ==
    /\ c \in Cron /\ sweep[c].pc = "idle" /\ inFlight[Default] = NoSweep
    /\ Become(c, [Idle EXCEPT !.pc = "probe"])
    /\ UNCHANGED <<match, ledger, inFlight>>

Eligible(c) ==
    /\ sweep[c].pc = "probe"
    /\ Claim(c, Default, All)
    /\ UNCHANGED <<match, ledger>>

\* /meta did not answer, or somebody has taken the lock in the meantime.
Skipped(c) ==
    /\ sweep[c].pc = "probe"
    /\ "meta_fails" \in Env \/ Busy(Default)
    /\ Become(c, Idle)
    /\ UNCHANGED <<match, ledger, inFlight>>
-----------------------------------------------------------------------------
(* Operators, players and the process. *)

\* PATCH /api/care/cases/:id: any status, and the flag; reopening a closed case
\* needs a free slot (ux_open_case).
Patch(s) ==
    /\ \E row \in Case :
           /\ ~row.open => row = NoCase
           /\ ledger' = [ledger EXCEPT ![s] = row]
    /\ UNCHANGED <<match, sweep, inFlight>>

\* A player enters or leaves a cohort.
Moves(w, s) ==
    /\ match' = [match EXCEPT ![w] = IF s \in @ THEN @ \ {s} ELSE @ \cup {s}]
    /\ UNCHANGED <<ledger, sweep, inFlight>>

\* The process is replaced; there is no sweep at boot.
Crash ==
    /\ "crash" \in Env
    /\ sweep' = [h \in Sweep |-> Idle]
    /\ inFlight' = [w \in Workspace |-> NoSweep]
    /\ UNCHANGED <<match, ledger>>
-----------------------------------------------------------------------------
Work(h) ==
    \/ Members(h) \/ Profiled(h)
    \/ \E p \in Playbook : Applied(h, p) \/ QueryFails(h, p) \/ ApplyFails(h, p)

Next ==
    \/ \E h \in Sweep : Work(h) \/ PostSweep(h) \/ ResetAndSweep(h)
    \/ \E c \in Cron : Tick(c) \/ Eligible(c) \/ Skipped(c)
    \/ \E s \in Slot : Patch(s) \/ \E w \in Workspace : Moves(w, s)
    \/ Reset \/ Crash

Spec == Init /\ [][Next]_vars

\* Every await of Cube is bounded by a timeout.
FairSpec ==
    /\ Spec
    /\ \A h \in Sweep : WF_vars(Work(h))
    /\ \A c \in Cron : WF_vars(Eligible(c) \/ Skipped(c))
-----------------------------------------------------------------------------
TypeOK ==
    /\ match \in [Workspace -> SUBSET Slot]
    /\ ledger \in [Slot -> Case]
    /\ sweep \in [Sweep -> Handler]
    /\ inFlight \in [Workspace -> Sweep \cup {NoSweep}]

Holders(w) == {h \in Sweep : sweep[h].pc \in Holding /\ sweep[h].ws = w}

(* The lock of a workspace is held by the one sweep that is running, and by *)
(* nobody when there is none, however a sweep begins and ends: the cron     *)
(* looks at the lock before an await and a manual sweep may come in between *)
(* (care-sweep-execute.ts lines 94-101, 187-188).                           *)
SweepsExact ==
    \A w \in Workspace : Holders(w) = {inFlight[w]} \ {NoSweep}

(* A sweep ends or flags a case only if its user has left the cohort and it *)
(* has not been treated, and ends it only if the operator swept the one     *)
(* playbook: an outage of Cube never looks like an empty cohort             *)
(* (care-case-engine.ts lines 97-115, care-case-sweep.ts lines 168-177).    *)
CaseEndsOnEvidence ==
    [][\A s \in Slot, h \in Sweep :
           s[1] \in sweep[h].todo \ sweep'[h].todo /\ ledger[s].open /\ ledger'[s] # ledger[s] =>
               /\ s \notin match[sweep[h].ws] /\ ~ledger[s].treated
               /\ ~ledger'[s].open => sweep[h].only # All]_vars

(* If ticks find the game free again and again, and what they ask of Cube   *)
(* succeeds again and again, a user who stays in a cohort always gets an    *)
(* open case again, whatever failed, was reset or closed before             *)
(* (care-auto-sweep.ts lines 51-91).                                        *)
Answers ==
    \A c \in Cron :
        /\ SF_vars(Tick(c)) /\ SF_vars(Eligible(c)) /\ SF_vars(HasMembers(c, Playbook))
        /\ \A p \in Playbook : SF_vars(Applied(c, p))

MatchedGetsCase ==
    Answers => \A s \in Slot : <>[](s \in match[Default]) => []<>ledger[s].open

(* No two sweeps of a workspace work on the ledger at the same time.        *)
NoOverlap ==
    \A g, h \in Sweep :
        sweep[g].todo # {} /\ sweep[h].todo # {} /\ sweep[g].ws = sweep[h].ws => g = h
-----------------------------------------------------------------------------
(* The inductive invariant behind the safety properties. *)

PoolInv ==
    \A h \in Sweep :
        /\ sweep[h].todo # {} => sweep[h].pc \in {"cohorts", "leftover"}
        /\ sweep[h].pc = "leftover" => "db_fails" \in Env

IInv == TypeOK /\ SweepsExact /\ PoolInv
=============================================================================
