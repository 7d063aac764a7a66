---------------------------- MODULE SharedCalls ----------------------------
(***************************************************************************)
(* What the gateway's proxy of /load promises of the queries it sends to   *)
(* Cube and of the answers it gives, whoever comes, leaves or waits: equal *)
(* queries share one call; a call occupies the slot of the client who      *)
(* started it, within the caps, for as long as it runs, and ends for all   *)
(* who share it at once and with one answer; it is cut short only if one   *)
(* of them has left; nobody is refused while there is a slot or a call to  *)
(* share; and what Cube has answered is given again only as what it was.   *)
(* CubeLoad implements it.                                                 *)
(***************************************************************************)
EXTENDS Naturals, FiniteSets

CONSTANTS Client, Owner, Query,
          MaxCalls, MaxCallsOf, MaxStored,
          Ending  \* how a call may end ("rows", "gone" and others)

VARIABLES payer,    \* who pays for the call of a query: one owner, or none
          sharers,  \* the clients that wait for it
          left,     \* those of them that have disconnected
          stored,   \* the queries whose rows may be given again
          told      \* what a client was told last, of which query

sharedVars == <<payer, sharers, left, stored, told>>

Answer(kind, q) == [kind |-> kind, query |-> q]

Calls      == {q \in Query : payer[q] # {}}
CallsOf(o) == {q \in Query : o \in payer[q]}
HasRoom(o) == Cardinality(Calls) < MaxCalls /\ Cardinality(CallsOf(o)) < MaxCallsOf

Init ==
    /\ payer = [q \in Query |-> {}] /\ sharers = [q \in Query |-> {}]
    /\ left = {} /\ stored = {}
    /\ told \in [Client -> {Answer("none", q) : q \in Query}]

\* Client c asks query q, and is told at once or has to wait ("none").
Asks(c, q, kind) ==
    /\ \A p \in Query : c \notin sharers[p]
    /\ told' = [told EXCEPT ![c] = Answer(kind, q)]

GiveAgain(c, q) ==
    /\ Asks(c, q, "rows")
    /\ q \in stored
    /\ UNCHANGED <<payer, sharers, left, stored>>

Join(c, q) ==
    /\ Asks(c, q, "none")
    /\ q \notin stored /\ q \in Calls
    /\ sharers' = [sharers EXCEPT ![q] = @ \cup {c}]
    /\ UNCHANGED <<payer, left, stored>>

Start(c, o, q) ==
    /\ Asks(c, q, "none")
    /\ q \notin stored /\ q \notin Calls /\ HasRoom(o)
    /\ payer' = [payer EXCEPT ![q] = {o}]
    /\ sharers' = [sharers EXCEPT ![q] = {c}]
    /\ UNCHANGED <<left, stored>>

Refuse(c, o, q) ==
    /\ Asks(c, q, "rejected")
    /\ q \notin stored /\ q \notin Calls /\ ~HasRoom(o)
    /\ UNCHANGED <<payer, sharers, left, stored>>

\* A client disconnects; its handler waits on.
Leave(c) ==
    /\ c \notin left /\ \E q \in Query : c \in sharers[q]
    /\ left' = left \cup {c}
    /\ UNCHANGED <<payer, sharers, stored, told>>

\* The call of q ends for all who share it, of whom those in gone have left.
Ends(q, kind, gone) ==
    /\ q \in Calls
    /\ kind = "gone" => gone \cap sharers[q] # {}
    /\ payer' = [payer EXCEPT ![q] = {}]
    /\ sharers' = [sharers EXCEPT ![q] = {}]
    /\ left' = left \ sharers[q]
    /\ stored' \in SUBSET (stored \cup IF kind = "rows" THEN {q} ELSE {})
    /\ Cardinality(stored') <= MaxStored
    /\ told' = [c \in Client |-> IF c \in sharers[q] THEN Answer(kind, q) ELSE told[c]]

\* The last client disconnects, and the call is cut short.
LastLeaves(c, q) ==
    /\ sharers[q] \ left = {c}
    /\ Ends(q, "gone", left \cup {c})

\* Rows are not stored for ever.
Forget ==
    /\ stored' \in SUBSET stored
    /\ UNCHANGED <<payer, sharers, left, told>>

Next ==
    \/ \E c \in Client, q \in Query :
        \/ GiveAgain(c, q) \/ Join(c, q) \/ LastLeaves(c, q)
        \/ \E o \in Owner : Start(c, o, q) \/ Refuse(c, o, q)
    \/ \E c \in Client : Leave(c)
    \/ \E q \in Query, kind \in Ending : Ends(q, kind, left)
    \/ Forget

Spec == Init /\ [][Next]_sharedVars
=============================================================================
