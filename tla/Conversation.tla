---------------------------- MODULE Conversation ----------------------------
(***************************************************************************)
(* What the chat service promises of the conversations it stores, whatever *)
(* happens to their turns: the history of a session only grows, by a       *)
(* question or by the one answer to the question it ends with; a session   *)
(* has one turn at work on it at a time; the answer is written by that     *)
(* turn, or by a restart, when no turn is at work at all.  ChatTurn        *)
(* implements it.                                                          *)
(***************************************************************************)
EXTENDS Integers, Sequences

CONSTANTS Session, Turn, Nobody,
          Ending  \* how an answer may end ("service_restart": by a restart)

VARIABLES rows,   \* the history of a session
          owner   \* the turn at work on a session

convVars == <<rows, owner>>

Question(t, i) == [role |-> "user", turn |-> t, idx |-> i, stop |-> "none"]
Reply(t, i, r) == [role |-> "assistant", turn |-> t, idx |-> i, stop |-> r]
Summary        == [role |-> "preamble", turn |-> Nobody, idx |-> 0, stop |-> "none"]

\* The history h ends with a question.
Asks(h) == h # <<>> /\ h[Len(h)].role = "user"

\* The history h with the answer to its last question.
Answered(h, r) == Append(h, Reply(h[Len(h)].turn, h[Len(h)].idx + 1, r))

\* The question of turn t is on record.
Asked(t) == \E s \in Session : \E i \in DOMAIN rows[s] :
                rows[s][i].role = "user" /\ rows[s][i].turn = t

Init ==
    /\ rows = [s \in Session |-> <<>>]
    /\ owner = [s \in Session |-> Nobody]

\* The session continues another one.
Summarise(s) ==
    /\ rows[s] = <<>>
    /\ rows' = [rows EXCEPT ![s] = <<Summary>>]
    /\ UNCHANGED owner

\* A turn's question, the first one or after a summary or a history.
Ask(s, t) ==
    /\ owner[s] = Nobody /\ ~Asked(t)
    /\ owner' = [owner EXCEPT ![s] = t]
    /\ \E h \in {rows[s]} \cup (IF rows[s] = <<>> THEN {<<Summary>>} ELSE {}) :
           rows' = [rows EXCEPT ![s] = Append(h, Question(t, Len(h)))]

\* The owner answers its own question, and leaves or not.
Answers(s, r) ==
    /\ Asks(rows[s]) /\ owner[s] = rows[s][Len(rows[s])].turn
    /\ rows' = [rows EXCEPT ![s] = Answered(@, r)]
    /\ owner' \in {owner, [owner EXCEPT ![s] = Nobody]}

\* The owner leaves: it has answered before, or could not store the answer.
Leave(s) ==
    /\ owner[s] # Nobody
    /\ owner' = [owner EXCEPT ![s] = Nobody]
    /\ UNCHANGED rows

Halt ==
    /\ owner' = [s \in Session |-> Nobody]
    /\ UNCHANGED rows

\* A restart answers the last questions of some sessions.
Restart(X) ==
    /\ \A s \in Session : owner[s] = Nobody
    /\ \A s \in X : Asks(rows[s])
    /\ rows' = [s \in Session |-> IF s \in X THEN Answered(rows[s], "service_restart")
                                  ELSE rows[s]]
    /\ UNCHANGED owner

Next ==
    \/ \E s \in Session :
        \/ Summarise(s)
        \/ \E t \in Turn : Ask(s, t)
        \/ \E r \in Ending : Answers(s, r)
        \/ Leave(s)
    \/ Halt
    \/ \E X \in SUBSET Session : Restart(X)

Spec == Init /\ [][Next]_convVars
=============================================================================
