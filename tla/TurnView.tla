------------------------------ MODULE TurnView ------------------------------
(***************************************************************************)
(* What the chat service and the page promise to who follows a turn,       *)
(* through refreshes, lost connections, replays and restarts: one turn of  *)
(* the session produces events at a time, and after its end only what a    *)
(* tool adds that outlives it; a view shows the events of one turn, each   *)
(* once and in the order they were produced, from one no later than the    *)
(* oldest that is kept; it is closed before another is opened, shows       *)
(* nothing new once closed, and a turn is called whole when the event that *)
(* ends it is shown, and from then on.                                     *)
(* StreamReplay implements it.                                             *)
(***************************************************************************)
EXTENDS Naturals

CONSTANTS Turn, NoTurn,
          Kept  \* how many of the last events of a turn are kept

VARIABLES produced,  \* how many events each turn has produced
          end,       \* how many it had at its end, 0 before
          over,      \* the turns that have ended or were lost
          view       \* the events of view.turn before next, from first

viewVars == <<produced, end, over, view>>

Blank(isOpen) == [turn |-> NoTurn, first |-> 0, next |-> 0, open |-> isOpen, whole |-> FALSE]

Runs(t)   == produced[t] > 0 /\ t \notin over
Oldest(t) == IF produced[t] > Kept THEN produced[t] - Kept ELSE 0

Init ==
    /\ produced = [t \in Turn |-> 0]
    /\ end = [t \in Turn |-> 0]
    /\ over = {}
    /\ view = Blank(FALSE)

Begin(t) ==
    /\ produced[t] = 0
    /\ \A u \in Turn : ~Runs(u)
    /\ produced' = [produced EXCEPT ![t] = 1]
    /\ UNCHANGED <<end, over>>

Produce(t) ==
    /\ Runs(t)
    /\ produced' = [produced EXCEPT ![t] = @ + 1]
    /\ UNCHANGED <<end, over>>

\* The last n events.
End(t, n) ==
    /\ Runs(t)
    /\ produced' = [produced EXCEPT ![t] = @ + n]
    /\ end' = [end EXCEPT ![t] = produced[t] + n]
    /\ over' = over \cup {t}

\* A tool that outlives its turn.
Late(t) ==
    /\ end[t] > 0
    /\ produced' = [produced EXCEPT ![t] = @ + 1]
    /\ UNCHANGED <<end, over>>

\* The turn will produce nothing more, and has not ended.
Lose(t) ==
    /\ Runs(t)
    /\ over' = over \cup {t}
    /\ UNCHANGED <<produced, end>>

Produces ==
    /\ UNCHANGED view
    /\ \E t \in Turn : \/ Begin(t) \/ Produce(t) \/ Late(t) \/ Lose(t)
                       \/ \E n \in {1, 2} : End(t, n)

Open ==
    /\ ~view.open
    /\ view' = Blank(TRUE)
    /\ UNCHANGED <<produced, end, over>>

\* The view shows event n of turn t, which may be the one that ends it.
Shows(t, first, n, whole) ==
    /\ n < produced[t]
    /\ view.whole => whole
    /\ whole => view.whole \/ n + 1 = end[t]
    /\ view' = [turn |-> t, first |-> first, next |-> n + 1, open |-> TRUE, whole |-> whole]
    /\ UNCHANGED <<produced, end, over>>

ShowFirst(t, n, whole) == view.turn = NoTurn /\ n <= Oldest(t) /\ Shows(t, n, n, whole)
ShowNext(t, whole)     == view.turn = t /\ Shows(t, view.first, view.next, whole)

Show ==
    /\ view.open
    /\ \E t \in Turn, whole \in BOOLEAN :
           \/ \E n \in 0 .. Oldest(t) : ShowFirst(t, n, whole)
           \/ ShowNext(t, whole)

Close ==
    /\ view.open
    /\ view' = [view EXCEPT !.open = FALSE]
    /\ UNCHANGED <<produced, end, over>>

Clear ==
    /\ view' = Blank(FALSE)
    /\ UNCHANGED <<produced, end, over>>

Next == Open \/ Close \/ Clear \/ Show \/ Produces

Spec == Init /\ [][Next]_viewVars
=============================================================================
