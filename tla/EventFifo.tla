------------------------------ MODULE EventFifo ------------------------------
(***************************************************************************)
(* What an EventStream promises to the code that uses it, with no lock, no *)
(* slice and no wake-up channel: a first-in first-out log that can be      *)
(* closed once, whose unread events survive the closing, and an outcome    *)
(* that is decided at most once.                                           *)
(***************************************************************************)
EXTENDS Sequences

CONSTANTS Events,      \* everything that can be published
          Ends(_),     \* whether an event closes the log
          OutcomeOf(_),\* the outcome a closing event decides
          Outcomes,    \* the outcomes End can be given
          NoOutcome    \* the outcome of a log that is not decided

VARIABLES pending,     \* published, not yet taken
          taken,       \* what the reader took, in order
          closed,
          outcome

fifoVars == <<pending, taken, closed, outcome>>

Init == /\ pending = <<>>
        /\ taken = <<>>
        /\ closed = FALSE
        /\ outcome = NoOutcome

Publish(e) ==
    /\ ~closed
    /\ pending' = Append(pending, e)
    /\ closed' = Ends(e)
    /\ outcome' = IF Ends(e) THEN OutcomeOf(e) ELSE outcome
    /\ UNCHANGED taken

Take ==
    /\ pending # <<>>
    /\ taken' = Append(taken, Head(pending))
    /\ pending' = Tail(pending)
    /\ UNCHANGED <<closed, outcome>>

Close ==
    /\ ~closed
    /\ closed' = TRUE
    /\ outcome' \in {outcome} \cup Outcomes
    /\ UNCHANGED <<pending, taken>>

\* A log closed without an outcome may be given one later.
Decide(o) ==
    /\ closed
    /\ outcome = NoOutcome
    /\ outcome' = o
    /\ UNCHANGED <<pending, taken, closed>>

Next == \/ \E e \in Events : Publish(e)
        \/ Take
        \/ Close
        \/ \E o \in Outcomes : Decide(o)

Spec == Init /\ [][Next]_fifoVars

\* A reader that keeps reading takes everything there is.
LiveSpec == Spec /\ WF_fifoVars(Take)
==============================================================================
