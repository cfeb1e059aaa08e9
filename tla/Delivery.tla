------------------------------ MODULE Delivery ------------------------------
(***************************************************************************)
(* What a 202 promises, whatever queue, workers and dead-letter queue are  *)
(* behind it: an accepted submission stays inside the process until its    *)
(* event is safe in a collection of MongoDB or it is excused, nothing is   *)
(* written that was not inside, and what is safe stays safe.               *)
(*                                                                         *)
(* accepted  the submissions answered 202                                  *)
(* inside    those the process still holds in memory                       *)
(* safe      the event ids in one of the two collections                   *)
(* excused   the submissions that may be given up                          *)
(***************************************************************************)
EXTENDS Events

VARIABLES accepted, inside, safe, excused

deliveryVars == <<accepted, inside, safe, excused>>

Init ==
    /\ accepted = {}
    /\ inside = {}
    /\ safe = {}
    /\ excused = {}

Take(s) ==
    /\ s \notin accepted
    /\ accepted' = accepted \cup {s}
    /\ inside' = inside \cup {s}
    /\ UNCHANGED <<safe, excused>>

\* One step of the pipeline, for any number of submissions.
Advance ==
    /\ UNCHANGED accepted
    /\ inside' \subseteq inside
    /\ safe \subseteq safe' /\ safe' \subseteq safe \cup IdsOf(inside)
    /\ excused \subseteq excused'
    /\ \A s \in inside \ inside' : EventId[s] \in safe' \/ s \in excused'

Next == Advance \/ \E s \in Subs : Take(s)

Spec == Init /\ [][Next]_deliveryVars

=============================================================================
