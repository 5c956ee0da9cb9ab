------------------------------ MODULE WorkPool ------------------------------
(***************************************************************************)
(* What a client may rely on from the thread pool: every unit of work that *)
(* the pool accepts is completed, once; a wait for the tasks returns only  *)
(* when everything accepted has been completed; and after the wait that    *)
(* closes the pool nothing is accepted any more.  Work may beget work: a   *)
(* batch is accepted from the client or from a unit that is not complete.  *)
(***************************************************************************)
CONSTANTS Unit,     \* the units of work
          Batch     \* the sets of units that are accepted together

VARIABLES accepted, completed, client

vars == <<accepted, completed, client>>

Init == accepted = {} /\ completed = {} /\ client = "open"

Accept(b) ==
    /\ client = "open" \/ accepted # completed
    /\ b \cap accepted = {}
    /\ accepted' = accepted \cup b
    /\ UNCHANGED <<completed, client>>

Complete(u) ==
    /\ u \in accepted \ completed
    /\ completed' = completed \cup {u}
    /\ UNCHANGED <<accepted, client>>

CallWait ==
    /\ client = "open"
    /\ client' = "draining"
    /\ UNCHANGED <<accepted, completed>>

(* A wait returns to a client that may go on, or to one that is done.      *)
WaitReturns ==
    /\ client = "draining"
    /\ accepted = completed
    /\ client' \in {"open", "closed"}
    /\ UNCHANGED <<accepted, completed>>

Next ==
    \/ \E b \in Batch : Accept(b)
    \/ \E u \in Unit : Complete(u)
    \/ CallWait
    \/ WaitReturns

Spec ==
    /\ Init /\ [][Next]_vars
    /\ \A u \in Unit : WF_vars(Complete(u))
    /\ WF_vars(WaitReturns)
=============================================================================
