------------------------------- MODULE PkRequests -------------------------------
(***************************************************************************)
(* What waking the event loop promises: a request made by any thread is    *)
(* accepted by the loop and then handled, requests of one kind that are    *)
(* not accepted yet count as one, and a request to quit ends the loop.     *)
(* PkWakeup implements this with flags and a pipe.                         *)
(***************************************************************************)
CONSTANT Kinds      \* what can be asked for, "quit" among it

VARIABLES
    requested,      \* kinds asked for and not accepted
    due,            \* kinds accepted and not handled
    quitting,       \* a request to quit was handled
    running         \* the loop has not ended

vars == <<requested, due, quitting, running>>

Init == requested = {} /\ due = {} /\ quitting = FALSE /\ running = TRUE

Request(k) ==
    /\ requested' = requested \cup {k}
    /\ UNCHANGED <<due, quitting, running>>

Accept(k) ==
    /\ running /\ k \in requested
    /\ requested' = requested \ {k}
    /\ due' = due \cup {k}
    /\ UNCHANGED <<quitting, running>>

Handle(k) ==
    /\ running /\ k \in due
    /\ due' = due \ {k}
    /\ quitting' = (quitting \/ k = "quit")
    /\ UNCHANGED <<requested, running>>

\* The loop ends with nothing left that it has accepted.
End ==
    /\ running /\ quitting /\ due = {}
    /\ running' = FALSE
    /\ UNCHANGED <<requested, due, quitting>>

Next == End \/ \E k \in Kinds : Request(k) \/ Accept(k) \/ Handle(k)

Spec ==
    /\ Init /\ [][Next]_vars
    /\ WF_vars(End)
    /\ \A k \in Kinds : WF_vars(Accept(k)) /\ WF_vars(Handle(k))

=============================================================================
