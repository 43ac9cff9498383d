-------------------------------- MODULE PkJobs --------------------------------
(***************************************************************************)
(* What the job pile promises its users: a bag of jobs.  A job posted is   *)
(* handed to one worker, once, in no particular order; a worker has at     *)
(* most one job in hand, and may post it again when it is done with it.    *)
(***************************************************************************)
EXTENDS Naturals

CONSTANTS Workers, Jobs, NoJob

VARIABLES pending,  \* how many copies of each job wait
          held      \* the job in each worker's hands, or NoJob

vars == <<pending, held>>

Init ==
    /\ pending = [j \in Jobs |-> 0]
    /\ held = [w \in Workers |-> NoJob]

Post(j) ==
    /\ pending' = [pending EXCEPT ![j] = @ + 1]
    /\ UNCHANGED held

Take(w, j) ==
    /\ held[w] = NoJob
    /\ pending[j] > 0
    /\ pending' = [pending EXCEPT ![j] = @ - 1]
    /\ held' = [held EXCEPT ![w] = j]

Finish(w) ==
    /\ held[w] # NoJob
    /\ held' = [held EXCEPT ![w] = NoJob]
    /\ UNCHANGED pending

Repost(w) ==
    /\ held[w] # NoJob
    /\ pending' = [pending EXCEPT ![held[w]] = @ + 1]
    /\ held' = [held EXCEPT ![w] = NoJob]

Next ==
    \/ \E j \in Jobs : Post(j) \/ \E w \in Workers : Take(w, j)
    \/ \E w \in Workers : Finish(w) \/ Repost(w)

Spec == Init /\ [][Next]_vars
=============================================================================
