------------------------------ MODULE MCPkEvents ------------------------------
(* Two consumers in one second, so that the order of the slots decides, or one,  *)
(* with time passing between the posts.                                           *)
EXTENDS PkEvents

Asking == {c \in Consumers : cpc[c] = "look"}

MCInit ==
    /\ Init
    /\ \/ Asking = Consumers /\ now = MaxTime
       \/ Asking = {CHOOSE c \in Consumers : TRUE} /\ now = 1

MCSpec == MCInit /\ [][Next]_vars /\ Fairness
=============================================================================
