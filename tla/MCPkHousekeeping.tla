--------------------------- MODULE MCPkHousekeeping ----------------------------
(* Either the watchdog is on, or tunnels come and go.  The watchdog does not   *)
(* look at tunnels, nor they at it, but for the ticks they cause, which only    *)
(* pet it more often; so do those of the application.  With the timer left on,  *)
(* a program that flies ticks like one that does not.                           *)
EXTENDS PkHousekeeping

MCNext ==
    /\ HouseNext
    /\ IF watched THEN tun' = tun /\ ~AppTick
                  ELSE enable' /\ run' = "running" /\ status' # "FLYING"

MCSpec == HouseInit /\ [][MCNext]_houseVars /\ HouseFairness

\* A program that is not rejected.
Unrejected == {"FLYING", "PROBLEMS", "NO_NETWORK"}
=============================================================================
