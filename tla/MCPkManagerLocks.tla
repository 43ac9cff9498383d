-------------------------- MODULE MCPkManagerLocks --------------------------
(* Two workers, as pkm_run starts them, and one application thread.          *)
EXTENDS PkManagerLocks

=============================================================================
