----------------------------- MODULE MCPkJobPile -----------------------------
(* Two workers, as pkm_run starts them; two connection slots and one tunnel  *)
(* slot make a pile of three.                                                *)
EXTENDS PkJobPile

=============================================================================
