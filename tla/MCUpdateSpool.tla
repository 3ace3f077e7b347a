--------------------------- MODULE MCUpdateSpool ----------------------------
(* Small instances of UpdateSpool for TLC. *)
EXTENDS UpdateSpool, TLC
=============================================================================
