---------------------------- MODULE MCJobEvents -----------------------------
(* Small instances of JobEvents for TLC. *)
EXTENDS JobEvents, TLC

\* No limit on the rows kept.
Unlimited == -1
=============================================================================
