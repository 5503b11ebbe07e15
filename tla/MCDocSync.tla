------------------------------ MODULE MCDocSync ------------------------------
(* DocSync on a small instance. *)
EXTENDS DocSync
=============================================================================
