------------------------------ MODULE MCTaskQueue ------------------------------
(* TaskQueue on a small instance. *)
EXTENDS TaskQueue
=============================================================================
