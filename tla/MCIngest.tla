------------------------------ MODULE MCIngest ------------------------------
(* Ingest on small instances. *)
EXTENDS Ingest
=============================================================================
