----------------------------- MODULE MCGraphRag -------------------------------
(* GraphRag on small instances. *)
EXTENDS GraphRag
=============================================================================
