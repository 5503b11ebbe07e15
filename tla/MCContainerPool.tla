--------------------------- MODULE MCContainerPool ----------------------------
(* ContainerPool on small instances. *)
EXTENDS ContainerPool
=============================================================================
