--------------------------- MODULE MCConnectorSync ----------------------------
(* ConnectorSync on small instances. *)
EXTENDS ConnectorSync
=============================================================================
