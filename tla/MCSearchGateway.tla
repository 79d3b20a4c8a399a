--------------------------- MODULE MCSearchGateway ---------------------------
(* Instances of SearchGateway for TLC. *)
EXTENDS SearchGateway
=============================================================================
