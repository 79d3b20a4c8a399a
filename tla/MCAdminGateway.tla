--------------------------- MODULE MCAdminGateway ---------------------------
(* Instances of AdminGateway for TLC. *)
EXTENDS AdminGateway, TLC

=============================================================================
