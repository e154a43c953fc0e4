--------------------------- MODULE MCGraphDelivery ---------------------------
(* Small instances of GraphDelivery for TLC. *)
EXTENDS GraphDelivery

=============================================================================
