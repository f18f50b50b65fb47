--------------------------- MODULE MCLeaseManager ---------------------------
(* Small instance of LeaseManager for TLC. *)
EXTENDS LeaseManager

MCLeases == 1..2
=============================================================================
