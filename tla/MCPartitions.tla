---------------------------- MODULE MCPartitions ----------------------------
(***************************************************************************)
(* Partitions with units of two hours and the zones UTC-12, UTC and UTC+14. *)
(***************************************************************************)
EXTENDS Partitions

MCZone == {-6, 0, 7}
=============================================================================
