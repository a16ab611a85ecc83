---------------------------- MODULE MCResources ----------------------------
(* Module Resources with limits a few requests away. *)
EXTENDS Resources
=============================================================================
