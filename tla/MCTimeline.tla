----------------------------- MODULE MCTimeline -----------------------------
(* Module Timeline with counters small enough to overflow. *)
EXTENDS Timeline
=============================================================================
