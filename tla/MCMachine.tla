----------------------------- MODULE MCMachine -----------------------------
(* Module Machine for TLC; every bound is a constant of Machine.              *)
EXTENDS Machine
=============================================================================
