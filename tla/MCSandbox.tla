----------------------------- MODULE MCSandbox -----------------------------
(* Instances of Sandbox for TLC. *)
EXTENDS Sandbox
=============================================================================
