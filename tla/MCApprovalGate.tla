-------------------------- MODULE MCApprovalGate --------------------------
(* Instances of ApprovalGate for TLC; the configurations give the sets. *)
EXTENDS ApprovalGate
===========================================================================
