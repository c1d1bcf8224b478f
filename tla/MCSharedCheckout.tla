-------------------------- MODULE MCSharedCheckout --------------------------
(* Instances of SharedCheckout for TLC. *)
EXTENDS SharedCheckout, TLC

CONSTANTS t1, x, y

\* The pipelines are about two commits.
TwoCommits == [t \in Task |-> IF t = t1 THEN x ELSE y]
=============================================================================
