--------------------------- MODULE DecisionLatch ---------------------------
(***************************************************************************)
(* What the human approval gate promises to the rest of the program, with  *)
(* no clicks, sessions or cards: a review request that exists is decided   *)
(* at most once, the decision is never revised, and at most one background *)
(* continuation is dispatched for it, and only if it was approved.         *)
(* ApprovalGate implements this module; Orchestrator uses it.       *)
(***************************************************************************)
CONSTANT Approval       \* the review requests, one per approval_id

VARIABLES decision,     \* status column of the approvals table, "absent" if no row
          dispatched    \* number of resume_approval tasks started for the request

latchVars == <<decision, dispatched>>

Verdict == {"approved", "rejected", "expired"}      \* terminal statuses

LatchTypeOK ==
    /\ decision \in [Approval -> Verdict \cup {"absent", "pending"}]
    /\ dispatched \in [Approval -> {0, 1}]

LatchInit ==
    /\ decision = [a \in Approval |-> "absent"]
    /\ dispatched = [a \in Approval |-> 0]

(* The request is stored, undecided. *)
Request(a) ==
    /\ decision[a] = "absent"
    /\ decision' = [decision EXCEPT ![a] = "pending"]
    /\ UNCHANGED dispatched

(* The one decision. *)
Decide(a, v) ==
    /\ decision[a] = "pending"
    /\ decision' = [decision EXCEPT ![a] = v]
    /\ UNCHANGED dispatched

(* The continuation of an approved request is started, once. *)
Dispatch(a) ==
    /\ decision[a] = "approved"
    /\ dispatched[a] = 0
    /\ dispatched' = [dispatched EXCEPT ![a] = 1]
    /\ UNCHANGED decision

LatchNext ==
    \E a \in Approval :
        \/ Request(a)
        \/ \E v \in Verdict : Decide(a, v)
        \/ Dispatch(a)

LatchSpec == LatchInit /\ [][LatchNext]_latchVars
============================================================================
