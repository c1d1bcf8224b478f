---------------------------- MODULE Remediation ----------------------------
(***************************************************************************)
(* What the remediation pipeline promises about each incident, without its *)
(* tables, tasks and failures: it works, then stops or asks a human; it    *)
(* touches GitHub only while it waits no longer, after an approval; it is  *)
(* fixed only with a pull request; what is over stays over.  Orchestrator  *)
(* implements it.                                                          *)
(***************************************************************************)
CONSTANT Incident

VARIABLES stage,      \* what the pipelines table says, to whoever reads it
          approved,   \* the incidents whose request was approved
          pull        \* GitHub has a pull request

remediationVars == <<stage, approved, pull>>

Stages == {"none", "working", "waiting", "fixing", "fixed", "stopped"}

RemediationInit ==
    /\ stage = [i \in Incident |-> "none"]
    /\ approved = {}
    /\ pull = [i \in Incident |-> FALSE]

Move(i, from, to) ==
    /\ stage[i] = from
    /\ stage' = [stage EXCEPT ![i] = to]

Begin(i) == Move(i, "none", "working") /\ UNCHANGED <<approved, pull>>

Ask(i) == Move(i, "working", "waiting") /\ UNCHANGED <<approved, pull>>

Stop(i) ==
    /\ Move(i, "working", "stopped") \/ Move(i, "fixing", "stopped")
    /\ UNCHANGED <<approved, pull>>

(* The card is out before the pipeline says it waits, and may stay out when  *)
(* asking fails.                                                             *)
Approve(i) ==
    /\ stage[i] \in {"working", "waiting", "stopped"}
    /\ approved' = approved \cup {i}
    /\ UNCHANGED <<stage, pull>>

Fix(i) == i \in approved /\ Move(i, "waiting", "fixing") /\ UNCHANGED <<approved, pull>>

OpenPull(i) ==
    /\ stage[i] = "fixing"
    /\ pull' = [pull EXCEPT ![i] = TRUE]
    /\ UNCHANGED <<stage, approved>>

Finish(i) == pull[i] /\ Move(i, "fixing", "fixed") /\ UNCHANGED <<approved, pull>>

RemediationNext ==
    \E i \in Incident :
        Begin(i) \/ Ask(i) \/ Stop(i) \/ Approve(i) \/ Fix(i) \/ OpenPull(i) \/ Finish(i)

RemediationSpec == RemediationInit /\ [][RemediationNext]_remediationVars
=============================================================================
