--------------------------- MODULE MutationOutcome ---------------------------
(***************************************************************************)
(* What create_pull_request promises to resume_approval, with no table, no *)
(* branch and no stages: a call runs until it returns a record or an       *)
(* error, a record comes back only when GitHub has the pull request, and   *)
(* an error says nothing about it.  GitMutation implements this module;    *)
(* Orchestrator's Mutate is one call of it from beginning to end.          *)
(***************************************************************************)
CONSTANT Call

VARIABLES outcome,    \* of each call: "running", "record" or "error"
          opened      \* GitHub has a pull request of the proposal, open or closed

outcomeVars == <<outcome, opened>>

OutcomeInit ==
    /\ outcome = [c \in Call |-> "running"]
    /\ opened = FALSE

End(c, how) ==
    /\ outcome[c] = "running"
    /\ outcome' = [outcome EXCEPT ![c] = how]

\* GitHub has accepted the request of a call that is still at work.
Open ==
    /\ \E c \in Call : outcome[c] = "running"
    /\ opened' = TRUE
    /\ UNCHANGED outcome

GiveRecord(c) == opened /\ End(c, "record") /\ UNCHANGED opened

\* What is reported as an error may have been accepted all the same.
GiveError(c) == End(c, "error") /\ opened' \in {opened, TRUE}

OutcomeNext == Open \/ \E c \in Call : GiveRecord(c) \/ GiveError(c)

OutcomeSpec == OutcomeInit /\ [][OutcomeNext]_outcomeVars
==============================================================================
