---------------------------- MODULE Orchestrator ----------------------------
(***************************************************************************)
(* The remediation pipeline: the webhook route, RemediationOrchestrator's  *)
(* process_failure and resume_approval, and the pipelines table.           *)
(*                                                                         *)
(* Every call of process_failure is a background coroutine.  Each of its   *)
(* database updates is a session and a transaction of its own, so between  *)
(* two stages everything else may run, the Slack callback that decides the *)
(* approval and the resume task that follows it included:                  *)
(*   received -> diagnosing -> proposing -> validating -> awaiting_approval *)
(*                                            (human)  -> mutating -> completed *)
(* with failed or rejected reachable from every stage.                     *)
(*                                                                         *)
(* The approval gate is used through what it promises (DecisionLatch, which *)
(* ApprovalGate implements), and GitMutationService through its outcome.   *)
(*                                                                         *)
(* Abstractions.  The approval_id and the proposal_id are functions of the *)
(* incident (appr_<incident>_<sha>, one proposal per run of the stages), so *)
(* a row's JSON columns are reduced to what resume_approval tests about    *)
(* them.  failure_context_json is stored with the row and never missing.   *)
(***************************************************************************)
EXTENDS Naturals

CONSTANTS Task,         \* calls of process_failure
          Incident,     \* incident ids uuid4 can return
          NoIncident,   \* incident of a task that has not started
          Resubmits,    \* TRUE if a FailureContext may be submitted twice
          Faults        \* the kinds of failure that may happen

(* "raise":  a stage raises inside the try block;                           *)
(* "escape": a database call outside it raises, also the one that would      *)
(*           record the failure;                                             *)
(* "ack":    a commit succeeds and its caller is told that it did not;       *)
(* "crash":  the worker process dies.                                        *)
FaultKinds == {"raise", "escape", "ack", "crash"}

ASSUME IncidentAssumption == NoIncident \notin Incident
ASSUME FaultAssumption == Resubmits \in BOOLEAN /\ Faults \subseteq FaultKinds

VARIABLES
    pc,          \* process_failure: control state of each task
    incident,    \* process_failure: context.incident_id
    status,      \* pipelines.status per incident, "absent" if there is no row
    proposal,    \* pipelines.proposal_json: "none", "valid", "invalid"
    validation,  \* pipelines.validation_json: "none", "passed", "failed"
    linked,      \* pipelines.approval_id is set
    pr,          \* pipelines.pr_number is set
    decision,    \* approvals.status per incident (the latch)
    dispatched,  \* resume tasks started per incident (the latch)
    carded,      \* the Slack card with its two buttons is visible
    rpc,         \* resume_approval: control state of the incident's task
    mutations,   \* calls of create_pull_request made for the incident
    prOpen       \* GitHub has a pull request for the incident

rowVars == <<status, proposal, validation, linked, pr>>
latchVars == <<decision, dispatched>>
githubVars == <<mutations, prOpen>>
vars == <<pc, incident, rowVars, latchVars, carded, rpc, githubVars>>

Latch == INSTANCE DecisionLatch WITH Approval <- Incident

Final == {"completed", "failed", "rejected"}
Statuses == {"absent", "received", "diagnosing", "proposing", "validating",
             "awaiting_approval", "mutating"} \cup Final

\* Stages of process_failure inside its try block, in program order.
TryStages == {"setDiagnosing", "diagnose", "haltFailed", "setProposing", "propose",
              "haltInvalid", "setValidating", "validate", "haltUnvalidated",
              "requestApproval", "postCard", "setAwaiting"}
OwnerStages == TryStages \cup {"setFailed"}
Running == OwnerStages \cup {"fetch", "check", "create"}
Stopped == {"done", "raised", "dead"}
ResumeRunning == {"read", "setMutating", "setRejected", "mutate",
                  "setCompleted", "setFailed"}

TypeOK ==
    /\ pc \in [Task -> Running \cup Stopped \cup {"idle", "ignored"}]
    /\ incident \in [Task -> Incident \cup {NoIncident}]
    /\ status \in [Incident -> Statuses]
    /\ proposal \in [Incident -> {"none", "valid", "invalid"}]
    /\ validation \in [Incident -> {"none", "passed", "failed"}]
    /\ linked \in [Incident -> BOOLEAN]
    /\ pr \in [Incident -> BOOLEAN]
    /\ Latch!LatchTypeOK
    /\ carded \in [Incident -> BOOLEAN]
    /\ rpc \in [Incident -> ResumeRunning \cup Stopped \cup {"none"}]
    /\ mutations \in [Incident -> Nat]
    /\ prOpen \in [Incident -> BOOLEAN]

Init ==
    /\ pc = [t \in Task |-> "idle"]
    /\ incident = [t \in Task |-> NoIncident]
    /\ status = [i \in Incident |-> "absent"]
    /\ proposal = [i \in Incident |-> "none"]
    /\ validation = [i \in Incident |-> "none"]
    /\ linked = [i \in Incident |-> FALSE]
    /\ pr = [i \in Incident |-> FALSE]
    /\ Latch!LatchInit
    /\ carded = [i \in Incident |-> FALSE]
    /\ rpc = [i \in Incident |-> "none"]
    /\ mutations = [i \in Incident |-> 0]
    /\ prOpen = [i \in Incident |-> FALSE]

-----------------------------------------------------------------------------
(* Control helpers.                                                          *)
Goto(t, stage) == pc' = [pc EXCEPT ![t] = stage]

(* After a committed write: the next stage, or, when the acknowledgement is  *)
(* lost, the place where the exception lands.                                *)
Continue(t, stage, handler) ==
    \/ Goto(t, stage)
    \/ "ack" \in Faults /\ Goto(t, handler)

ResumeGoto(i, stage) == rpc' = [rpc EXCEPT ![i] = stage]

ResumeContinue(i, stage, handler) ==
    \/ ResumeGoto(i, stage)
    \/ "ack" \in Faults /\ ResumeGoto(i, handler)

(* update_pipeline_state writes the status unconditionally.                  *)
SetStatus(i, new) == status' = [status EXCEPT ![i] = new]

outsideRow == <<incident, latchVars, carded, rpc, githubVars>>

-----------------------------------------------------------------------------
(* The webhook route.                                                        *)

(* A delivery that is not a failed workflow_run is acknowledged and dropped. *)
IgnoreDelivery(t) ==
    /\ pc[t] = "idle"
    /\ Goto(t, "ignored")
    /\ UNCHANGED <<incident, rowVars, latchVars, carded, rpc, githubVars>>

(* An actionable delivery gets an incident id nobody has, whatever run it is *)
(* about; the handler then awaits the logs from GitHub.                      *)
AcceptDelivery(t) ==
    /\ pc[t] = "idle"
    /\ \E i \in Incident :
        /\ \A u \in Task : incident[u] # i
        /\ incident' = [incident EXCEPT ![t] = i]
    /\ Goto(t, "fetch")
    /\ UNCHANGED <<rowVars, latchVars, carded, rpc, githubVars>>

(* Logs or no logs, process_failure is scheduled.                            *)
ScheduleProcessing(t) ==
    /\ pc[t] = "fetch"
    /\ Goto(t, "check")
    /\ UNCHANGED <<incident, rowVars, latchVars, carded, rpc, githubVars>>

(* process_failure called again with a context it was given before.          *)
Resubmit(t) ==
    /\ Resubmits
    /\ pc[t] = "idle"
    /\ \E u \in Task :
        /\ incident[u] # NoIncident
        /\ incident' = [incident EXCEPT ![t] = incident[u]]
    /\ Goto(t, "check")
    /\ UNCHANGED <<rowVars, latchVars, carded, rpc, githubVars>>

-----------------------------------------------------------------------------
(* process_failure, one action per await.                                    *)

(* get_by_incident_id: an existing pipeline is returned as it is.            *)
CheckExisting(t) ==
    /\ pc[t] = "check"
    /\ Goto(t, IF status[incident[t]] = "absent" THEN "create" ELSE "done")
    /\ UNCHANGED <<incident, rowVars, latchVars, carded, rpc, githubVars>>

(* Fault: no unique constraint on incident_id.                               *)
CreateAnyway(t) ==
    /\ pc[t] = "create"
    /\ SetStatus(incident[t], "received")
    /\ Continue(t, "setDiagnosing", "raised")
    /\ UNCHANGED <<proposal, validation, linked, pr, outsideRow>>

CreatePipeline(t) ==
    /\ pc[t] = "create"
    /\ status[incident[t]] = "absent"
    /\ SetStatus(incident[t], "received")
    /\ Continue(t, "setDiagnosing", "raised")
    /\ UNCHANGED <<proposal, validation, linked, pr, outsideRow>>

(* The INSERT lost to another task: unique violation on incident_id.         *)
CreateCollides(t) ==
    /\ pc[t] = "create"
    /\ status[incident[t]] # "absent"
    /\ Goto(t, "raised")
    /\ UNCHANGED <<incident, rowVars, latchVars, carded, rpc, githubVars>>

SetDiagnosing(t) ==
    /\ pc[t] = "setDiagnosing"
    /\ SetStatus(incident[t], "diagnosing")
    /\ Continue(t, "diagnose", "setFailed")
    /\ UNCHANGED <<proposal, validation, linked, pr, outsideRow>>

(* Not fixable, or no code evidence at the failing commit: halt.             *)
Diagnose(t) ==
    /\ pc[t] = "diagnose"
    /\ \E next \in {"haltFailed", "setProposing"} : Goto(t, next)
    /\ UNCHANGED <<incident, rowVars, latchVars, carded, rpc, githubVars>>

HaltFailed(t) ==
    /\ pc[t] = "haltFailed"
    /\ SetStatus(incident[t], "failed")
    /\ Continue(t, "done", "setFailed")
    /\ UNCHANGED <<proposal, validation, linked, pr, outsideRow>>

SetProposing(t) ==
    /\ pc[t] = "setProposing"
    /\ SetStatus(incident[t], "proposing")
    /\ Continue(t, "propose", "setFailed")
    /\ UNCHANGED <<proposal, validation, linked, pr, outsideRow>>

Propose(t) ==
    /\ pc[t] = "propose"
    /\ \E next \in {"haltInvalid", "setValidating"} : Goto(t, next)
    /\ UNCHANGED <<incident, rowVars, latchVars, carded, rpc, githubVars>>

HaltInvalid(t) ==
    /\ pc[t] = "haltInvalid"
    /\ SetStatus(incident[t], "rejected")
    /\ proposal' = [proposal EXCEPT ![incident[t]] = "invalid"]
    /\ Continue(t, "done", "setFailed")
    /\ UNCHANGED <<validation, linked, pr, outsideRow>>

SetValidating(t) ==
    /\ pc[t] = "setValidating"
    /\ SetStatus(incident[t], "validating")
    /\ proposal' = [proposal EXCEPT ![incident[t]] = "valid"]
    /\ Continue(t, "validate", "setFailed")
    /\ UNCHANGED <<validation, linked, pr, outsideRow>>

Validate(t) ==
    /\ pc[t] = "validate"
    /\ \E next \in {"haltUnvalidated", "requestApproval"} : Goto(t, next)
    /\ UNCHANGED <<incident, rowVars, latchVars, carded, rpc, githubVars>>

HaltUnvalidated(t) ==
    /\ pc[t] = "haltUnvalidated"
    /\ SetStatus(incident[t], "failed")
    /\ proposal' = [proposal EXCEPT ![incident[t]] = "valid"]
    /\ validation' = [validation EXCEPT ![incident[t]] = "failed"]
    /\ Continue(t, "done", "setFailed")
    /\ UNCHANGED <<linked, pr, outsideRow>>

(* request_approval: the approval row is committed first ...                 *)
RequestApproval(t) ==
    /\ pc[t] = "requestApproval"
    /\ Latch!Request(incident[t])
    /\ Continue(t, "postCard", "setFailed")
    /\ UNCHANGED <<incident, rowVars, carded, rpc, githubVars>>

(* ... then the card is posted, at best.                                     *)
PostCard(t) ==
    /\ pc[t] = "postCard"
    /\ \E shown \in BOOLEAN : carded' = [carded EXCEPT ![incident[t]] = shown]
    /\ Goto(t, "setAwaiting")
    /\ UNCHANGED <<incident, rowVars, latchVars, rpc, githubVars>>

(* Fault: the validation result is left out of the update.                   *)
SetAwaitingUnvalidated(t) ==
    /\ pc[t] = "setAwaiting"
    /\ SetStatus(incident[t], "awaiting_approval")
    /\ proposal' = [proposal EXCEPT ![incident[t]] = "valid"]
    /\ linked' = [linked EXCEPT ![incident[t]] = TRUE]
    /\ Continue(t, "done", "setFailed")
    /\ UNCHANGED <<validation, pr, outsideRow>>

(* Only now does the pipeline row name the approval and hold the validation. *)
SetAwaiting(t) ==
    /\ pc[t] = "setAwaiting"
    /\ SetStatus(incident[t], "awaiting_approval")
    /\ proposal' = [proposal EXCEPT ![incident[t]] = "valid"]
    /\ validation' = [validation EXCEPT ![incident[t]] = "passed"]
    /\ linked' = [linked EXCEPT ![incident[t]] = TRUE]
    /\ Continue(t, "done", "setFailed")
    /\ UNCHANGED <<pr, outsideRow>>

(* Fault: no except branch.                                                  *)
StageRaisesUncaught(t) ==
    /\ "raise" \in Faults
    /\ pc[t] \in TryStages
    /\ Goto(t, "raised")
    /\ UNCHANGED <<incident, rowVars, latchVars, carded, rpc, githubVars>>

(* except Exception: whatever a stage raises fails the pipeline.             *)
StageRaises(t) ==
    /\ "raise" \in Faults
    /\ pc[t] \in TryStages
    /\ Goto(t, "setFailed")
    /\ UNCHANGED <<incident, rowVars, latchVars, carded, rpc, githubVars>>

SetFailed(t) ==
    /\ pc[t] = "setFailed"
    /\ SetStatus(incident[t], "failed")
    /\ Continue(t, "done", "raised")
    /\ UNCHANGED <<proposal, validation, linked, pr, outsideRow>>

(* What is raised outside the try block ends in _safe_process_failure.       *)
Escape(t) ==
    /\ "escape" \in Faults
    /\ pc[t] \in {"check", "create", "setFailed"}
    /\ Goto(t, "raised")
    /\ UNCHANGED <<incident, rowVars, latchVars, carded, rpc, githubVars>>

Crash(t) ==
    /\ "crash" \in Faults
    /\ pc[t] \in Running
    /\ Goto(t, "dead")
    /\ UNCHANGED <<incident, rowVars, latchVars, carded, rpc, githubVars>>

-----------------------------------------------------------------------------
(* The human and the Slack route, as the latch allows them.  A decision needs *)
(* a card to click on; a late click is what expires a request.               *)
Decide(i) ==
    /\ carded[i]
    /\ \E v \in Latch!Verdict : Latch!Decide(i, v)
    /\ UNCHANGED <<pc, incident, rowVars, carded, rpc, githubVars>>

(* Fault: any callback that finds the request approved starts a resume task. *)
DispatchAgain(i) ==
    /\ decision[i] = "approved"
    /\ rpc[i] \notin ResumeRunning
    /\ ResumeGoto(i, "read")
    /\ UNCHANGED <<pc, incident, rowVars, latchVars, carded, githubVars>>

(* The winning callback of an approval starts the resume task.               *)
DispatchResume(i) ==
    /\ Latch!Dispatch(i)
    /\ ResumeGoto(i, "read")
    /\ UNCHANGED <<pc, incident, rowVars, carded, githubVars>>

-----------------------------------------------------------------------------
(* resume_approval, one action per await.                                    *)

(* The durable objects deserialise and pass the invariants of step 4.        *)
Evidence(i) == proposal[i] = "valid" /\ validation[i] = "passed"

(* Fault: the durable evidence is not looked at.                             *)
ResumeVerdictUnchecked(i) ==
    IF status[i] \in {"completed", "mutating"} THEN "done"
    ELSE IF decision[i] = "rejected" THEN "setRejected"
    ELSE IF decision[i] = "approved" THEN "setMutating"
    ELSE "raised"

(* What the handler concludes from the rows it reads.                        *)
ResumeVerdict(i) ==
    IF status[i] \in {"completed", "mutating"} THEN "done"
    ELSE IF decision[i] = "rejected" THEN "setRejected"
    ELSE IF decision[i] = "approved" /\ Evidence(i) THEN "setMutating"
    ELSE "raised"

ResumeRead(i) ==
    /\ rpc[i] = "read"
    /\ ResumeGoto(i, ResumeVerdict(i))
    /\ UNCHANGED <<pc, incident, rowVars, latchVars, carded, githubVars>>

(* Fault: the never-written status "approved" is written.                    *)
ResumeMarkApproved(i) ==
    /\ rpc[i] \in {"setMutating", "setRejected"}
    /\ SetStatus(i, IF rpc[i] = "setMutating" THEN "approved" ELSE "rejected")
    /\ ResumeContinue(i, IF rpc[i] = "setMutating" THEN "mutate" ELSE "done", "raised")
    /\ UNCHANGED <<pc, incident, proposal, validation, linked, pr, latchVars, carded,
                   githubVars>>

ResumeMark(i) ==
    /\ rpc[i] \in {"setMutating", "setRejected"}
    /\ SetStatus(i, IF rpc[i] = "setMutating" THEN "mutating" ELSE "rejected")
    /\ ResumeContinue(i, IF rpc[i] = "setMutating" THEN "mutate" ELSE "done", "raised")
    /\ UNCHANGED <<pc, incident, proposal, validation, linked, pr, latchVars, carded,
                   githubVars>>

(* Fault: a record without a pull request counts as success.                 *)
MutateOptimistic(i) ==
    /\ rpc[i] = "mutate"
    /\ mutations' = [mutations EXCEPT ![i] = @ + 1]
    /\ \E opened \in {prOpen[i], TRUE} : prOpen' = [prOpen EXCEPT ![i] = opened]
    /\ ResumeGoto(i, "setCompleted")
    /\ UNCHANGED <<pc, incident, rowVars, latchVars, carded>>

(* create_pull_request: a record comes back only for an open pull request;   *)
(* an error may come back before or after one was opened.                    *)
Mutate(i) ==
    /\ rpc[i] = "mutate"
    /\ mutations' = [mutations EXCEPT ![i] = @ + 1]
    /\ \/ /\ prOpen' = [prOpen EXCEPT ![i] = TRUE]
          /\ ResumeGoto(i, "setCompleted")
       \/ /\ \E opened \in {prOpen[i], TRUE} : prOpen' = [prOpen EXCEPT ![i] = opened]
          /\ ResumeGoto(i, "setFailed")
    /\ UNCHANGED <<pc, incident, rowVars, latchVars, carded>>

SetCompleted(i) ==
    /\ rpc[i] = "setCompleted"
    /\ SetStatus(i, "completed")
    /\ pr' = [pr EXCEPT ![i] = TRUE]
    /\ ResumeContinue(i, "done", "setFailed")
    /\ UNCHANGED <<pc, incident, proposal, validation, linked, latchVars, carded, githubVars>>

(* The update to completed raises inside the try block.                      *)
CompletionRaises(i) ==
    /\ "raise" \in Faults
    /\ rpc[i] = "setCompleted"
    /\ ResumeGoto(i, "setFailed")
    /\ UNCHANGED <<pc, incident, rowVars, latchVars, carded, githubVars>>

ResumeSetFailed(i) ==
    /\ rpc[i] = "setFailed"
    /\ SetStatus(i, "failed")
    /\ ResumeContinue(i, "done", "raised")
    /\ UNCHANGED <<pc, incident, proposal, validation, linked, pr, latchVars, carded,
                   githubVars>>

ResumeEscape(i) ==
    /\ "escape" \in Faults
    /\ rpc[i] \in {"read", "setMutating", "setRejected", "setFailed"}
    /\ ResumeGoto(i, "raised")
    /\ UNCHANGED <<pc, incident, rowVars, latchVars, carded, githubVars>>

ResumeCrash(i) ==
    /\ "crash" \in Faults
    /\ rpc[i] \in ResumeRunning
    /\ ResumeGoto(i, "dead")
    /\ UNCHANGED <<pc, incident, rowVars, latchVars, carded, githubVars>>

-----------------------------------------------------------------------------
Process(t) ==
    \/ ScheduleProcessing(t) \/ CheckExisting(t) \/ CreatePipeline(t) \/ CreateCollides(t)
    \/ SetDiagnosing(t) \/ Diagnose(t) \/ HaltFailed(t)
    \/ SetProposing(t) \/ Propose(t) \/ HaltInvalid(t)
    \/ SetValidating(t) \/ Validate(t) \/ HaltUnvalidated(t)
    \/ RequestApproval(t) \/ PostCard(t) \/ SetAwaiting(t) \/ SetFailed(t)

Resume(i) ==
    \/ ResumeRead(i) \/ ResumeMark(i) \/ Mutate(i) \/ SetCompleted(i) \/ ResumeSetFailed(i)

Next ==
    \/ \E t \in Task :
        \/ IgnoreDelivery(t) \/ AcceptDelivery(t) \/ Resubmit(t)
        \/ Process(t) \/ StageRaises(t) \/ Escape(t) \/ Crash(t)
    \/ \E i \in Incident :
        \/ Decide(i) \/ DispatchResume(i)
        \/ Resume(i) \/ CompletionRaises(i) \/ ResumeEscape(i) \/ ResumeCrash(i)

Spec == Init /\ [][Next]_vars

(* The event loop runs every task it holds; a callback that won its approval *)
(* dispatches.  Nobody has to deliver a webhook, click, or fail.             *)
FairSpec ==
    /\ Spec
    /\ \A t \in Task : WF_vars(Process(t))
    /\ \A i \in Incident : WF_vars(DispatchResume(i)) /\ WF_vars(Resume(i))

-----------------------------------------------------------------------------
(* No pull request without a recorded human approval of a valid proposal     *)
(* whose sandbox validation passed, both still in the database (README,      *)
(* "zero autonomous mutation"; resume_approval steps 2-4).                   *)
PrIsAuthorised ==
    \A i \in Incident :
        prOpen[i] => decision[i] = "approved" /\ Evidence(i)

(* create_pull_request is called at most once per incident, however often    *)
(* the failure is submitted or the buttons are clicked.                      *)
MutatedOnce == \A i \in Incident : mutations[i] <= 1

(* A pipeline reported completed has its pull request, on GitHub and in the  *)
(* row; a recorded number is never that of a request that was not opened.    *)
CompletedHasPr ==
    \A i \in Incident :
        /\ status[i] = "completed" => pr[i]
        /\ pr[i] => prOpen[i]

(* A row that waits for a human, or is past it, holds all that               *)
(* resume_approval will ask of it, so a click in that state cannot be        *)
(* refused for missing evidence.                                             *)
WaitingIsResumable ==
    \A i \in Incident :
        /\ status[i] \in {"awaiting_approval", "mutating", "completed"} =>
              Evidence(i) /\ linked[i] /\ decision[i] # "absent"
        /\ status[i] \in {"mutating", "completed"} => decision[i] = "approved"

(* At most one task drives the pipeline of an incident: the check and the    *)
(* INSERT are two awaits, and the unique constraint settles the race.        *)
OneOwner ==
    \A t, u \in Task :
        pc[t] \in OwnerStages /\ pc[u] \in OwnerStages /\ incident[t] = incident[u]
            => t = u

\* Order of the statuses; the three final ones are last.
Rank(s) ==
    CASE s = "absent" -> 0
      [] s = "received" -> 1
      [] s = "diagnosing" -> 2
      [] s = "proposing" -> 3
      [] s = "validating" -> 4
      [] s = "awaiting_approval" -> 5
      [] s = "mutating" -> 6
      [] s \in Final -> 7

Advances(i) == status'[i] = status[i] \/ Rank(status'[i]) > Rank(status[i])

(* The status of a pipeline only moves forward and a final one is kept,      *)
(* although every update writes it unconditionally and two tasks write it:   *)
(* a resume task cannot be overtaken by the stage that created its approval, *)
(* as long as a commit that is reported failed did fail.                     *)
StatusAdvances == [][\A i \in Incident : Advances(i)]_vars

(* A stored pipeline reaches a human or a final status, whatever its stages  *)
(* raise, if recording the failure succeeds and the process survives.        *)
PipelineSettles ==
    \A i \in Incident :
        status[i] # "absent" ~> status[i] \in Final \cup {"awaiting_approval"}

(* A resume task that finds the pipeline waiting finishes it.                *)
WaitingResumeFinishes ==
    \A i \in Incident :
        rpc[i] = "read" /\ status[i] = "awaiting_approval"
            ~> status[i] \in {"completed", "failed"}

(* Phase plan, phase 8: the human decision resumes the pipeline.             *)
ApprovalResumes ==
    \A i \in Incident : decision[i] = "approved" ~> status[i] \in Final

(* What the pipelines table shows of the abstract pipeline.                  *)
StageOf(s) ==
    CASE s = "absent" -> "none"
      [] s \in {"received", "diagnosing", "proposing", "validating"} -> "working"
      [] s = "awaiting_approval" -> "waiting"
      [] s = "mutating" -> "fixing"
      [] s = "completed" -> "fixed"
      [] s \in {"failed", "rejected"} -> "stopped"

StageMap == [i \in Incident |-> StageOf(status[i])]
ApprovedSet == {i \in Incident : decision[i] = "approved"}

Abstract == INSTANCE Remediation
                WITH stage <- StageMap, approved <- ApprovedSet, pull <- prOpen

(* Three coroutines and GitHub together are one such pipeline per incident,  *)
(* as long as a commit that is reported failed did fail.                     *)
ImplementsRemediation == Abstract!RemediationSpec
=============================================================================
