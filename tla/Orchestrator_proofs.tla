------------------------ MODULE Orchestrator_proofs ------------------------
(***************************************************************************)
(* Proofs about Orchestrator, for any number of submissions, incidents and *)
(* workflow runs and every combination of faults.                          *)
(*                                                                         *)
(* The safety properties compare the pipeline row with the approval and    *)
(* with GitHub, which three coroutines write at different times.  The      *)
(* inductive invariant adds who may still write: a passed validation on    *)
(* record means that process_failure is over for the incident (Recorded),  *)
(* and what resume_approval has read stays true while it acts on it        *)
(* (Resuming).                                                             *)
(***************************************************************************)
EXTENDS Orchestrator, TLAPS

(* A task that has started has an incident; one that drives a pipeline has   *)
(* stored it; the card comes after the approval row.                         *)
Driving(t) ==
    /\ pc[t] \in Running => incident[t] \in Incident
    /\ pc[t] \in OwnerStages => status[incident[t]] # "absent"
    /\ pc[t] \in {"postCard", "setAwaiting"} => decision[incident[t]] # "absent"

(* The passed validation is the last thing process_failure writes about an   *)
(* incident, but for the failure that a lost acknowledgement reports.        *)
Recorded(i) ==
    validation[i] = "passed" =>
        /\ proposal[i] = "valid"
        /\ linked[i]
        /\ decision[i] # "absent"
        /\ status[i] # "absent"
        /\ \A t \in Task : pc[t] \in OwnerStages /\ incident[t] = i => pc[t] = "setFailed"

Waiting(i) ==
    /\ status[i] \in {"awaiting_approval", "mutating", "completed"} => validation[i] = "passed"
    /\ status[i] \in {"mutating", "completed"} => decision[i] = "approved"
    /\ status[i] = "completed" => pr[i]

Resuming(i) ==
    /\ rpc[i] = "none" <=> dispatched[i] = 0
    /\ dispatched[i] = 1 => decision[i] = "approved"
    /\ rpc[i] # "setRejected"
    /\ rpc[i] \in {"setMutating", "mutate", "setCompleted", "setFailed"} =>
          validation[i] = "passed"

Mutating(i) ==
    /\ rpc[i] \in {"none", "read", "setMutating", "mutate"} => mutations[i] = 0
    /\ mutations[i] \in {0, 1}
    /\ rpc[i] = "setCompleted" => prOpen[i]
    /\ prOpen[i] => decision[i] = "approved" /\ validation[i] = "passed"
    /\ pr[i] => prOpen[i]

PipelineInv ==
    /\ TypeOK
    /\ \A t \in Task : Driving(t)
    /\ OneOwner
    /\ \A i \in Incident : Recorded(i) /\ Waiting(i) /\ Resuming(i) /\ Mutating(i)

(* The actions by what they change: nothing but control, the pipeline's      *)
(* status, the approval, the resume task.                                    *)
ControlStep(t) ==
    \/ IgnoreDelivery(t) \/ AcceptDelivery(t) \/ ScheduleProcessing(t)
    \/ Resubmit(t) \/ CheckExisting(t) \/ CreateCollides(t) \/ Diagnose(t)
    \/ Propose(t) \/ Validate(t) \/ StageRaises(t) \/ Escape(t) \/ Crash(t)

AdvanceStep(t) ==
    \/ SetDiagnosing(t) \/ SetProposing(t) \/ SetValidating(t)

HaltStep(t) ==
    \/ HaltFailed(t) \/ HaltInvalid(t) \/ HaltUnvalidated(t) \/ SetFailed(t)

AskHumanStep(t) ==
    \/ RequestApproval(t) \/ PostCard(t)

HumanStep(i) ==
    \/ Decide(i) \/ DispatchResume(i)

CommenceStep(i) ==
    \/ ResumeRead(i) \/ ResumeMark(i)

FinishStep(i) ==
    \/ Mutate(i) \/ SetCompleted(i) \/ CompletionRaises(i)

EndStep(i) ==
    \/ ResumeSetFailed(i) \/ ResumeEscape(i) \/ ResumeCrash(i)

LEMMA NextByEffect ==
    Next <=>
      \/ \E t \in Task :
            \/ ControlStep(t) \/ CreatePipeline(t) \/ AdvanceStep(t)
            \/ HaltStep(t) \/ AskHumanStep(t) \/ SetAwaiting(t)
      \/ \E i \in Incident :
            \/ HumanStep(i) \/ CommenceStep(i) \/ FinishStep(i) \/ EndStep(i)
  BY DEF Next, Process, Resume, ControlStep, AdvanceStep, HaltStep, AskHumanStep,
      HumanStep, CommenceStep, FinishStep, EndStep

-----------------------------------------------------------------------------
LEMMA InitPipelineInv == Init => PipelineInv
  BY IncidentAssumption
  DEF Init, PipelineInv, TypeOK, Latch!LatchTypeOK, Latch!LatchInit, Latch!Verdict,
      Driving, OneOwner, Recorded, Waiting, Resuming, Mutating, Statuses, Final,
      TryStages, OwnerStages, Running, Stopped, ResumeRunning

(* Types.                                                                    *)
LEMMA TypeStep ==
    ASSUME PipelineInv, [Next]_vars
    PROVE  TypeOK'
<1> USE IncidentAssumption
        DEF PipelineInv, Driving, Mutating, TypeOK,
            Latch!LatchTypeOK, Latch!Verdict, Statuses, Final, Stopped, Running,
            ResumeRunning, SetStatus, TryStages, OwnerStages, Goto, Continue,
            ResumeGoto, ResumeContinue
<1>1. CASE UNCHANGED vars
  BY <1>1 DEF vars, rowVars, latchVars, githubVars
<1>2. ASSUME NEW u \in Task, ControlStep(u) PROVE TypeOK'
  BY <1>2 DEF ControlStep, IgnoreDelivery, AcceptDelivery, ScheduleProcessing,
      Resubmit, CheckExisting, CreateCollides, Diagnose, Propose, Validate,
      StageRaises, Escape, Crash, rowVars, latchVars, githubVars
<1>3. ASSUME NEW u \in Task, CreatePipeline(u) PROVE TypeOK'
  BY <1>3 DEF CreatePipeline, outsideRow, latchVars, githubVars
<1>4. ASSUME NEW u \in Task, AdvanceStep(u) PROVE TypeOK'
  BY <1>4 DEF AdvanceStep, SetDiagnosing, SetProposing, SetValidating, outsideRow,
      latchVars, githubVars
<1>5. ASSUME NEW u \in Task, HaltStep(u) PROVE TypeOK'
  BY <1>5 DEF HaltStep, HaltFailed, HaltInvalid, HaltUnvalidated, SetFailed,
      outsideRow, latchVars, githubVars
<1>6. ASSUME NEW u \in Task, AskHumanStep(u) PROVE TypeOK'
  BY <1>6 DEF AskHumanStep, RequestApproval, PostCard, Latch!Request, rowVars,
      latchVars, githubVars
<1>7. ASSUME NEW u \in Task, SetAwaiting(u) PROVE TypeOK'
  BY <1>7 DEF SetAwaiting, outsideRow, latchVars, githubVars
<1>8. ASSUME NEW j \in Incident, HumanStep(j) PROVE TypeOK'
  BY <1>8 DEF HumanStep, Decide, DispatchResume, Latch!Decide, Latch!Dispatch,
      Latch!Verdict, rowVars, githubVars
<1>9. ASSUME NEW j \in Incident, CommenceStep(j) PROVE TypeOK'
  BY <1>9 DEF CommenceStep, ResumeRead, ResumeMark, ResumeVerdict, Evidence,
      rowVars, latchVars, githubVars
<1>10. ASSUME NEW j \in Incident, FinishStep(j) PROVE TypeOK'
  <2>1. CASE Mutate(j)
    <3>1. prOpen' \in [Incident -> BOOLEAN]
      BY <2>1 DEF Mutate
    <3>2. mutations' \in [Incident -> Nat]
      BY <2>1 DEF Mutate
    <3>3. rpc' \in [Incident -> ResumeRunning \cup Stopped \cup {"none"}]
      BY <2>1 DEF Mutate
    <3> QED
      BY <2>1, <3>1, <3>2, <3>3 DEF Mutate, rowVars, latchVars
  <2>2. CASE SetCompleted(j)
    <3>1. pr' \in [Incident -> BOOLEAN] /\ status' \in [Incident -> Statuses]
      BY <2>2 DEF SetCompleted
    <3>2. rpc' \in [Incident -> ResumeRunning \cup Stopped \cup {"none"}]
      BY <2>2 DEF SetCompleted
    <3> QED
      BY <2>2, <3>1, <3>2 DEF SetCompleted, latchVars, githubVars
  <2>3. CASE CompletionRaises(j)
    BY <2>3 DEF CompletionRaises, rowVars, latchVars, githubVars
  <2> QED
    BY <1>10, <2>1, <2>2, <2>3 DEF FinishStep
<1>11. ASSUME NEW j \in Incident, EndStep(j) PROVE TypeOK'
  BY <1>11 DEF EndStep, ResumeSetFailed, ResumeEscape, ResumeCrash, rowVars,
      latchVars, githubVars
<1> QED
  BY <1>1, <1>2, <1>3, <1>4, <1>5, <1>6, <1>7, <1>8, <1>9, <1>10, <1>11,
    NextByEffect

(* A stage is entered with what it relies on; rows and approvals stay.       *)
LEMMA DrivingStep ==
    ASSUME PipelineInv, [Next]_vars, NEW t \in Task
    PROVE  Driving(t)'
<1> USE IncidentAssumption
        DEF PipelineInv, Driving, TypeOK,
            Latch!LatchTypeOK, Latch!Verdict, Running, Final, SetStatus,
            TryStages, OwnerStages, Goto, Continue, ResumeGoto, ResumeContinue
<1>1. CASE UNCHANGED vars
  BY <1>1 DEF vars, rowVars, latchVars, githubVars
<1>2. ASSUME NEW u \in Task, ControlStep(u) PROVE Driving(t)'
  BY <1>2 DEF ControlStep, IgnoreDelivery, AcceptDelivery, ScheduleProcessing,
      Resubmit, CheckExisting, CreateCollides, Diagnose, Propose, Validate,
      StageRaises, Escape, Crash, rowVars, latchVars, githubVars
<1>3. ASSUME NEW u \in Task, CreatePipeline(u) PROVE Driving(t)'
  BY <1>3 DEF CreatePipeline, outsideRow, latchVars, githubVars
<1>4. ASSUME NEW u \in Task, AdvanceStep(u) PROVE Driving(t)'
  BY <1>4 DEF AdvanceStep, SetDiagnosing, SetProposing, SetValidating, outsideRow,
      latchVars, githubVars
<1>5. ASSUME NEW u \in Task, HaltStep(u) PROVE Driving(t)'
  BY <1>5 DEF HaltStep, HaltFailed, HaltInvalid, HaltUnvalidated, SetFailed,
      outsideRow, latchVars, githubVars
<1>6. ASSUME NEW u \in Task, AskHumanStep(u) PROVE Driving(t)'
  BY <1>6 DEF AskHumanStep, RequestApproval, PostCard, Latch!Request, rowVars,
      latchVars, githubVars
<1>7. ASSUME NEW u \in Task, SetAwaiting(u) PROVE Driving(t)'
  BY <1>7 DEF SetAwaiting, outsideRow, latchVars, githubVars
<1>8. ASSUME NEW j \in Incident, HumanStep(j) PROVE Driving(t)'
  BY <1>8 DEF HumanStep, Decide, DispatchResume, Latch!Decide, Latch!Dispatch,
      Latch!Verdict, rowVars, githubVars
<1>9. ASSUME NEW j \in Incident, CommenceStep(j) PROVE Driving(t)'
  BY <1>9 DEF CommenceStep, ResumeRead, ResumeMark, ResumeVerdict, Evidence,
      rowVars, latchVars, githubVars
<1>10. ASSUME NEW j \in Incident, FinishStep(j) PROVE Driving(t)'
  BY <1>10 DEF FinishStep, Mutate, SetCompleted, CompletionRaises, rowVars,
      latchVars, githubVars
<1>11. ASSUME NEW j \in Incident, EndStep(j) PROVE Driving(t)'
  BY <1>11 DEF EndStep, ResumeSetFailed, ResumeEscape, ResumeCrash, rowVars,
      latchVars, githubVars
<1> QED
  BY <1>1, <1>2, <1>3, <1>4, <1>5, <1>6, <1>7, <1>8, <1>9, <1>10, <1>11,
    NextByEffect

(* Only CreatePipeline makes an owner, of a pipeline that did not exist.     *)
LEMMA OwnerStep ==
    ASSUME PipelineInv, [Next]_vars
    PROVE  OneOwner'
<1> USE IncidentAssumption
        DEF PipelineInv, Driving, OneOwner, TypeOK,
            TryStages, OwnerStages, Goto, Continue
<1>1. CASE UNCHANGED vars
  BY <1>1 DEF vars, rowVars, latchVars, githubVars
<1>2. ASSUME NEW u \in Task, ControlStep(u) PROVE OneOwner'
  BY <1>2 DEF ControlStep, IgnoreDelivery, AcceptDelivery, ScheduleProcessing,
      Resubmit, CheckExisting, CreateCollides, Diagnose, Propose, Validate,
      StageRaises, Escape, Crash, rowVars, latchVars, githubVars
<1>3. ASSUME NEW u \in Task, CreatePipeline(u) PROVE OneOwner'
  BY <1>3 DEF CreatePipeline, outsideRow, latchVars, githubVars
<1>4. ASSUME NEW u \in Task, AdvanceStep(u) PROVE OneOwner'
  BY <1>4 DEF AdvanceStep, SetDiagnosing, SetProposing, SetValidating, outsideRow,
      latchVars, githubVars
<1>5. ASSUME NEW u \in Task, HaltStep(u) PROVE OneOwner'
  BY <1>5 DEF HaltStep, HaltFailed, HaltInvalid, HaltUnvalidated, SetFailed,
      outsideRow, latchVars, githubVars
<1>6. ASSUME NEW u \in Task, AskHumanStep(u) PROVE OneOwner'
  BY <1>6 DEF AskHumanStep, RequestApproval, PostCard, Latch!Request, rowVars,
      latchVars, githubVars
<1>7. ASSUME NEW u \in Task, SetAwaiting(u) PROVE OneOwner'
  BY <1>7 DEF SetAwaiting, outsideRow, latchVars, githubVars
<1>8. ASSUME NEW j \in Incident, HumanStep(j) PROVE OneOwner'
  BY <1>8 DEF HumanStep, Decide, DispatchResume, Latch!Decide, Latch!Dispatch,
      Latch!Verdict, rowVars, githubVars
<1>9. ASSUME NEW j \in Incident, CommenceStep(j) PROVE OneOwner'
  BY <1>9 DEF CommenceStep, ResumeRead, ResumeMark, ResumeVerdict, Evidence,
      rowVars, latchVars, githubVars
<1>10. ASSUME NEW j \in Incident, FinishStep(j) PROVE OneOwner'
  BY <1>10 DEF FinishStep, Mutate, SetCompleted, CompletionRaises, rowVars,
      latchVars, githubVars
<1>11. ASSUME NEW j \in Incident, EndStep(j) PROVE OneOwner'
  BY <1>11 DEF EndStep, ResumeSetFailed, ResumeEscape, ResumeCrash, rowVars,
      latchVars, githubVars
<1> QED
  BY <1>1, <1>2, <1>3, <1>4, <1>5, <1>6, <1>7, <1>8, <1>9, <1>10, <1>11,
    NextByEffect

(* A passed validation is never overwritten: its writer was the owner.       *)
LEMMA RecordedStep ==
    ASSUME PipelineInv, [Next]_vars, NEW i \in Incident
    PROVE  Recorded(i)'
<1> USE IncidentAssumption
        DEF PipelineInv, Driving, OneOwner, Recorded,
            TypeOK, Latch!LatchTypeOK, Latch!Verdict, SetStatus, TryStages,
            OwnerStages, Goto, Continue
<1>1. CASE UNCHANGED vars
  BY <1>1 DEF vars, rowVars, latchVars, githubVars
<1>2. ASSUME NEW u \in Task, ControlStep(u) PROVE Recorded(i)'
  BY <1>2 DEF ControlStep, IgnoreDelivery, AcceptDelivery, ScheduleProcessing,
      Resubmit, CheckExisting, CreateCollides, Diagnose, Propose, Validate,
      StageRaises, Escape, Crash, rowVars, latchVars, githubVars
<1>3. ASSUME NEW u \in Task, CreatePipeline(u) PROVE Recorded(i)'
  BY <1>3 DEF CreatePipeline, outsideRow, latchVars, githubVars
<1>4. ASSUME NEW u \in Task, AdvanceStep(u) PROVE Recorded(i)'
  BY <1>4 DEF AdvanceStep, SetDiagnosing, SetProposing, SetValidating, outsideRow,
      latchVars, githubVars
<1>5. ASSUME NEW u \in Task, HaltStep(u) PROVE Recorded(i)'
  BY <1>5 DEF HaltStep, HaltFailed, HaltInvalid, HaltUnvalidated, SetFailed,
      outsideRow, latchVars, githubVars
<1>6. ASSUME NEW u \in Task, AskHumanStep(u) PROVE Recorded(i)'
  BY <1>6 DEF AskHumanStep, RequestApproval, PostCard, Latch!Request, rowVars,
      latchVars, githubVars
<1>7. ASSUME NEW u \in Task, SetAwaiting(u) PROVE Recorded(i)'
  BY <1>7 DEF SetAwaiting, outsideRow, latchVars, githubVars
<1>8. ASSUME NEW j \in Incident, HumanStep(j) PROVE Recorded(i)'
  BY <1>8 DEF HumanStep, Decide, DispatchResume, Latch!Decide, Latch!Dispatch,
      Latch!Verdict, rowVars, githubVars
<1>9. ASSUME NEW j \in Incident, CommenceStep(j) PROVE Recorded(i)'
  BY <1>9 DEF CommenceStep, ResumeRead, ResumeMark, ResumeVerdict, Evidence,
      rowVars, latchVars, githubVars
<1>10. ASSUME NEW j \in Incident, FinishStep(j) PROVE Recorded(i)'
  BY <1>10 DEF FinishStep, Mutate, SetCompleted, CompletionRaises, rowVars,
      latchVars, githubVars
<1>11. ASSUME NEW j \in Incident, EndStep(j) PROVE Recorded(i)'
  BY <1>11 DEF EndStep, ResumeSetFailed, ResumeEscape, ResumeCrash, rowVars,
      latchVars, githubVars
<1> QED
  BY <1>1, <1>2, <1>3, <1>4, <1>5, <1>6, <1>7, <1>8, <1>9, <1>10, <1>11,
    NextByEffect

(* The row keeps what a waiting or later status says about it.               *)
LEMMA WaitingStep ==
    ASSUME PipelineInv, [Next]_vars, NEW i \in Incident
    PROVE  Waiting(i)'
<1> USE IncidentAssumption
        DEF PipelineInv, Driving, Recorded, Waiting,
            Resuming, TypeOK, Latch!LatchTypeOK, Latch!Verdict, SetStatus,
            TryStages, OwnerStages, Goto, Continue
<1>1. CASE UNCHANGED vars
  BY <1>1 DEF vars, rowVars, latchVars, githubVars
<1>2. ASSUME NEW u \in Task, ControlStep(u) PROVE Waiting(i)'
  BY <1>2 DEF ControlStep, IgnoreDelivery, AcceptDelivery, ScheduleProcessing,
      Resubmit, CheckExisting, CreateCollides, Diagnose, Propose, Validate,
      StageRaises, Escape, Crash, rowVars, latchVars, githubVars
<1>3. ASSUME NEW u \in Task, CreatePipeline(u) PROVE Waiting(i)'
  BY <1>3 DEF CreatePipeline, outsideRow, latchVars, githubVars
<1>4. ASSUME NEW u \in Task, AdvanceStep(u) PROVE Waiting(i)'
  BY <1>4 DEF AdvanceStep, SetDiagnosing, SetProposing, SetValidating, outsideRow,
      latchVars, githubVars
<1>5. ASSUME NEW u \in Task, HaltStep(u) PROVE Waiting(i)'
  BY <1>5 DEF HaltStep, HaltFailed, HaltInvalid, HaltUnvalidated, SetFailed,
      outsideRow, latchVars, githubVars
<1>6. ASSUME NEW u \in Task, AskHumanStep(u) PROVE Waiting(i)'
  BY <1>6 DEF AskHumanStep, RequestApproval, PostCard, Latch!Request, rowVars,
      latchVars, githubVars
<1>7. ASSUME NEW u \in Task, SetAwaiting(u) PROVE Waiting(i)'
  BY <1>7 DEF SetAwaiting, outsideRow, latchVars, githubVars
<1>8. ASSUME NEW j \in Incident, HumanStep(j) PROVE Waiting(i)'
  BY <1>8 DEF HumanStep, Decide, DispatchResume, Latch!Decide, Latch!Dispatch,
      Latch!Verdict, rowVars, githubVars
<1>9. ASSUME NEW j \in Incident, CommenceStep(j) PROVE Waiting(i)'
  BY <1>9 DEF CommenceStep, ResumeRead, ResumeMark, ResumeVerdict, Evidence,
      rowVars, latchVars, githubVars
<1>10. ASSUME NEW j \in Incident, FinishStep(j) PROVE Waiting(i)'
  BY <1>10 DEF FinishStep, Mutate, SetCompleted, CompletionRaises, rowVars,
      latchVars, githubVars
<1>11. ASSUME NEW j \in Incident, EndStep(j) PROVE Waiting(i)'
  BY <1>11 DEF EndStep, ResumeSetFailed, ResumeEscape, ResumeCrash, rowVars,
      latchVars, githubVars
<1> QED
  BY <1>1, <1>2, <1>3, <1>4, <1>5, <1>6, <1>7, <1>8, <1>9, <1>10, <1>11,
    NextByEffect

(* What the resume task read stays true.                                     *)
LEMMA ResumingStep ==
    ASSUME PipelineInv, [Next]_vars, NEW i \in Incident
    PROVE  Resuming(i)'
<1> USE IncidentAssumption
        DEF PipelineInv, Driving, Recorded, Resuming,
            ResumeRunning, TypeOK, Latch!LatchTypeOK, Latch!Verdict, TryStages,
            OwnerStages, Goto, Continue, ResumeGoto, ResumeContinue
<1>1. CASE UNCHANGED vars
  BY <1>1 DEF vars, rowVars, latchVars, githubVars
<1>2. ASSUME NEW u \in Task, ControlStep(u) PROVE Resuming(i)'
  BY <1>2 DEF ControlStep, IgnoreDelivery, AcceptDelivery, ScheduleProcessing,
      Resubmit, CheckExisting, CreateCollides, Diagnose, Propose, Validate,
      StageRaises, Escape, Crash, rowVars, latchVars, githubVars
<1>3. ASSUME NEW u \in Task, CreatePipeline(u) PROVE Resuming(i)'
  BY <1>3 DEF CreatePipeline, outsideRow, latchVars, githubVars
<1>4. ASSUME NEW u \in Task, AdvanceStep(u) PROVE Resuming(i)'
  BY <1>4 DEF AdvanceStep, SetDiagnosing, SetProposing, SetValidating, outsideRow,
      latchVars, githubVars
<1>5. ASSUME NEW u \in Task, HaltStep(u) PROVE Resuming(i)'
  BY <1>5 DEF HaltStep, HaltFailed, HaltInvalid, HaltUnvalidated, SetFailed,
      outsideRow, latchVars, githubVars
<1>6. ASSUME NEW u \in Task, AskHumanStep(u) PROVE Resuming(i)'
  BY <1>6 DEF AskHumanStep, RequestApproval, PostCard, Latch!Request, rowVars,
      latchVars, githubVars
<1>7. ASSUME NEW u \in Task, SetAwaiting(u) PROVE Resuming(i)'
  BY <1>7 DEF SetAwaiting, outsideRow, latchVars, githubVars
<1>8. ASSUME NEW j \in Incident, HumanStep(j) PROVE Resuming(i)'
  BY <1>8 DEF HumanStep, Decide, DispatchResume, Latch!Decide, Latch!Dispatch,
      Latch!Verdict, rowVars, githubVars
<1>9. ASSUME NEW j \in Incident, CommenceStep(j) PROVE Resuming(i)'
  BY <1>9 DEF CommenceStep, ResumeRead, ResumeMark, ResumeVerdict, Evidence,
      rowVars, latchVars, githubVars
<1>10. ASSUME NEW j \in Incident, FinishStep(j) PROVE Resuming(i)'
  BY <1>10 DEF FinishStep, Mutate, SetCompleted, CompletionRaises, rowVars,
      latchVars, githubVars
<1>11. ASSUME NEW j \in Incident, EndStep(j) PROVE Resuming(i)'
  BY <1>11 DEF EndStep, ResumeSetFailed, ResumeEscape, ResumeCrash, rowVars,
      latchVars, githubVars
<1> QED
  BY <1>1, <1>2, <1>3, <1>4, <1>5, <1>6, <1>7, <1>8, <1>9, <1>10, <1>11,
    NextByEffect

(* One mutation, and its pull request before the record of it.               *)
LEMMA MutatingStep ==
    ASSUME PipelineInv, [Next]_vars, NEW i \in Incident
    PROVE  Mutating(i)'
<1> USE IncidentAssumption
        DEF PipelineInv, Driving, Recorded, Resuming,
            Mutating, TypeOK, Latch!LatchTypeOK, Latch!Verdict, TryStages,
            OwnerStages, Goto, Continue, ResumeGoto, ResumeContinue
<1>1. CASE UNCHANGED vars
  BY <1>1 DEF vars, rowVars, latchVars, githubVars
<1>2. ASSUME NEW u \in Task, ControlStep(u) PROVE Mutating(i)'
  BY <1>2 DEF ControlStep, IgnoreDelivery, AcceptDelivery, ScheduleProcessing,
      Resubmit, CheckExisting, CreateCollides, Diagnose, Propose, Validate,
      StageRaises, Escape, Crash, rowVars, latchVars, githubVars
<1>3. ASSUME NEW u \in Task, CreatePipeline(u) PROVE Mutating(i)'
  BY <1>3 DEF CreatePipeline, outsideRow, latchVars, githubVars
<1>4. ASSUME NEW u \in Task, AdvanceStep(u) PROVE Mutating(i)'
  BY <1>4 DEF AdvanceStep, SetDiagnosing, SetProposing, SetValidating, outsideRow,
      latchVars, githubVars
<1>5. ASSUME NEW u \in Task, HaltStep(u) PROVE Mutating(i)'
  BY <1>5 DEF HaltStep, HaltFailed, HaltInvalid, HaltUnvalidated, SetFailed,
      outsideRow, latchVars, githubVars
<1>6. ASSUME NEW u \in Task, AskHumanStep(u) PROVE Mutating(i)'
  BY <1>6 DEF AskHumanStep, RequestApproval, PostCard, Latch!Request, rowVars,
      latchVars, githubVars
<1>7. ASSUME NEW u \in Task, SetAwaiting(u) PROVE Mutating(i)'
  BY <1>7 DEF SetAwaiting, outsideRow, latchVars, githubVars
<1>8. ASSUME NEW j \in Incident, HumanStep(j) PROVE Mutating(i)'
  BY <1>8 DEF HumanStep, Decide, DispatchResume, Latch!Decide, Latch!Dispatch,
      Latch!Verdict, rowVars, githubVars
<1>9. ASSUME NEW j \in Incident, CommenceStep(j) PROVE Mutating(i)'
  BY <1>9 DEF CommenceStep, ResumeRead, ResumeMark, ResumeVerdict, Evidence,
      rowVars, latchVars, githubVars
<1>10. ASSUME NEW j \in Incident, FinishStep(j) PROVE Mutating(i)'
  BY <1>10 DEF FinishStep, Mutate, SetCompleted, CompletionRaises, rowVars,
      latchVars, githubVars
<1>11. ASSUME NEW j \in Incident, EndStep(j) PROVE Mutating(i)'
  BY <1>11 DEF EndStep, ResumeSetFailed, ResumeEscape, ResumeCrash, rowVars,
      latchVars, githubVars
<1> QED
  BY <1>1, <1>2, <1>3, <1>4, <1>5, <1>6, <1>7, <1>8, <1>9, <1>10, <1>11,
    NextByEffect

LEMMA PipelineStep == PipelineInv /\ [Next]_vars => PipelineInv'
  BY TypeStep, DrivingStep, OwnerStep, RecordedStep, WaitingStep, ResumingStep,
     MutatingStep
  DEF PipelineInv

LEMMA PipelineInvariant == Spec => []PipelineInv
  BY InitPipelineInv, PipelineStep, PTL DEF Spec

-----------------------------------------------------------------------------
(* Every variable of the pipeline keeps its type.                            *)
THEOREM PipelineTyped == Spec => []TypeOK
<1>1. PipelineInv => TypeOK
  BY DEF PipelineInv
<1> QED
  BY <1>1, PipelineInvariant, PTL

(* Whatever is submitted, clicked, raised, lost or killed, a pull request    *)
(* has a recorded approval of a proposal that passed its validation.         *)
THEOREM PipelineAuthorised == Spec => []PrIsAuthorised
<1>1. PipelineInv => PrIsAuthorised
  BY DEF PipelineInv, PrIsAuthorised, Mutating, Recorded, Evidence
<1> QED
  BY <1>1, PipelineInvariant, PTL

(* create_pull_request is called at most once for an incident.               *)
THEOREM PipelineMutatesOnce == Spec => []MutatedOnce
<1>1. PipelineInv => MutatedOnce
  BY DEF PipelineInv, MutatedOnce, Mutating
<1> QED
  BY <1>1, PipelineInvariant, PTL

(* A completed pipeline has its pull request, in the row and on GitHub.      *)
THEOREM PipelineCompletedHasPr == Spec => []CompletedHasPr
<1>1. PipelineInv => CompletedHasPr
  BY DEF PipelineInv, CompletedHasPr, Mutating, Waiting
<1> QED
  BY <1>1, PipelineInvariant, PTL

(* A pipeline that waits for a human, or is past it, holds all the evidence  *)
(* resume_approval asks for.                                                 *)
THEOREM PipelineWaitingIsResumable == Spec => []WaitingIsResumable
<1>1. PipelineInv => WaitingIsResumable
  BY DEF PipelineInv, WaitingIsResumable, Waiting, Recorded, Evidence
<1> QED
  BY <1>1, PipelineInvariant, PTL

(* Of any number of submissions of one failure, one drives its pipeline.     *)
THEOREM PipelineOneOwner == Spec => []OneOwner
<1>1. PipelineInv => OneOwner
  BY DEF PipelineInv
<1> QED
  BY <1>1, PipelineInvariant, PTL

-----------------------------------------------------------------------------
(* The order of the statuses, when a commit reported failed did fail: the    *)
(* stage of the owner says where the pipeline is ...                         *)
Paced(t) ==
    LET s == status[incident[t]]
    IN  /\ pc[t] = "setDiagnosing" => s = "received"
        /\ pc[t] \in {"diagnose", "haltFailed", "setProposing"} => s = "diagnosing"
        /\ pc[t] \in {"propose", "haltInvalid", "setValidating"} => s = "proposing"
        /\ pc[t] \in {"validate", "haltUnvalidated", "requestApproval", "postCard",
                      "setAwaiting"} => s = "validating"
        /\ pc[t] = "setFailed" => s \in {"received", "diagnosing", "proposing", "validating"}

(* ... and once the validation is recorded, the resume task does.            *)
HandedOver(i) ==
    /\ validation[i] = "passed" =>
          /\ \A t \in Task : incident[t] = i => pc[t] \notin OwnerStages
          /\ rpc[i] \in {"none", "read", "setMutating"} => status[i] = "awaiting_approval"
    /\ rpc[i] \in {"mutate", "setCompleted", "setFailed"} => status[i] = "mutating"

(* Nobody is asked about a pipeline that is not stored.                      *)
Asked(i) == decision[i] # "absent" => status[i] # "absent"

OrderInv ==
    /\ \A t \in Task : Paced(t)
    /\ \A i \in Incident : HandedOver(i) /\ Asked(i)

LEMMA InitOrderInv == Init => OrderInv
  BY DEF Init, Latch!LatchInit, OrderInv, Paced, HandedOver, Asked, OwnerStages, TryStages

(* The status of an owned pipeline is changed by its owner only.             *)
LEMMA PacedStep ==
    ASSUME PipelineInv, OrderInv, "ack" \notin Faults, [Next]_vars, NEW t \in Task
    PROVE  Paced(t)'
<1> USE IncidentAssumption
        DEF PipelineInv, Driving, OneOwner, OrderInv,
            Paced, HandedOver, Resuming, TypeOK, Running, SetStatus, TryStages,
            OwnerStages, Goto, Continue
<1>1. CASE UNCHANGED vars
  BY <1>1 DEF vars, rowVars, latchVars, githubVars
<1>2. ASSUME NEW u \in Task, ControlStep(u) PROVE Paced(t)'
  BY <1>2 DEF ControlStep, IgnoreDelivery, AcceptDelivery, ScheduleProcessing,
      Resubmit, CheckExisting, CreateCollides, Diagnose, Propose, Validate,
      StageRaises, Escape, Crash, rowVars, latchVars, githubVars
<1>3. ASSUME NEW u \in Task, CreatePipeline(u) PROVE Paced(t)'
  BY <1>3 DEF CreatePipeline, outsideRow, latchVars, githubVars
<1>4. ASSUME NEW u \in Task, AdvanceStep(u) PROVE Paced(t)'
  BY <1>4 DEF AdvanceStep, SetDiagnosing, SetProposing, SetValidating, outsideRow,
      latchVars, githubVars
<1>5. ASSUME NEW u \in Task, HaltStep(u) PROVE Paced(t)'
  BY <1>5 DEF HaltStep, HaltFailed, HaltInvalid, HaltUnvalidated, SetFailed,
      outsideRow, latchVars, githubVars
<1>6. ASSUME NEW u \in Task, AskHumanStep(u) PROVE Paced(t)'
  BY <1>6 DEF AskHumanStep, RequestApproval, PostCard, Latch!Request, rowVars,
      latchVars, githubVars
<1>7. ASSUME NEW u \in Task, SetAwaiting(u) PROVE Paced(t)'
  BY <1>7 DEF SetAwaiting, outsideRow, latchVars, githubVars
<1>8. ASSUME NEW j \in Incident, HumanStep(j) PROVE Paced(t)'
  BY <1>8 DEF HumanStep, Decide, DispatchResume, Latch!Decide, Latch!Dispatch,
      Latch!Verdict, rowVars, githubVars
<1>9. ASSUME NEW j \in Incident, CommenceStep(j) PROVE Paced(t)'
  BY <1>9 DEF CommenceStep, ResumeRead, ResumeMark, ResumeVerdict, Evidence,
      rowVars, latchVars, githubVars
<1>10. ASSUME NEW j \in Incident, FinishStep(j) PROVE Paced(t)'
  BY <1>10 DEF FinishStep, Mutate, SetCompleted, CompletionRaises, rowVars,
      latchVars, githubVars
<1>11. ASSUME NEW j \in Incident, EndStep(j) PROVE Paced(t)'
  BY <1>11 DEF EndStep, ResumeSetFailed, ResumeEscape, ResumeCrash, rowVars,
      latchVars, githubVars
<1> QED
  BY <1>1, <1>2, <1>3, <1>4, <1>5, <1>6, <1>7, <1>8, <1>9, <1>10, <1>11,
    NextByEffect

(* That of one whose validation is recorded, by its resume task only.        *)
LEMMA HandedOverStep ==
    ASSUME PipelineInv, OrderInv, "ack" \notin Faults, [Next]_vars, NEW i \in Incident
    PROVE  HandedOver(i)'
<1> USE IncidentAssumption
        DEF PipelineInv, Driving, OneOwner, OrderInv,
            Paced, HandedOver, Resuming, Recorded, TypeOK, Latch!LatchTypeOK,
            Latch!Verdict, SetStatus, TryStages, OwnerStages, Goto, Continue,
            ResumeGoto, ResumeContinue
<1>1. CASE UNCHANGED vars
  BY <1>1 DEF vars, rowVars, latchVars, githubVars
<1>2. ASSUME NEW u \in Task, ControlStep(u) PROVE HandedOver(i)'
  BY <1>2 DEF ControlStep, IgnoreDelivery, AcceptDelivery, ScheduleProcessing,
      Resubmit, CheckExisting, CreateCollides, Diagnose, Propose, Validate,
      StageRaises, Escape, Crash, rowVars, latchVars, githubVars
<1>3. ASSUME NEW u \in Task, CreatePipeline(u) PROVE HandedOver(i)'
  BY <1>3 DEF CreatePipeline, outsideRow, latchVars, githubVars
<1>4. ASSUME NEW u \in Task, AdvanceStep(u) PROVE HandedOver(i)'
  BY <1>4 DEF AdvanceStep, SetDiagnosing, SetProposing, SetValidating, outsideRow,
      latchVars, githubVars
<1>5. ASSUME NEW u \in Task, HaltStep(u) PROVE HandedOver(i)'
  BY <1>5 DEF HaltStep, HaltFailed, HaltInvalid, HaltUnvalidated, SetFailed,
      outsideRow, latchVars, githubVars
<1>6. ASSUME NEW u \in Task, AskHumanStep(u) PROVE HandedOver(i)'
  BY <1>6 DEF AskHumanStep, RequestApproval, PostCard, Latch!Request, rowVars,
      latchVars, githubVars
<1>7. ASSUME NEW u \in Task, SetAwaiting(u) PROVE HandedOver(i)'
  BY <1>7 DEF SetAwaiting, outsideRow, latchVars, githubVars
<1>8. ASSUME NEW j \in Incident, HumanStep(j) PROVE HandedOver(i)'
  BY <1>8 DEF HumanStep, Decide, DispatchResume, Latch!Decide, Latch!Dispatch,
      Latch!Verdict, rowVars, githubVars
<1>9. ASSUME NEW j \in Incident, CommenceStep(j) PROVE HandedOver(i)'
  BY <1>9 DEF CommenceStep, ResumeRead, ResumeMark, ResumeVerdict, Evidence,
      rowVars, latchVars, githubVars
<1>10. ASSUME NEW j \in Incident, FinishStep(j) PROVE HandedOver(i)'
  BY <1>10 DEF FinishStep, Mutate, SetCompleted, CompletionRaises, rowVars,
      latchVars, githubVars
<1>11. ASSUME NEW j \in Incident, EndStep(j) PROVE HandedOver(i)'
  BY <1>11 DEF EndStep, ResumeSetFailed, ResumeEscape, ResumeCrash, rowVars,
      latchVars, githubVars
<1> QED
  BY <1>1, <1>2, <1>3, <1>4, <1>5, <1>6, <1>7, <1>8, <1>9, <1>10, <1>11,
    NextByEffect

(* A row, once stored, is never deleted.                                     *)
LEMMA AskedStep ==
    ASSUME PipelineInv, OrderInv, [Next]_vars, NEW i \in Incident
    PROVE  Asked(i)'
<1> USE IncidentAssumption
        DEF PipelineInv, Driving, OrderInv, Asked, TypeOK, Running, SetStatus,
            TryStages, OwnerStages
<1>1. CASE UNCHANGED vars
  BY <1>1 DEF vars, rowVars, latchVars, githubVars
<1>2. ASSUME NEW u \in Task, ControlStep(u) PROVE Asked(i)'
  BY <1>2 DEF ControlStep, IgnoreDelivery, AcceptDelivery, ScheduleProcessing,
      Resubmit, CheckExisting, CreateCollides, Diagnose, Propose, Validate,
      StageRaises, Escape, Crash, rowVars, latchVars, githubVars
<1>3. ASSUME NEW u \in Task,
             CreatePipeline(u) \/ AdvanceStep(u) \/ HaltStep(u) \/ SetAwaiting(u)
      PROVE  Asked(i)'
  BY <1>3 DEF CreatePipeline, AdvanceStep, SetDiagnosing, SetProposing, SetValidating,
      HaltStep, HaltFailed, HaltInvalid, HaltUnvalidated, SetFailed, SetAwaiting,
      outsideRow, latchVars
<1>4. ASSUME NEW u \in Task, AskHumanStep(u) PROVE Asked(i)'
  BY <1>4 DEF AskHumanStep, RequestApproval, PostCard, Latch!Request, Latch!LatchTypeOK,
      rowVars, latchVars
<1>5. ASSUME NEW j \in Incident, HumanStep(j) PROVE Asked(i)'
  BY <1>5 DEF HumanStep, Decide, DispatchResume, Latch!Decide, Latch!Dispatch,
      Latch!Verdict, Latch!LatchTypeOK, rowVars
<1>6. ASSUME NEW j \in Incident, CommenceStep(j) \/ FinishStep(j) \/ EndStep(j)
      PROVE  Asked(i)'
  BY <1>6 DEF CommenceStep, ResumeRead, ResumeMark, FinishStep, Mutate, SetCompleted,
      CompletionRaises, EndStep, ResumeSetFailed, ResumeEscape, ResumeCrash, rowVars,
      latchVars
<1> QED
  BY <1>1, <1>2, <1>3, <1>4, <1>5, <1>6, NextByEffect

LEMMA OrderInvariant ==
    ASSUME "ack" \notin Faults PROVE Spec => []OrderInv
<1>1. PipelineInv /\ OrderInv /\ [Next]_vars => OrderInv'
  BY PacedStep, HandedOverStep, AskedStep DEF OrderInv
<1> QED
  BY <1>1, InitOrderInv, PipelineInvariant, PTL DEF Spec

(* Every write goes up in rank.                                              *)
LEMMA AdvanceOnly ==
    ASSUME PipelineInv, OrderInv, "ack" \notin Faults, [Next]_vars, NEW i \in Incident
    PROVE  Advances(i)
<1> USE IncidentAssumption
        DEF Advances, PipelineInv, Driving, OrderInv,
            Paced, HandedOver, Resuming, TypeOK, SetStatus, Rank, Final,
            OwnerStages, TryStages
<1>1. CASE UNCHANGED vars
  BY <1>1 DEF vars, rowVars, latchVars, githubVars
<1>2. ASSUME NEW u \in Task, ControlStep(u) PROVE Advances(i)
  BY <1>2 DEF ControlStep, IgnoreDelivery, AcceptDelivery, ScheduleProcessing,
      Resubmit, CheckExisting, CreateCollides, Diagnose, Propose, Validate,
      StageRaises, Escape, Crash, rowVars, latchVars, githubVars
<1>3. ASSUME NEW u \in Task, CreatePipeline(u) PROVE Advances(i)
  BY <1>3 DEF CreatePipeline, outsideRow, latchVars, githubVars
<1>4. ASSUME NEW u \in Task, AdvanceStep(u) PROVE Advances(i)
  BY <1>4 DEF AdvanceStep, SetDiagnosing, SetProposing, SetValidating, outsideRow,
      latchVars, githubVars
<1>5. ASSUME NEW u \in Task, HaltStep(u) PROVE Advances(i)
  BY <1>5 DEF HaltStep, HaltFailed, HaltInvalid, HaltUnvalidated, SetFailed,
      outsideRow, latchVars, githubVars
<1>6. ASSUME NEW u \in Task, AskHumanStep(u) PROVE Advances(i)
  BY <1>6 DEF AskHumanStep, RequestApproval, PostCard, Latch!Request, rowVars,
      latchVars, githubVars
<1>7. ASSUME NEW u \in Task, SetAwaiting(u) PROVE Advances(i)
  BY <1>7 DEF SetAwaiting, outsideRow, latchVars, githubVars
<1>8. ASSUME NEW j \in Incident, HumanStep(j) PROVE Advances(i)
  BY <1>8 DEF HumanStep, Decide, DispatchResume, Latch!Decide, Latch!Dispatch,
      Latch!Verdict, rowVars, githubVars
<1>9. ASSUME NEW j \in Incident, CommenceStep(j) PROVE Advances(i)
  BY <1>9 DEF CommenceStep, ResumeRead, ResumeMark, ResumeVerdict, Evidence,
      rowVars, latchVars, githubVars
<1>10. ASSUME NEW j \in Incident, FinishStep(j) PROVE Advances(i)
  BY <1>10 DEF FinishStep, Mutate, SetCompleted, CompletionRaises, rowVars,
      latchVars, githubVars
<1>11. ASSUME NEW j \in Incident, EndStep(j) PROVE Advances(i)
  BY <1>11 DEF EndStep, ResumeSetFailed, ResumeEscape, ResumeCrash, rowVars,
      latchVars, githubVars
<1> QED
  BY <1>1, <1>2, <1>3, <1>4, <1>5, <1>6, <1>7, <1>8, <1>9, <1>10, <1>11,
    NextByEffect

(* Although every update writes the status unconditionally and two tasks     *)
(* write it, it only moves forward, as long as no commit that is reported    *)
(* failed succeeded.                                                         *)
THEOREM PipelineAdvances ==
    ASSUME "ack" \notin Faults PROVE Spec => StatusAdvances
<1>1. PipelineInv /\ OrderInv /\ [Next]_vars =>
        [\A i \in Incident : Advances(i)]_vars
  BY AdvanceOnly
<1> QED
  BY <1>1, PipelineInvariant, OrderInvariant, PTL DEF Spec, StatusAdvances

-----------------------------------------------------------------------------
(* The refinement.  A write of the status is a move of the abstract stage.   *)
LEMMA StageMoves ==
    ASSUME TypeOK, NEW i \in Incident, NEW s \in Statuses, SetStatus(i, s)
    PROVE  StageMap' = [StageMap EXCEPT ![i] = StageOf(s)]
  BY DEF TypeOK, SetStatus, StageMap

LEMMA StageKeeps == status' = status => StageMap' = StageMap
  BY DEF StageMap

LEMMA ApprovedKeeps == decision' = decision => ApprovedSet' = ApprovedSet
  BY DEF ApprovedSet

(* Steps of process_failure.                                                 *)
LEMMA ProcessMaps ==
    ASSUME PipelineInv, OrderInv, "ack" \notin Faults, NEW u \in Task,
           \/ ControlStep(u) \/ CreatePipeline(u) \/ AdvanceStep(u)
           \/ HaltStep(u) \/ AskHumanStep(u) \/ SetAwaiting(u)
    PROVE  [Abstract!RemediationNext]_(Abstract!remediationVars)
<1> DEFINE i == incident[u]
<1> USE DEF PipelineInv, Driving, OrderInv, Paced, Abstract!remediationVars
<1>1. CASE ControlStep(u)
  BY <1>1, StageKeeps, ApprovedKeeps
  DEF ControlStep, IgnoreDelivery, AcceptDelivery, ScheduleProcessing, Resubmit,
      CheckExisting, CreateCollides, Diagnose, Propose, Validate, StageRaises, Escape,
      Crash, rowVars, latchVars, githubVars
<1>2. CASE CreatePipeline(u)
  <2>1. i \in Incident /\ SetStatus(i, "received") /\ status[i] = "absent"
    BY <1>2 DEF CreatePipeline, Running
  <2>2. StageMap' = [StageMap EXCEPT ![i] = "working"] /\ StageMap[i] = "none"
    BY <2>1, StageMoves DEF StageOf, Statuses, StageMap
  <2>3. UNCHANGED <<ApprovedSet, prOpen>>
    BY <1>2, ApprovedKeeps DEF CreatePipeline, outsideRow, latchVars, githubVars
  <2> QED
    BY <2>1, <2>2, <2>3 DEF Abstract!RemediationNext, Abstract!Begin, Abstract!Move
<1>3. CASE AdvanceStep(u)
  <2>1. /\ i \in Incident
        /\ status[i] \in {"received", "diagnosing", "proposing"}
        /\ \E s \in {"diagnosing", "proposing", "validating"} : SetStatus(i, s)
    BY <1>3
    DEF AdvanceStep, SetDiagnosing, SetProposing, SetValidating, Running, OwnerStages,
        TryStages
  <2>2. StageMap' = [StageMap EXCEPT ![i] = "working"] /\ StageMap[i] = "working"
    BY <2>1, StageMoves DEF StageOf, Statuses, StageMap
  <2>3. StageMap' = StageMap
    BY <2>1, <2>2 DEF StageMap
  <2>4. UNCHANGED <<ApprovedSet, prOpen>>
    BY <1>3, ApprovedKeeps
    DEF AdvanceStep, SetDiagnosing, SetProposing, SetValidating, outsideRow, latchVars,
        githubVars
  <2> QED
    BY <2>3, <2>4
<1>4. CASE HaltStep(u)
  <2>1. /\ i \in Incident
        /\ status[i] \in {"received", "diagnosing", "proposing", "validating"}
        /\ SetStatus(i, "failed") \/ SetStatus(i, "rejected")
    BY <1>4
    DEF HaltStep, HaltFailed, HaltInvalid, HaltUnvalidated, SetFailed, Running,
        OwnerStages, TryStages
  <2>2. StageMap' = [StageMap EXCEPT ![i] = "stopped"] /\ StageMap[i] = "working"
    BY <2>1, StageMoves DEF StageOf, Statuses, Final, StageMap
  <2>3. UNCHANGED <<ApprovedSet, prOpen>>
    BY <1>4, ApprovedKeeps
    DEF HaltStep, HaltFailed, HaltInvalid, HaltUnvalidated, SetFailed, outsideRow,
        latchVars, githubVars
  <2> QED
    BY <2>1, <2>2, <2>3 DEF Abstract!RemediationNext, Abstract!Stop, Abstract!Move
<1>5. CASE AskHumanStep(u)
  <2>1. UNCHANGED <<status, prOpen>>
    BY <1>5 DEF AskHumanStep, RequestApproval, PostCard, rowVars, githubVars
  <2>2. ApprovedSet' = ApprovedSet
    BY <1>5
    DEF AskHumanStep, RequestApproval, PostCard, Latch!Request, latchVars, ApprovedSet,
        TypeOK, Latch!LatchTypeOK, Running, OwnerStages, TryStages
  <2> QED
    BY <2>1, <2>2, StageKeeps
<1>6. CASE SetAwaiting(u)
  <2>1. i \in Incident /\ SetStatus(i, "awaiting_approval") /\ status[i] = "validating"
    BY <1>6 DEF SetAwaiting, Running, OwnerStages, TryStages
  <2>2. StageMap' = [StageMap EXCEPT ![i] = "waiting"] /\ StageMap[i] = "working"
    BY <2>1, StageMoves DEF StageOf, Statuses, StageMap
  <2>3. UNCHANGED <<ApprovedSet, prOpen>>
    BY <1>6, ApprovedKeeps DEF SetAwaiting, outsideRow, latchVars, githubVars
  <2> QED
    BY <2>1, <2>2, <2>3 DEF Abstract!RemediationNext, Abstract!Ask, Abstract!Move
<1> QED
  BY <1>1, <1>2, <1>3, <1>4, <1>5, <1>6

(* Steps of the human and of resume_approval.                                *)
LEMMA ResumeMaps ==
    ASSUME PipelineInv, OrderInv, "ack" \notin Faults, NEW i \in Incident,
           HumanStep(i) \/ CommenceStep(i) \/ FinishStep(i) \/ EndStep(i)
    PROVE  [Abstract!RemediationNext]_(Abstract!remediationVars)
<1> USE DEF PipelineInv, OrderInv, HandedOver, Resuming, Abstract!remediationVars
<1>1. CASE Decide(i)
  <2>1. UNCHANGED <<StageMap, prOpen>>
    BY <1>1, StageKeeps DEF Decide, rowVars, githubVars
  <2>2. /\ ApprovedSet' \in {ApprovedSet, ApprovedSet \cup {i}}
        /\ decision[i] # "absent"
    BY <1>1
    DEF Decide, Latch!Decide, Latch!Verdict, ApprovedSet, TypeOK, Latch!LatchTypeOK
  <2>3. CASE ApprovedSet' = ApprovedSet \cup {i} /\ ApprovedSet' # ApprovedSet
    <3>1. decision[i] = "pending"
      BY <1>1 DEF Decide, Latch!Decide
    <3>2. StageMap[i] \in {"working", "waiting", "stopped"}
      BY <3>1 DEF StageMap, StageOf, TypeOK, Statuses, Final, Waiting, Asked
    <3> QED
      BY <2>1, <2>3, <3>2 DEF Abstract!RemediationNext, Abstract!Approve
  <2> QED
    BY <2>1, <2>2, <2>3
<1>2. CASE DispatchResume(i) \/ ResumeRead(i) \/ CompletionRaises(i) \/ ResumeEscape(i)
           \/ ResumeCrash(i)
  <2>1. UNCHANGED <<status, prOpen, decision>>
    BY <1>2
    DEF DispatchResume, ResumeRead, CompletionRaises, ResumeEscape, ResumeCrash,
        Latch!Dispatch, rowVars, latchVars, githubVars
  <2> QED
    BY <2>1, StageKeeps, ApprovedKeeps
<1>3. CASE ResumeMark(i)
  <2>1. rpc[i] = "setMutating" /\ status[i] = "awaiting_approval" /\ i \in ApprovedSet
    BY <1>3 DEF ResumeMark, ApprovedSet, TypeOK, Latch!LatchTypeOK
  <2>2. StageMap' = [StageMap EXCEPT ![i] = "fixing"] /\ StageMap[i] = "waiting"
    BY <1>3, <2>1, StageMoves DEF ResumeMark, StageOf, Statuses, StageMap
  <2>3. UNCHANGED <<ApprovedSet, prOpen>>
    BY <1>3, ApprovedKeeps DEF ResumeMark, latchVars, githubVars
  <2> QED
    BY <2>1, <2>2, <2>3 DEF Abstract!RemediationNext, Abstract!Fix, Abstract!Move
<1>4. CASE Mutate(i)
  <2>1. StageMap[i] = "fixing"
    BY <1>4 DEF Mutate, StageMap, StageOf
  <2>2. UNCHANGED <<StageMap, ApprovedSet>>
    BY <1>4, StageKeeps, ApprovedKeeps DEF Mutate, rowVars, latchVars
  <2>3. prOpen' = prOpen \/ prOpen' = [prOpen EXCEPT ![i] = TRUE]
    BY <1>4 DEF Mutate, TypeOK
  <2> QED
    BY <2>1, <2>2, <2>3 DEF Abstract!RemediationNext, Abstract!OpenPull
<1>5. CASE SetCompleted(i)
  <2>1. status[i] = "mutating" /\ SetStatus(i, "completed") /\ prOpen[i]
    BY <1>5 DEF SetCompleted, Mutating
  <2>2. StageMap' = [StageMap EXCEPT ![i] = "fixed"] /\ StageMap[i] = "fixing"
    BY <2>1, StageMoves DEF StageOf, Statuses, Final, StageMap
  <2>3. UNCHANGED <<ApprovedSet, prOpen>>
    BY <1>5, ApprovedKeeps DEF SetCompleted, latchVars, githubVars
  <2> QED
    BY <2>1, <2>2, <2>3 DEF Abstract!RemediationNext, Abstract!Finish, Abstract!Move
<1>6. CASE ResumeSetFailed(i)
  <2>1. status[i] = "mutating" /\ SetStatus(i, "failed")
    BY <1>6 DEF ResumeSetFailed
  <2>2. StageMap' = [StageMap EXCEPT ![i] = "stopped"] /\ StageMap[i] = "fixing"
    BY <2>1, StageMoves DEF StageOf, Statuses, Final, StageMap
  <2>3. UNCHANGED <<ApprovedSet, prOpen>>
    BY <1>6, ApprovedKeeps DEF ResumeSetFailed, latchVars, githubVars
  <2> QED
    BY <2>1, <2>2, <2>3 DEF Abstract!RemediationNext, Abstract!Stop, Abstract!Move
<1> QED
  BY <1>1, <1>2, <1>3, <1>4, <1>5, <1>6
  DEF HumanStep, CommenceStep, FinishStep, EndStep

LEMMA InitMaps == Init => Abstract!RemediationInit
  BY DEF Init, Latch!LatchInit, Abstract!RemediationInit, StageMap, StageOf, ApprovedSet

(* process_failure, resume_approval, the Slack route and GitHub together are *)
(* one abstract pipeline per incident: GitHub is touched only after an       *)
(* approval and while the table says so, fixed means pull request, and what  *)
(* is over stays over, as long as no commit that is reported failed          *)
(* succeeded.                                                                *)
THEOREM PipelineImplements ==
    ASSUME "ack" \notin Faults PROVE Spec => ImplementsRemediation
<1>1. PipelineInv /\ OrderInv /\ [Next]_vars =>
        [Abstract!RemediationNext]_(Abstract!remediationVars)
  <2> SUFFICES ASSUME PipelineInv, OrderInv, [Next]_vars
               PROVE  [Abstract!RemediationNext]_(Abstract!remediationVars)
    OBVIOUS
  <2>1. CASE UNCHANGED vars
    BY <2>1, StageKeeps, ApprovedKeeps
    DEF vars, rowVars, latchVars, githubVars, Abstract!remediationVars
  <2>2. CASE Next
    BY <2>2, NextByEffect, ProcessMaps, ResumeMaps
  <2> QED
    BY <2>1, <2>2
<1> QED
  BY <1>1, InitMaps, PipelineInvariant, OrderInvariant, PTL
  DEF Spec, ImplementsRemediation, Abstract!RemediationSpec

(* The pipeline keeps to what the gate promises, under every fault: it stores *)
(* a request once, and the only other steps that touch a decision or start a *)
(* resume task are those the gate may take.  With GateImplementsLatch, all   *)
(* that is proved of the pipeline holds of the real callbacks.               *)
THEOREM PipelineKeepsToLatch == Spec => Latch!LatchSpec
<1>1. Init => Latch!LatchInit
  BY DEF Init
<1>2. PipelineInv /\ [Next]_vars => [Latch!LatchNext]_(Latch!latchVars)
  <2> SUFFICES ASSUME PipelineInv, [Next]_vars
               PROVE  [Latch!LatchNext]_(Latch!latchVars)
    OBVIOUS
  <2> USE DEF Latch!LatchNext, Latch!latchVars
  <2>1. CASE UNCHANGED vars
    BY <2>1 DEF vars, latchVars
  <2>2. ASSUME NEW t \in Task, RequestApproval(t)
        PROVE  [Latch!LatchNext]_(Latch!latchVars)
    <3>1. incident[t] \in Incident
      BY <2>2 DEF RequestApproval, PipelineInv, Driving, Running, OwnerStages, TryStages
    <3> QED
      BY <2>2, <3>1 DEF RequestApproval
  <2>3. ASSUME NEW i \in Incident, Decide(i) \/ DispatchResume(i)
        PROVE  [Latch!LatchNext]_(Latch!latchVars)
    BY <2>3 DEF Decide, DispatchResume
  <2>4. ASSUME NEW t \in Task, ControlStep(t) \/ PostCard(t)
        PROVE  [Latch!LatchNext]_(Latch!latchVars)
    BY <2>4
    DEF ControlStep, IgnoreDelivery, AcceptDelivery, ScheduleProcessing, Resubmit,
        CheckExisting, CreateCollides, Diagnose, Propose, Validate, StageRaises, Escape,
        Crash, PostCard, latchVars
  <2>5. ASSUME NEW t \in Task,
               CreatePipeline(t) \/ AdvanceStep(t) \/ HaltStep(t) \/ SetAwaiting(t)
        PROVE  [Latch!LatchNext]_(Latch!latchVars)
    BY <2>5
    DEF CreatePipeline, AdvanceStep, SetDiagnosing, SetProposing, SetValidating, HaltStep,
        HaltFailed, HaltInvalid, HaltUnvalidated, SetFailed, SetAwaiting, outsideRow,
        latchVars
  <2>6. ASSUME NEW i \in Incident, CommenceStep(i) \/ FinishStep(i) \/ EndStep(i)
        PROVE  [Latch!LatchNext]_(Latch!latchVars)
    BY <2>6
    DEF CommenceStep, FinishStep, EndStep, ResumeRead, ResumeMark, Mutate, SetCompleted,
        CompletionRaises, ResumeSetFailed, ResumeEscape, ResumeCrash, latchVars
  <2> QED
    BY <2>1, <2>2, <2>3, <2>4, <2>5, <2>6, NextByEffect DEF AskHumanStep, HumanStep
<1> QED
  BY <1>1, <1>2, PipelineInvariant, PTL DEF Spec, Latch!LatchSpec
=============================================================================
