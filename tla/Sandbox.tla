------------------------------ MODULE Sandbox ------------------------------
(***************************************************************************)
(* ValidationService.validate_fix and DockerSandboxRunner: a proposal is   *)
(* applied to a private copy of the checkout and tested in a container.    *)
(*                                                                         *)
(* Four parties move independently: the call (a coroutine), the docker     *)
(* client it starts as a child process, the container, and the daemon that *)
(* owns the container.  The call waits for the client only, and kills the  *)
(* client only.                                                            *)
(*                                                                         *)
(* Abstractions.  A workspace is what a test run can tell apart: the bare  *)
(* directory, part of a copy, the source, the source with the whole patch, *)
(* and what a failed removal has kept of any of them.                      *)
(* Which tree the source directory holds is the subject of SharedCheckout. *)
(* Whether the patch applies and the command succeeds is open.             *)
(***************************************************************************)
EXTENDS Naturals

CONSTANTS Call,        \* calls of validate_fix
          MaxOutages   \* bound: how often the daemon stops

ASSUME OutageAssumption == MaxOutages \in Nat

VARIABLES
    pc,        \* control state of each call
    proposal,  \* status of the FixProposal it was given
    given,     \* the caller passes a repo_root (the pre-push validation does)
    tree,      \* the workspace, "absent" if there is no directory
    raised,    \* the exception on its way out of run_validation
    outcome,   \* ValidationExecutionResult: exit code or timed_out
    result,    \* status of the ValidationResult
    client,    \* the docker client process
    box,       \* the container
    ran,       \* the workspace the container was started on
    daemon,    \* the docker daemon answers
    outages

callVars == <<proposal, given>>
hostVars == <<tree, raised, outcome, result>>
dockerVars == <<client, box, ran>>
daemonVars == <<daemon, outages>>
vars == <<pc, callVars, hostVars, dockerVars, daemonVars>>

ValidationStatus == {"passed", "failed", "timed_out", "patch_rejected", "unsupported",
                     "infrastructure_error"}
FailureCategory == {"lint", "dependency", "test", "build", "unknown"}

\* The stages in which the call has a workspace.
Prepared == {"copy", "patch", "probe", "launch", "wait", "sweep"}
Active == Prepared \cup {"gate", "checkout", "workspace", "judge"}
Trees == {"absent", "empty", "torn", "base", "patched", "kept"}

TypeOK ==
    /\ pc \in [Call -> Active \cup {"idle", "done", "lost"}]
    /\ proposal \in [Call -> {"proposed", "rejected", "ineligible"}]
    /\ given \in [Call -> BOOLEAN]
    /\ tree \in [Call -> Trees]
    /\ raised \in [Call -> {"none", "workspace", "patch", "docker", "other"}]
    /\ outcome \in [Call -> {"none", "zero", "nonzero", "timeout"}]
    /\ result \in [Call -> ValidationStatus \cup {"none"}]
    /\ client \in [Call -> {"none", "running", "zero", "nonzero", "error", "killed"}]
    /\ box \in [Call -> {"none", "running", "zero", "nonzero"}]
    /\ ran \in [Call -> Trees]
    /\ daemon \in BOOLEAN
    /\ outages \in 0..MaxOutages

Init ==
    /\ pc = [c \in Call |-> "idle"]
    /\ proposal \in [Call -> {"proposed", "rejected", "ineligible"}]
    /\ given \in [Call -> BOOLEAN]
    /\ tree = [c \in Call |-> "absent"]
    /\ raised = [c \in Call |-> "none"]
    /\ outcome = [c \in Call |-> "none"]
    /\ result = [c \in Call |-> "none"]
    /\ client = [c \in Call |-> "none"]
    /\ box = [c \in Call |-> "none"]
    /\ ran = [c \in Call |-> "absent"]
    /\ daemon = TRUE
    /\ outages = 0

-----------------------------------------------------------------------------
Goto(c, stage) == pc' = [pc EXCEPT ![c] = stage]

\* The body of run_validation's try block raises; its finally comes next.
Raise(c, error) ==
    /\ raised' = [raised EXCEPT ![c] = error]
    /\ Goto(c, "sweep")

Return(c, status) ==
    /\ result' = [result EXCEPT ![c] = status]
    /\ Goto(c, "done")

(* select_validation_command, total over the categories.                     *)
Command(category, typed) ==
    CASE category = "lint" -> IF typed THEN "mypy" ELSE "ruff"
      [] category = "test" -> "pytest"
      [] category \in {"dependency", "unknown", "build"} -> "python_syntax"
      [] OTHER -> "none"

-----------------------------------------------------------------------------
(* validate_fix up to the sandbox.                                           *)
Submit(c) ==
    /\ pc[c] = "idle"
    /\ Goto(c, "gate")
    /\ UNCHANGED <<callVars, hostVars, dockerVars, daemonVars>>

(* An ineligible proposal, or one no command is mapped to, ends here.        *)
Gate(c) ==
    /\ pc[c] = "gate"
    /\ IF proposal[c] # "proposed" THEN Return(c, "patch_rejected")
       ELSE \E category \in FailureCategory, typed \in BOOLEAN :
            IF Command(category, typed) = "none" THEN Return(c, "unsupported")
            ELSE /\ Goto(c, IF given[c] THEN "workspace" ELSE "checkout")
                 /\ UNCHANGED result
    /\ UNCHANGED <<callVars, tree, raised, outcome, dockerVars, daemonVars>>

Checkout(c) ==
    /\ pc[c] = "checkout"
    /\ \/ Goto(c, "workspace") /\ UNCHANGED result
       \/ Return(c, "infrastructure_error")
    /\ UNCHANGED <<callVars, tree, raised, outcome, dockerVars, daemonVars>>

(* mkdtemp is outside the try block: what it raises finds nothing to remove. *)
MakeWorkspace(c) ==
    /\ pc[c] = "workspace"
    /\ \/ /\ tree' = [tree EXCEPT ![c] = "empty"]
          /\ Goto(c, "copy")
          /\ UNCHANGED raised
       \/ /\ raised' = [raised EXCEPT ![c] = "other"]
          /\ Goto(c, "judge")
          /\ UNCHANGED tree
    /\ UNCHANGED <<callVars, outcome, result, dockerVars, daemonVars>>

-----------------------------------------------------------------------------
(* run_validation.                                                           *)

(* The source is gone, a file cannot be copied, or git refuses the copy.     *)
Materialize(c) ==
    /\ pc[c] = "copy"
    /\ \/ /\ tree' = [tree EXCEPT ![c] = "base"]
          /\ Goto(c, "patch")
          /\ UNCHANGED raised
       \/ /\ \E left \in {"empty", "torn"} : tree' = [tree EXCEPT ![c] = left]
          /\ Raise(c, "workspace")
    /\ UNCHANGED <<callVars, outcome, result, dockerVars, daemonVars>>

(* Fault: git apply's answer is not looked at.                               *)
ApplyPatchLoosely(c) ==
    /\ pc[c] = "patch"
    /\ \E left \in {"base", "patched"} : tree' = [tree EXCEPT ![c] = left]
    /\ Goto(c, "probe")
    /\ UNCHANGED <<callVars, raised, outcome, result, dockerVars, daemonVars>>

(* git apply --check, then git apply, which writes all files or none.  With  *)
(* a blank diff there is nothing to do: the source has the whole patch.      *)
ApplyPatch(c) ==
    /\ pc[c] = "patch"
    /\ \/ /\ tree' = [tree EXCEPT ![c] = "patched"]
          /\ Goto(c, "probe")
          /\ UNCHANGED raised
       \/ /\ \E error \in {"patch", "other"} : Raise(c, error)
          /\ UNCHANGED tree
    /\ UNCHANGED <<callVars, outcome, result, dockerVars, daemonVars>>

(* docker info: refused, or not answered in five seconds.                    *)
Probe(c) ==
    /\ pc[c] = "probe"
    /\ \/ daemon /\ Goto(c, "launch") /\ UNCHANGED raised
       \/ Raise(c, "docker")
    /\ UNCHANGED <<callVars, tree, outcome, result, dockerVars, daemonVars>>

Launch(c) ==
    /\ pc[c] = "launch"
    /\ \/ /\ client' = [client EXCEPT ![c] = "running"]
          /\ Goto(c, "wait")
          /\ UNCHANGED raised
       \/ /\ Raise(c, "other")
          /\ UNCHANGED client
    /\ UNCHANGED <<callVars, tree, outcome, result, box, ran, daemonVars>>

(* communicate() returns: the client has exited.                             *)
Collect(c) ==
    /\ pc[c] = "wait"
    /\ client[c] \in {"zero", "nonzero", "error"}
    /\ outcome' = [outcome EXCEPT ![c] = IF client[c] = "zero" THEN "zero" ELSE "nonzero"]
    /\ Goto(c, "sweep")
    /\ UNCHANGED <<callVars, tree, raised, result, dockerVars, daemonVars>>

(* Fault: no timeout.                                                        *)
ExpireNever(c) ==
    /\ pc[c] = "wait"
    /\ client[c] = "killed"
    /\ outcome' = [outcome EXCEPT ![c] = "timeout"]
    /\ Goto(c, "sweep")
    /\ UNCHANGED <<callVars, tree, raised, result, dockerVars, daemonVars>>

(* The timer of wait_for wins, if only just: proc.kill() hits the client.    *)
Expire(c) ==
    /\ pc[c] = "wait"
    /\ outcome' = [outcome EXCEPT ![c] = "timeout"]
    /\ client' = [client EXCEPT ![c] = IF @ = "running" THEN "killed" ELSE @]
    /\ Goto(c, "sweep")
    /\ UNCHANGED <<callVars, tree, raised, result, box, ran, daemonVars>>

(* Fault: the workspace is removed on the way to success only.               *)
SweepOnReturn(c) ==
    /\ pc[c] = "sweep"
    /\ tree' = [tree EXCEPT ![c] = IF raised[c] = "none" THEN "absent" ELSE @]
    /\ Goto(c, "judge")
    /\ UNCHANGED <<callVars, raised, outcome, result, dockerVars, daemonVars>>

(* rmtree with ignore_errors: what cannot be removed, be it that a container *)
(* still writes there or that a test took the permission away, is kept, and  *)
(* the call goes on as if it were gone.                                      *)
Sweep(c) ==
    /\ pc[c] = "sweep"
    /\ \E left \in {"absent", "kept"} : tree' = [tree EXCEPT ![c] = left]
    /\ Goto(c, "judge")
    /\ UNCHANGED <<callVars, raised, outcome, result, dockerVars, daemonVars>>

-----------------------------------------------------------------------------
(* Fault: a patch that does not apply counts as a failed test.               *)
VerdictBlunt(c) ==
    IF raised[c] # "none" THEN "failed"
    ELSE IF outcome[c] = "timeout" THEN "timed_out"
    ELSE IF outcome[c] = "zero" THEN "passed"
    ELSE "failed"

(* Fault: the runner's word for a timeout is stored as it is.                *)
VerdictRaw(c) ==
    IF raised[c] = "patch" THEN "patch_rejected"
    ELSE IF raised[c] # "none" THEN "infrastructure_error"
    ELSE IF outcome[c] = "timeout" THEN "timeout"
    ELSE IF outcome[c] = "zero" THEN "passed"
    ELSE "failed"

(* validate_fix: what the runner returned or raised, as a status.            *)
Verdict(c) ==
    IF raised[c] = "patch" THEN "patch_rejected"
    ELSE IF raised[c] # "none" THEN "infrastructure_error"
    ELSE IF outcome[c] = "timeout" THEN "timed_out"
    ELSE IF outcome[c] = "zero" THEN "passed"
    ELSE "failed"

Judge(c) ==
    /\ pc[c] = "judge"
    /\ Return(c, Verdict(c))
    /\ UNCHANGED <<callVars, tree, raised, outcome, dockerVars, daemonVars>>

(* The worker process dies: no finally runs, its children live on.           *)
Crash(c) ==
    /\ pc[c] \in Active
    /\ Goto(c, "lost")
    /\ UNCHANGED <<callVars, hostVars, dockerVars, daemonVars>>

-----------------------------------------------------------------------------
(* docker run: the client has the daemon start the container, waits for it   *)
(* and exits with its exit code.                                             *)
ContainerStarts(c) ==
    /\ daemon
    /\ client[c] = "running"
    /\ box[c] = "none"
    /\ box' = [box EXCEPT ![c] = "running"]
    /\ ran' = [ran EXCEPT ![c] = tree[c]]
    /\ UNCHANGED <<pc, callVars, hostVars, client, daemonVars>>

ContainerExits(c) ==
    /\ box[c] = "running"
    /\ \E code \in {"zero", "nonzero"} : box' = [box EXCEPT ![c] = code]
    /\ UNCHANGED <<pc, callVars, hostVars, client, ran, daemonVars>>

ClientExits(c) ==
    /\ client[c] = "running"
    /\ box[c] \in {"zero", "nonzero"}
    /\ client' = [client EXCEPT ![c] = box[c]]
    /\ UNCHANGED <<pc, callVars, hostVars, box, ran, daemonVars>>

(* No container can be created, as without the daemon or the image: the      *)
(* client exits nonzero by itself.                                           *)
ClientGivesUp(c) ==
    /\ client[c] = "running"
    /\ box[c] = "none"
    /\ client' = [client EXCEPT ![c] = "error"]
    /\ UNCHANGED <<pc, callVars, hostVars, box, ran, daemonVars>>

(* The daemon stops: clients lose their connection; a container is stopped   *)
(* with it or outlives it.                                                   *)
DaemonStops ==
    /\ daemon
    /\ outages < MaxOutages
    /\ daemon' = FALSE
    /\ outages' = outages + 1
    /\ client' = [c \in Call |-> IF client[c] = "running" THEN "error" ELSE client[c]]
    /\ \E stopped \in SUBSET {c \in Call : box[c] = "running"} :
            box' = [c \in Call |-> IF c \in stopped THEN "nonzero" ELSE box[c]]
    /\ UNCHANGED <<pc, callVars, hostVars, ran>>

DaemonRestarts ==
    /\ ~daemon
    /\ daemon' = TRUE
    /\ UNCHANGED <<pc, callVars, hostVars, dockerVars, outages>>

-----------------------------------------------------------------------------
Step(c) ==
    \/ Gate(c) \/ Checkout(c) \/ MakeWorkspace(c) \/ Materialize(c) \/ ApplyPatch(c)
    \/ Probe(c) \/ Launch(c) \/ Collect(c) \/ Expire(c) \/ Sweep(c) \/ Judge(c)

Docker(c) ==
    ContainerStarts(c) \/ ContainerExits(c) \/ ClientExits(c) \/ ClientGivesUp(c)

Next ==
    \/ \E c \in Call : Submit(c) \/ Step(c) \/ Crash(c) \/ Docker(c)
    \/ DaemonStops \/ DaemonRestarts

Spec == Init /\ [][Next]_vars

(* The event loop runs the coroutine, its timers included.  Docker owes      *)
(* nothing: a command may hang for ever and the daemon stay down.            *)
FairSpec == Spec /\ \A c \in Call : WF_vars(Step(c))

-----------------------------------------------------------------------------
(* "passed" is earned: the container ran the command to exit code 0 on the   *)
(* source with the whole patch, and neither a client killed by the timer nor *)
(* one that lost its daemon stands in for that (FR-007, zero unvalidated     *)
(* patches).                                                                 *)
PassedIsEarned ==
    \A c \in Call : result[c] = "passed" => box[c] = "zero" /\ ran[c] = "patched"

(* A status that says the patch was not tested is given only if no container *)
(* was ever started for the call, and "failed" only after a failing test or  *)
(* when the client itself gave up.                                           *)
UntestedNeverRan ==
    \A c \in Call :
        /\ result[c] \in {"patch_rejected", "unsupported", "infrastructure_error"} =>
              box[c] = "none"
        /\ result[c] = "failed" =>
              client[c] = "error" \/ (box[c] = "nonzero" /\ ran[c] = "patched")

(* What a call can leave behind.  Whatever was raised, it does not return    *)
(* before it has tried to remove its workspace, so a directory that is there *)
(* is one the operating system refused to remove; a container runs on only   *)
(* after a timeout or when the client lost its daemon.  ADR-0005, decision   *)
(* 2, and HLD 6.3 say "unconditionally destroyed"; only the attempt is.      *)
LeftoversAreExplained ==
    \A c \in Call : pc[c] = "done" =>
        /\ tree[c] \in {"absent", "kept"}
        /\ box[c] = "running" =>
              result[c] = "timed_out" \/ (result[c] = "failed" /\ client[c] = "error")

(* Every call returns a verdict, if its process survives: whatever docker    *)
(* does, the timer ends the wait.                                            *)
CallsReturn == \A c \in Call : pc[c] = "gate" ~> result[c] # "none" \/ pc[c] = "lost"
=============================================================================
