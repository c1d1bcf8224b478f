--------------------------- MODULE Sandbox_proofs ---------------------------
(***************************************************************************)
(* Proofs about Sandbox for any set of calls and any number of outages.    *)
(*                                                                         *)
(* The verdict is given long after the container ran and looks at none of  *)
(* the docker state.  What ties them together is, per call: where it is    *)
(* when there is a client (Launched), which workspace a container can have *)
(* been started on (Testing), what an exit code of the client says about   *)
(* the container (Reported), and what each verdict was drawn from (Judged).*)
(***************************************************************************)
EXTENDS Sandbox, TLAPS

Early == {"idle", "gate", "checkout", "workspace"}
Unlaunched == Early \cup {"copy", "patch", "probe", "launch"}

(* A client is started on the way from launch to wait and by a call that has *)
(* not failed; it is gone when the call leaves wait, unless the process died.*)
Launched ==
    \A c \in Call :
        /\ pc[c] \in Unlaunched => client[c] = "none" /\ outcome[c] = "none"
        /\ pc[c] \in Unlaunched \cup {"wait"} => raised[c] = "none"
        /\ raised[c] # "none" => client[c] = "none"
        /\ client[c] = "running" => pc[c] \in {"wait", "lost"}
        /\ client[c] = "none" => box[c] = "none"

(* From the applied patch to the answer the workspace holds the whole patch, *)
(* so no container was started on anything else.                             *)
Testing ==
    \A c \in Call :
        /\ pc[c] \in Early => tree[c] = "absent"
        /\ pc[c] \in {"probe", "launch", "wait"} => tree[c] = "patched"
        /\ pc[c] # "lost" /\ box[c] # "none" => ran[c] = "patched"

(* A client that has an exit code of the command has it from its container.  *)
Reported ==
    \A c \in Call :
        /\ client[c] \in {"zero", "nonzero"} => box[c] = client[c]
        /\ client[c] = "killed" => outcome[c] = "timeout"
        /\ outcome[c] = "zero" => client[c] = "zero"
        /\ outcome[c] = "nonzero" => client[c] \in {"nonzero", "error"}

(* What each verdict was drawn from, and what the sweep can have left.       *)
Judged ==
    \A c \in Call :
        /\ pc[c] \in {"sweep", "judge"} /\ raised[c] = "none" => outcome[c] # "none"
        /\ pc[c] \in {"judge", "done"} => tree[c] \in {"absent", "kept"}
        /\ result[c] # "none" => pc[c] = "done"
        /\ result[c] \in {"patch_rejected", "unsupported", "infrastructure_error"} =>
              client[c] = "none"
        /\ result[c] = "passed" => outcome[c] = "zero"
        /\ result[c] = "failed" => outcome[c] = "nonzero"
        /\ result[c] = "timed_out" => outcome[c] = "timeout"
        /\ pc[c] = "done" => result[c] # "none"

SandboxInv == TypeOK /\ Launched /\ Testing /\ Reported /\ Judged

LEMMA InitSandboxInv == Init => SandboxInv
  BY OutageAssumption
  DEF Init, SandboxInv, TypeOK, Trees, Active, Prepared, ValidationStatus, Launched,
      Testing, Reported, Judged, Early, Unlaunched

(* Types.                                                                    *)
LEMMA TypeStep == TypeOK /\ [Next]_vars => TypeOK'
<1> SUFFICES ASSUME TypeOK, [Next]_vars PROVE TypeOK'
  OBVIOUS
<1> USE OutageAssumption
    DEF TypeOK, Trees, Active, Prepared, ValidationStatus, Goto, Raise, Return,
        callVars, hostVars, dockerVars, daemonVars
<1>1. CASE UNCHANGED vars
  BY <1>1 DEF vars
<1>2. ASSUME NEW c \in Call, Submit(c) \/ Gate(c) \/ Checkout(c) \/ MakeWorkspace(c)
      PROVE  TypeOK'
  BY <1>2 DEF Submit, Gate, Checkout, MakeWorkspace
<1>3. ASSUME NEW c \in Call, Materialize(c) \/ ApplyPatch(c) \/ Probe(c) \/ Launch(c)
      PROVE  TypeOK'
  BY <1>3 DEF Materialize, ApplyPatch, Probe, Launch
<1>4. ASSUME NEW c \in Call, Collect(c) \/ Expire(c) \/ Sweep(c) PROVE TypeOK'
  BY <1>4 DEF Collect, Expire, Sweep
<1>5. ASSUME NEW c \in Call, Judge(c) \/ Crash(c) PROVE TypeOK'
  BY <1>5 DEF Judge, Verdict, Crash
<1>6. ASSUME NEW c \in Call, Docker(c) PROVE TypeOK'
  BY <1>6 DEF Docker, ContainerStarts, ContainerExits, ClientExits, ClientGivesUp
<1>7. CASE DaemonStops
  <2>1. daemon' \in BOOLEAN
    BY <1>7 DEF DaemonStops
  <2>2. outages' \in 0..MaxOutages
    BY <1>7 DEF DaemonStops
  <2>3. client' \in [Call -> {"none", "running", "zero", "nonzero", "error", "killed"}]
    BY <1>7 DEF DaemonStops
  <2>4. box' \in [Call -> {"none", "running", "zero", "nonzero"}]
    BY <1>7 DEF DaemonStops
  <2> QED
    BY <1>7, <2>1, <2>2, <2>3, <2>4 DEF DaemonStops
<1>8. CASE DaemonRestarts
  BY <1>8 DEF DaemonRestarts
<1> QED
  BY <1>1, <1>2, <1>3, <1>4, <1>5, <1>6, <1>7, <1>8 DEF Next, Step

(* Where a call is when it has a client.                                     *)
LEMMA LaunchedStep == TypeOK /\ Launched /\ [Next]_vars => Launched'
<1> SUFFICES ASSUME TypeOK, Launched, [Next]_vars PROVE Launched'
  OBVIOUS
<1> USE DEF TypeOK, Launched, Early, Unlaunched, Active, Prepared, Goto, Raise, Return,
            callVars, hostVars, dockerVars, daemonVars
<1>1. CASE UNCHANGED vars
  BY <1>1 DEF vars
<1>2. ASSUME NEW c \in Call, Submit(c) \/ Gate(c) \/ Checkout(c) \/ MakeWorkspace(c)
      PROVE  Launched'
  BY <1>2 DEF Submit, Gate, Checkout, MakeWorkspace
<1>3. ASSUME NEW c \in Call, Materialize(c) \/ ApplyPatch(c) \/ Probe(c) \/ Launch(c)
      PROVE  Launched'
  BY <1>3 DEF Materialize, ApplyPatch, Probe, Launch
<1>4. ASSUME NEW c \in Call, Collect(c) \/ Expire(c) \/ Sweep(c) PROVE Launched'
  BY <1>4 DEF Collect, Expire, Sweep
<1>5. ASSUME NEW c \in Call, Judge(c) \/ Crash(c) PROVE Launched'
  BY <1>5 DEF Judge, Crash
<1>6. ASSUME NEW c \in Call, Docker(c) PROVE Launched'
  BY <1>6 DEF Docker, ContainerStarts, ContainerExits, ClientExits, ClientGivesUp
<1>7. CASE DaemonStops \/ DaemonRestarts
  BY <1>7 DEF DaemonStops, DaemonRestarts
<1> QED
  BY <1>1, <1>2, <1>3, <1>4, <1>5, <1>6, <1>7 DEF Next, Step

(* What a container was started on.                                          *)
LEMMA TestingStep == TypeOK /\ Launched /\ Testing /\ [Next]_vars => Testing'
<1> SUFFICES ASSUME TypeOK, Launched, Testing, [Next]_vars PROVE Testing'
  OBVIOUS
<1> USE DEF TypeOK, Launched, Testing, Early, Unlaunched, Active, Prepared, Goto, Raise,
            Return, callVars, hostVars, dockerVars, daemonVars
<1>1. CASE UNCHANGED vars
  BY <1>1 DEF vars
<1>2. ASSUME NEW c \in Call, Submit(c) \/ Gate(c) \/ Checkout(c) \/ MakeWorkspace(c)
      PROVE  Testing'
  BY <1>2 DEF Submit, Gate, Checkout, MakeWorkspace
<1>3. ASSUME NEW c \in Call, Materialize(c) \/ ApplyPatch(c) \/ Probe(c) \/ Launch(c)
      PROVE  Testing'
  BY <1>3 DEF Materialize, ApplyPatch, Probe, Launch
<1>4. ASSUME NEW c \in Call, Collect(c) \/ Expire(c) \/ Sweep(c) PROVE Testing'
  BY <1>4 DEF Collect, Expire, Sweep
<1>5. ASSUME NEW c \in Call, Judge(c) \/ Crash(c) PROVE Testing'
  BY <1>5 DEF Judge, Crash
<1>6. ASSUME NEW c \in Call, Docker(c) PROVE Testing'
  BY <1>6 DEF Docker, ContainerStarts, ContainerExits, ClientExits, ClientGivesUp
<1>7. CASE DaemonStops \/ DaemonRestarts
  BY <1>7 DEF DaemonStops, DaemonRestarts
<1> QED
  BY <1>1, <1>2, <1>3, <1>4, <1>5, <1>6, <1>7 DEF Next, Step

(* What the exit of the client says.                                         *)
LEMMA ReportedStep == TypeOK /\ Launched /\ Reported /\ [Next]_vars => Reported'
<1> SUFFICES ASSUME TypeOK, Launched, Reported, [Next]_vars PROVE Reported'
  OBVIOUS
<1> USE DEF TypeOK, Launched, Reported, Early, Unlaunched, Active, Prepared, Goto, Raise,
            Return, callVars, hostVars, dockerVars, daemonVars
<1>1. CASE UNCHANGED vars
  BY <1>1 DEF vars
<1>2. ASSUME NEW c \in Call, Submit(c) \/ Gate(c) \/ Checkout(c) \/ MakeWorkspace(c)
      PROVE  Reported'
  BY <1>2 DEF Submit, Gate, Checkout, MakeWorkspace
<1>3. ASSUME NEW c \in Call, Materialize(c) \/ ApplyPatch(c) \/ Probe(c) \/ Launch(c)
      PROVE  Reported'
  BY <1>3 DEF Materialize, ApplyPatch, Probe, Launch
<1>4. ASSUME NEW c \in Call, Collect(c) \/ Expire(c) \/ Sweep(c) PROVE Reported'
  BY <1>4 DEF Collect, Expire, Sweep
<1>5. ASSUME NEW c \in Call, Judge(c) \/ Crash(c) PROVE Reported'
  BY <1>5 DEF Judge, Crash
<1>6. ASSUME NEW c \in Call, Docker(c) PROVE Reported'
  BY <1>6 DEF Docker, ContainerStarts, ContainerExits, ClientExits, ClientGivesUp
<1>7. CASE DaemonStops \/ DaemonRestarts
  BY <1>7 DEF DaemonStops, DaemonRestarts
<1> QED
  BY <1>1, <1>2, <1>3, <1>4, <1>5, <1>6, <1>7 DEF Next, Step

(* What a verdict was drawn from.                                            *)
LEMMA JudgedStep ==
    TypeOK /\ Launched /\ Testing /\ Reported /\ Judged /\ [Next]_vars => Judged'
<1> SUFFICES ASSUME TypeOK, Launched, Testing, Reported, Judged, [Next]_vars
             PROVE  Judged'
  OBVIOUS
<1> USE DEF TypeOK, Launched, Testing, Reported, Judged, Early, Unlaunched, Active,
            Prepared, Goto, Raise, Return, callVars, hostVars, dockerVars, daemonVars
<1>1. CASE UNCHANGED vars
  BY <1>1 DEF vars
<1>2. ASSUME NEW c \in Call, Submit(c) \/ Gate(c) \/ Checkout(c) \/ MakeWorkspace(c)
      PROVE  Judged'
  BY <1>2 DEF Submit, Gate, Checkout, MakeWorkspace
<1>3. ASSUME NEW c \in Call, Materialize(c) \/ ApplyPatch(c) \/ Probe(c) \/ Launch(c)
      PROVE  Judged'
  BY <1>3 DEF Materialize, ApplyPatch, Probe, Launch
<1>4. ASSUME NEW c \in Call, Collect(c) \/ Expire(c) \/ Sweep(c) PROVE Judged'
  BY <1>4 DEF Collect, Expire, Sweep
<1>5. ASSUME NEW c \in Call, Judge(c) \/ Crash(c) PROVE Judged'
  BY <1>5 DEF Judge, Verdict, Crash
<1>6. ASSUME NEW c \in Call, Docker(c) PROVE Judged'
  BY <1>6 DEF Docker, ContainerStarts, ContainerExits, ClientExits, ClientGivesUp
<1>7. CASE DaemonStops \/ DaemonRestarts
  BY <1>7 DEF DaemonStops, DaemonRestarts
<1> QED
  BY <1>1, <1>2, <1>3, <1>4, <1>5, <1>6, <1>7 DEF Next, Step

LEMMA SandboxInvStep == SandboxInv /\ [Next]_vars => SandboxInv'
  BY TypeStep, LaunchedStep, TestingStep, ReportedStep, JudgedStep DEF SandboxInv

LEMMA SandboxInvImplies ==
    SandboxInv => PassedIsEarned /\ UntestedNeverRan /\ LeftoversAreExplained
<1> SUFFICES ASSUME SandboxInv
             PROVE  PassedIsEarned /\ UntestedNeverRan /\ LeftoversAreExplained
  OBVIOUS
<1> USE DEF SandboxInv, TypeOK, ValidationStatus, Launched, Testing, Reported, Judged
<1>1. PassedIsEarned
  BY DEF PassedIsEarned
<1>2. UntestedNeverRan
  BY DEF UntestedNeverRan
<1>3. LeftoversAreExplained
  BY DEF LeftoversAreExplained
<1> QED
  BY <1>1, <1>2, <1>3

LEMMA SandboxInvHolds == Spec => []SandboxInv
<1>1. Init => SandboxInv
  BY InitSandboxInv
<1>2. SandboxInv /\ [Next]_vars => SandboxInv'
  BY SandboxInvStep
<1> QED
  BY <1>1, <1>2, PTL DEF Spec

(* Every variable of the sandbox keeps its type.                             *)
THEOREM SandboxTyped == Spec => []TypeOK
<1>1. SandboxInv => TypeOK
  BY DEF SandboxInv
<1> QED
  BY <1>1, SandboxInvHolds, PTL

(* A fix that is reported as passed ran to exit code 0 in a container, on    *)
(* the source with the whole patch, whatever docker, the timer and the       *)
(* daemon did in the meantime.                                               *)
THEOREM SandboxPassedIsEarned == Spec => []PassedIsEarned
<1>1. SandboxInv => PassedIsEarned
  BY SandboxInvImplies
<1> QED
  BY <1>1, SandboxInvHolds, PTL

(* The verdicts that say "not tested" are given only if nothing was run.     *)
THEOREM SandboxUntestedNeverRan == Spec => []UntestedNeverRan
<1>1. SandboxInv => UntestedNeverRan
  BY SandboxInvImplies
<1> QED
  BY <1>1, SandboxInvHolds, PTL

(* A call tries to remove its workspace before it returns, on every path,    *)
(* and its container runs on after a timeout or a lost daemon only.          *)
THEOREM SandboxLeftovers == Spec => []LeftoversAreExplained
<1>1. SandboxInv => LeftoversAreExplained
  BY SandboxInvImplies
<1> QED
  BY <1>1, SandboxInvHolds, PTL
=============================================================================
