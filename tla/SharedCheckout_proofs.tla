------------------------ MODULE SharedCheckout_proofs ------------------------
(***************************************************************************)
(* Proofs about SharedCheckout for any set of pipelines, commits and       *)
(* processes.                                                              *)
(*                                                                         *)
(* ExactInOneProcess is not inductive: a pipeline reads what the directory *)
(* holds, so the invariant must say what it holds in every stage between   *)
(* the checkout and the use, and that there is one pipeline at a time in   *)
(* those stages.                                                           *)
(***************************************************************************)
EXTENDS SharedCheckout, TLAPS

(* One pipeline at a time is between its checkout and its use.               *)
Serial == \A t, u \in Task : pc[t] \in SyncStage /\ pc[u] \in SyncStage => t = u

(* From the rewritten files to the end of the use, the directory holds the   *)
(* commit of the pipeline that holds the worker.                             *)
DirIsMine ==
    \A t \in Task : pc[t] \in {"head", "verify", "use"} => dirTree = Want[t]

(* What is patched was copied from HEAD and from the tree.                   *)
Copied ==
    \A t \in Task : pc[t] \in {"applying", "recheck", "pushed"} => copyTree[t] # Unseen

CheckoutInv ==
    /\ TypeOK
    /\ PushedOnApprovedParent
    /\ Copied
    /\ OneProcess => Serial /\ DirIsMine /\ ExactCommit

LEMMA InitCheckoutInv == Init => CheckoutInv
  BY WantAssumption, TreeAssumption
  DEF Init, CheckoutInv, TypeOK, Trees, Stage, SyncStage, PushedOnApprovedParent,
      Copied, Serial, DirIsMine, ExactCommit

(* Types.                                                                    *)
LEMMA TypeStep == TypeOK /\ [Next]_vars => TypeOK'
<1> SUFFICES ASSUME TypeOK, [Next]_vars PROVE TypeOK'
  OBVIOUS
<1> USE WantAssumption, TreeAssumption DEF TypeOK, Trees, Stage, SyncStage, Goto
<1>1. CASE UNCHANGED vars
  BY <1>1 DEF vars, workerVars, dirVars, seenVars
<1>2. ASSUME NEW t \in Task, Checkout(t) PROVE TypeOK'
  BY <1>2 DEF Checkout, CheckoutStarts, CheckoutFiles, CheckoutHead, CheckoutVerifies,
         CheckoutRaises, workerVars, dirVars, seenVars
<1>3. ASSUME NEW t \in Task, ReadEvidence(t) \/ Materialize(t) \/ Approve(t)
      PROVE  TypeOK'
  BY <1>3 DEF ReadEvidence, Materialize, Approve, workerVars, dirVars, seenVars
<1>4. ASSUME NEW t \in Task, CopyHead(t) \/ CopyTree(t) PROVE TypeOK'
  BY <1>4 DEF CopyHead, CopyTree, workerVars, dirVars, seenVars
<1>5. ASSUME NEW t \in Task, CheckHead(t) \/ ValidateAgain(t) \/ Push(t) \/ Halt(t)
      PROVE  TypeOK'
  BY <1>5 DEF CheckHead, ValidateAgain, Push, Halt, workerVars, dirVars, seenVars
<1> QED
  BY <1>1, <1>2, <1>3, <1>4, <1>5 DEF Next

(* HEAD and tree of the mutation workspace: only the copying stage writes    *)
(* them, and CheckHead stands between it and the later stages.               *)
LEMMA CopyStep ==
    TypeOK /\ PushedOnApprovedParent /\ Copied /\ [Next]_vars
      => PushedOnApprovedParent' /\ Copied'
<1> SUFFICES ASSUME TypeOK, PushedOnApprovedParent, Copied, [Next]_vars
             PROVE  PushedOnApprovedParent' /\ Copied'
  OBVIOUS
<1> USE TreeAssumption DEF TypeOK, PushedOnApprovedParent, Copied, Goto
<1>1. CASE UNCHANGED vars
  BY <1>1 DEF vars, workerVars, dirVars, seenVars
<1>2. ASSUME NEW t \in Task, Checkout(t)
      PROVE  PushedOnApprovedParent' /\ Copied'
  BY <1>2 DEF Checkout, CheckoutStarts, CheckoutFiles, CheckoutHead, CheckoutVerifies,
         CheckoutRaises, workerVars, dirVars, seenVars
<1>3. ASSUME NEW t \in Task, ReadEvidence(t) \/ Materialize(t) \/ Approve(t)
      PROVE  PushedOnApprovedParent' /\ Copied'
  BY <1>3 DEF ReadEvidence, Materialize, Approve, workerVars, dirVars, seenVars
<1>4. ASSUME NEW t \in Task, CopyHead(t) \/ CopyTree(t)
      PROVE  PushedOnApprovedParent' /\ Copied'
  BY <1>4 DEF CopyHead, CopyTree, workerVars, dirVars, seenVars
<1>5. ASSUME NEW t \in Task, CheckHead(t) \/ ValidateAgain(t) \/ Push(t) \/ Halt(t)
      PROVE  PushedOnApprovedParent' /\ Copied'
  BY <1>5 DEF CheckHead, ValidateAgain, Push, Halt, workerVars, dirVars, seenVars
<1> QED
  BY <1>1, <1>2, <1>3, <1>4, <1>5 DEF Next

(* In one process a free worker means that no pipeline is in a synchronous   *)
(* stage.                                                                    *)
LEMMA FreeMeansIdle ==
    ASSUME OneProcess, TypeOK, NEW t \in Task, WorkerFree(t)
    PROVE  \A u \in Task : pc[u] \notin SyncStage
  BY DEF OneProcess, WorkerFree, WorkerOf

(* The directory under one process.                                          *)
LEMMA DirectoryStep ==
    ASSUME OneProcess, TypeOK, Serial, DirIsMine, ExactCommit, [Next]_vars
    PROVE  Serial' /\ DirIsMine' /\ ExactCommit'
<1> USE WantAssumption, TreeAssumption
        DEF TypeOK, Serial, DirIsMine, ExactCommit, Goto, SyncStage
<1>1. CASE UNCHANGED vars
  BY <1>1 DEF vars, workerVars, dirVars, seenVars
<1>2. ASSUME NEW t \in Task, CheckoutStarts(t)
      PROVE  Serial' /\ DirIsMine' /\ ExactCommit'
  <2>1. \A u \in Task : pc[u] \notin SyncStage
    BY <1>2, FreeMeansIdle DEF CheckoutStarts
  <2> QED
    BY <1>2, <2>1 DEF CheckoutStarts, workerVars, seenVars
<1>3. ASSUME NEW t \in Task, CheckoutFiles(t) \/ CheckoutHead(t) \/ CheckoutVerifies(t)
      PROVE  Serial' /\ DirIsMine' /\ ExactCommit'
  BY <1>3 DEF CheckoutFiles, CheckoutHead, CheckoutVerifies, workerVars, dirVars, seenVars
<1>4. ASSUME NEW t \in Task, CheckoutRaises(t)
      PROVE  Serial' /\ DirIsMine' /\ ExactCommit'
  BY <1>4 DEF CheckoutRaises, workerVars, seenVars
<1>5. ASSUME NEW t \in Task, ReadEvidence(t) \/ Materialize(t)
      PROVE  Serial' /\ DirIsMine' /\ ExactCommit'
  BY <1>5 DEF ReadEvidence, Materialize, workerVars, dirVars
<1>6. ASSUME NEW t \in Task, Approve(t) \/ CheckHead(t)
      PROVE  Serial' /\ DirIsMine' /\ ExactCommit'
  BY <1>6 DEF Approve, CheckHead, workerVars, dirVars, seenVars
<1>7. ASSUME NEW t \in Task, CopyHead(t) \/ CopyTree(t)
      PROVE  Serial' /\ DirIsMine' /\ ExactCommit'
  BY <1>7 DEF CopyHead, CopyTree, workerVars, dirVars
<1>8. ASSUME NEW t \in Task, ValidateAgain(t) \/ Push(t) \/ Halt(t)
      PROVE  Serial' /\ DirIsMine' /\ ExactCommit'
  BY <1>8 DEF ValidateAgain, Push, Halt, workerVars, dirVars, seenVars
<1> QED
  BY <1>1, <1>2, <1>3, <1>4, <1>5, <1>6, <1>7, <1>8 DEF Next, Checkout

(* No step moves a pipeline to another process.                              *)
LEMMA WorkersFixed == [Next]_vars => UNCHANGED <<home, clicked>>
  BY DEF Next, vars, workerVars, Checkout, CheckoutStarts, CheckoutFiles, CheckoutHead,
     CheckoutVerifies, CheckoutRaises, ReadEvidence, Materialize, Approve, CopyHead,
     CopyTree, CheckHead, ValidateAgain, Push, Halt

LEMMA CheckoutStep == CheckoutInv /\ [Next]_vars => CheckoutInv'
<1> SUFFICES ASSUME CheckoutInv, [Next]_vars PROVE CheckoutInv'
  OBVIOUS
<1>1. TypeOK'
  BY TypeStep DEF CheckoutInv
<1>2. PushedOnApprovedParent' /\ Copied'
  BY CopyStep DEF CheckoutInv
<1>3. ASSUME OneProcess' PROVE Serial' /\ DirIsMine' /\ ExactCommit'
  <2>1. OneProcess
    BY <1>3, WorkersFixed DEF OneProcess
  <2> QED
    BY <2>1, DirectoryStep DEF CheckoutInv
<1> QED
  BY <1>1, <1>2, <1>3 DEF CheckoutInv

LEMMA CheckoutInvariant == Spec => []CheckoutInv
  BY InitCheckoutInv, CheckoutStep, PTL DEF Spec

(* Every variable of the checkout model keeps its type.                      *)
THEOREM CheckoutTyped == Spec => []TypeOK
<1>1. CheckoutInv => TypeOK
  BY DEF CheckoutInv
<1> QED
  BY <1>1, CheckoutInvariant, PTL

(* In any number of worker processes, what is pushed stands on the approved  *)
(* commit: create_pull_request compares the HEAD of its own copy.            *)
THEOREM CheckoutPinsParent == Spec => []PushedOnApprovedParent
<1>1. CheckoutInv => PushedOnApprovedParent
  BY DEF CheckoutInv
<1> QED
  BY <1>1, CheckoutInvariant, PTL

(* In one worker process any number of pipelines read, test and copy their   *)
(* own failing commit, and push their patch on it: checkout_commit and each  *)
(* use of the directory it returns lie between two awaits.                   *)
THEOREM CheckoutIsExact == Spec => []ExactInOneProcess
<1>1. CheckoutInv => ExactInOneProcess
  BY DEF CheckoutInv, ExactInOneProcess, PushedIsApproved, PushedOnApprovedParent, Copied,
         ExactCommit
<1> QED
  BY <1>1, CheckoutInvariant, PTL
=============================================================================
