--------------------------- MODULE SharedCheckout ---------------------------
(***************************************************************************)
(* One repository's checkout directory and the pipelines that share it.    *)
(*                                                                         *)
(* GitRepositoryCheckoutManager keeps one clone per repository, whatever   *)
(* the commit, and takes no lock.  Each pipeline uses it three times:      *)
(*   resolve   resolve_context reads source files from it;                 *)
(*   validate  validate_fix copies it into the sandbox's workspace;        *)
(*   mutate    create_pull_request copies it, .git included, patches and   *)
(*             commits the copy, and hands the directory itself to the     *)
(*             pre-push validation.                                        *)
(* All of this is synchronous code, so what lies between two awaits is     *)
(* atomic for the pipelines of the same worker process, and not at all for *)
(* those of another: SyncStage names the stages in which a pipeline holds  *)
(* its worker.                                                             *)
(*                                                                         *)
(* Abstractions.  A tree (index and files) is the commit it was checked    *)
(* out from, or Mixed while git rewrites it.  Whether a patch applies and  *)
(* a test suite passes is open.                                            *)
(***************************************************************************)
CONSTANTS Task,         \* pipelines about the repository
          Worker,       \* processes of the service
          Commit, Want, \* the failing commit of each pipeline
          Mixed,        \* a tree that is not that of one commit
          Unseen        \* nothing read yet

ASSUME WantAssumption == Want \in [Task -> Commit]
ASSUME TreeAssumption == Mixed \notin Commit /\ Unseen \notin Commit \cup {Mixed}

VARIABLES
    home,       \* the process that received each pipeline's webhook
    clicked,    \* the one that receives its approval, and mutates
    dirHead,    \* HEAD of the checkout directory
    dirTree,    \* its index and files
    locked,     \* the pipelines whose git holds index.lock
    job,        \* what each pipeline uses the directory for
    pc,         \* stage within the job
    evidence,   \* tree the code evidence was read from
    sandboxed,  \* tree the sandbox validation ran on
    copyHead,   \* HEAD of the mutation workspace
    copyTree,   \* index and files of the mutation workspace
    prePush     \* tree the pre-push validation ran on

workerVars == <<home, clicked>>
dirVars == <<dirHead, dirTree, locked>>
seenVars == <<evidence, sandboxed, copyHead, copyTree, prePush>>
vars == <<workerVars, dirVars, job, pc, seenVars>>

SyncStage == {"files", "head", "verify", "use"}
Stage == SyncStage \cup {"ready", "container", "applying", "recheck"}
Trees == Commit \cup {Mixed}

TypeOK ==
    /\ home \in [Task -> Worker]
    /\ clicked \in [Task -> Worker]
    /\ dirHead \in Commit
    /\ dirTree \in Trees
    /\ locked \subseteq Task
    /\ job \in [Task -> {"resolve", "validate", "mutate"}]
    /\ pc \in [Task -> Stage \cup {"halted", "pushed"}]
    /\ evidence \in [Task -> Trees \cup {Unseen}]
    /\ sandboxed \in [Task -> Trees \cup {Unseen}]
    /\ copyHead \in [Task -> Commit \cup {Unseen}]
    /\ copyTree \in [Task -> Trees \cup {Unseen}]
    /\ prePush \in [Task -> Trees \cup {Unseen}]

(* The clone stands where the last pipeline, or the clone itself, left it.   *)
Init ==
    /\ home \in [Task -> Worker]
    /\ clicked \in [Task -> Worker]
    /\ dirHead \in Commit
    /\ dirTree = dirHead
    /\ locked = {}
    /\ job = [t \in Task |-> "resolve"]
    /\ pc = [t \in Task |-> "ready"]
    /\ evidence = [t \in Task |-> Unseen]
    /\ sandboxed = [t \in Task |-> Unseen]
    /\ copyHead = [t \in Task |-> Unseen]
    /\ copyTree = [t \in Task |-> Unseen]
    /\ prePush = [t \in Task |-> Unseen]

-----------------------------------------------------------------------------
Goto(t, stage) == pc' = [pc EXCEPT ![t] = stage]

(* A background task runs in the process whose request scheduled it, and the *)
(* event loop there runs one coroutine up to its next await.                 *)
WorkerOf(t) == IF job[t] = "mutate" THEN clicked[t] ELSE home[t]
WorkerFree(t) == \A u \in Task : WorkerOf(u) = WorkerOf(t) => pc[u] \notin SyncStage

-----------------------------------------------------------------------------
(* Fault: the directory is emptied before the checkout.                      *)
CheckoutStartsEmpty(t) ==
    /\ pc[t] = "ready"
    /\ WorkerFree(t)
    /\ locked = {}
    /\ locked' = {t}
    /\ dirTree' = Unseen
    /\ Goto(t, "files")
    /\ UNCHANGED <<workerVars, dirHead, job, seenVars>>

(* checkout_commit: git checkout --force rewrites what differs, writes the   *)
(* index, then moves HEAD.                                                   *)
CheckoutStarts(t) ==
    /\ pc[t] = "ready"
    /\ WorkerFree(t)
    /\ locked = {}
    /\ locked' = {t}
    /\ dirTree' = IF dirTree = Want[t] THEN dirTree ELSE Mixed
    /\ Goto(t, "files")
    /\ UNCHANGED <<workerVars, dirHead, job, seenVars>>

CheckoutFiles(t) ==
    /\ pc[t] = "files"
    /\ dirTree' = Want[t]
    /\ locked' = locked \ {t}
    /\ Goto(t, "head")
    /\ UNCHANGED <<workerVars, dirHead, job, seenVars>>

CheckoutHead(t) ==
    /\ pc[t] = "head"
    /\ dirHead' = Want[t]
    /\ Goto(t, "verify")
    /\ UNCHANGED <<workerVars, dirTree, locked, job, seenVars>>

(* The resolved HEAD is compared with the commit asked for.                  *)
CheckoutVerifies(t) ==
    /\ pc[t] = "verify"
    /\ Goto(t, IF dirHead = Want[t] THEN "use" ELSE "halted")
    /\ UNCHANGED <<workerVars, dirVars, job, seenVars>>

(* Clone, fetch or checkout fails, another process's index.lock included.    *)
CheckoutRaises(t) ==
    /\ (pc[t] = "ready" /\ WorkerFree(t)) \/ pc[t] = "files"
    /\ locked' = locked \ {t}
    /\ Goto(t, "halted")
    /\ UNCHANGED <<workerVars, dirHead, dirTree, job, seenVars>>

-----------------------------------------------------------------------------
(* Fault: resolve_context gives way to other coroutines before it reads.     *)
ReadEvidenceLate(t) ==
    /\ job[t] = "resolve"
    /\ \/ /\ pc[t] = "use"
          /\ Goto(t, "container")
          /\ UNCHANGED <<job, evidence>>
       \/ /\ pc[t] = "container"
          /\ evidence' = [evidence EXCEPT ![t] = dirTree]
          /\ job' = [job EXCEPT ![t] = "validate"]
          /\ Goto(t, "ready")
    /\ UNCHANGED <<workerVars, dirVars, sandboxed, copyHead, copyTree, prePush>>

(* resolve_context reads its snippets; the language models are awaited next. *)
ReadEvidence(t) ==
    /\ job[t] = "resolve"
    /\ pc[t] = "use"
    /\ evidence' = [evidence EXCEPT ![t] = dirTree]
    /\ job' = [job EXCEPT ![t] = "validate"]
    /\ Goto(t, "ready")
    /\ UNCHANGED <<workerVars, dirVars, sandboxed, copyHead, copyTree, prePush>>

(* validate_fix copies the tree, patches the copy and starts the container.  *)
Materialize(t) ==
    /\ job[t] = "validate"
    /\ pc[t] = "use"
    /\ sandboxed' = [sandboxed EXCEPT ![t] = dirTree]
    /\ Goto(t, "container")
    /\ UNCHANGED <<workerVars, dirVars, job, evidence, copyHead, copyTree, prePush>>

(* The container has passed and the proposal was approved.                   *)
Approve(t) ==
    /\ job[t] = "validate"
    /\ pc[t] = "container"
    /\ job' = [job EXCEPT ![t] = "mutate"]
    /\ Goto(t, "ready")
    /\ UNCHANGED <<workerVars, dirVars, seenVars>>

-----------------------------------------------------------------------------
(* create_pull_request copies the directory file by file, in no set order.   *)
CopyHead(t) ==
    /\ job[t] = "mutate"
    /\ pc[t] = "use"
    /\ copyHead[t] = Unseen
    /\ copyHead' = [copyHead EXCEPT ![t] = dirHead]
    /\ UNCHANGED <<workerVars, dirVars, job, pc, evidence, sandboxed, copyTree, prePush>>

CopyTree(t) ==
    /\ job[t] = "mutate"
    /\ pc[t] = "use"
    /\ copyTree[t] = Unseen
    /\ copyTree' = [copyTree EXCEPT ![t] = dirTree]
    /\ UNCHANGED <<workerVars, dirVars, job, pc, evidence, sandboxed, copyHead, prePush>>

(* Fault: the copy is used whatever commit it stands on.                     *)
UseUnchecked(t) ==
    /\ pc[t] = "use"
    /\ Unseen \notin {copyHead[t], copyTree[t]}
    /\ Goto(t, "applying")
    /\ UNCHANGED <<workerVars, dirVars, job, seenVars>>

(* The copy's HEAD must be the approved commit; the row is updated next, and *)
(* the worker is free meanwhile.                                             *)
CheckHead(t) ==
    /\ pc[t] = "use"
    /\ Unseen \notin {copyHead[t], copyTree[t]}
    /\ Goto(t, IF copyHead[t] = Want[t] THEN "applying" ELSE "halted")
    /\ UNCHANGED <<workerVars, dirVars, job, seenVars>>

(* The copy is patched and its scope checked; validate_fix then materializes *)
(* source_dir, the shared directory, as it now is.                           *)
ValidateAgain(t) ==
    /\ pc[t] = "applying"
    /\ WorkerFree(t)
    /\ prePush' = [prePush EXCEPT ![t] = dirTree]
    /\ Goto(t, "recheck")
    /\ UNCHANGED <<workerVars, dirVars, job, evidence, sandboxed, copyHead, copyTree>>

(* It passed: the copy is committed on its HEAD and pushed.                  *)
Push(t) ==
    /\ pc[t] = "recheck"
    /\ Goto(t, "pushed")
    /\ UNCHANGED <<workerVars, dirVars, job, seenVars>>

(* A pipeline stops between two uses: not fixable, validation failed, patch  *)
(* rejected, nobody approves, the push fails.                                *)
Halt(t) ==
    /\ pc[t] \in {"ready", "container", "applying", "recheck"}
    /\ Goto(t, "halted")
    /\ UNCHANGED <<workerVars, dirVars, job, seenVars>>

-----------------------------------------------------------------------------
Checkout(t) ==
    \/ CheckoutStarts(t) \/ CheckoutFiles(t) \/ CheckoutHead(t)
    \/ CheckoutVerifies(t) \/ CheckoutRaises(t)

Next ==
    \E t \in Task :
        \/ Checkout(t)
        \/ ReadEvidence(t) \/ Materialize(t) \/ Approve(t)
        \/ CopyHead(t) \/ CopyTree(t) \/ CheckHead(t)
        \/ ValidateAgain(t) \/ Push(t) \/ Halt(t)

Spec == Init /\ [][Next]_vars

-----------------------------------------------------------------------------
(* What a pipeline reads, tests and copies is the tree of its own failing    *)
(* commit, although the directory is shared and every other pipeline moves   *)
(* it (repo_checkout: "ensuring exact commit alignment").                    *)
ExactCommit ==
    \A t \in Task :
        /\ evidence[t] \in {Unseen, Want[t]}
        /\ sandboxed[t] \in {Unseen, Want[t]}
        /\ copyTree[t] \in {Unseen, Want[t]}

OneProcess == \E w \in Worker : \A t \in Task : home[t] = w /\ clicked[t] = w

\* What is pushed changes the approved commit and nothing else: its parent and
\* the tree the patch was applied to are the approved commit's.
PushedIsApproved ==
    \A t \in Task : pc[t] = "pushed" => copyHead[t] = Want[t] /\ copyTree[t] = Want[t]

(* That holds when one process runs every pipeline, from the first read to   *)
(* the push: the checkout and each use of the directory that must see its    *)
(* commit lie between two awaits.                                            *)
ExactInOneProcess == OneProcess => ExactCommit /\ PushedIsApproved

(* In any number of processes, the parent of a pushed commit is the approved *)
(* commit: HEAD is checked on the private copy, not on the directory.        *)
PushedOnApprovedParent ==
    \A t \in Task : pc[t] \in {"applying", "recheck", "pushed"} => copyHead[t] = Want[t]

(* LLD 4.2, invariant 5: the pre-push validation ran on the tree that is     *)
(* then pushed.                                                              *)
PrePushIsExact ==
    \A t \in Task : pc[t] = "pushed" => prePush[t] = copyTree[t]
=============================================================================
