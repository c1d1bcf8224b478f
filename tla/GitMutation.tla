---------------------------- MODULE GitMutation ----------------------------
(***************************************************************************)
(* GitMutationService.create_pull_request with the mutations table, the    *)
(* fix branch on the remote, and GitHub's pull requests for it.            *)
(*                                                                         *)
(* All calls are for one proposal: its id, its base commit and the branch  *)
(* name are functions of the incident and the commit, so a re-triggered    *)
(* remediation meets what its predecessors left.  Calls may overlap (two   *)
(* workers) and may be lost anywhere.  Each call keeps one row under a     *)
(* mutation_id of its own; a stage named like a status is the one that     *)
(* writes it:                                                              *)
(*   preflight -> lookUp -> find -> insert -> checkout -> applying -> apply *)
(*     -> validate -> validated -> commit -> committed -> push -> pushed   *)
(*     -> createPr -> pr_created -> returned                               *)
(*                                                                         *)
(* Abstractions.  What the shared checkout does to the tree is the subject *)
(* of SharedCheckout; here a checkout, a patch or a validation succeeds or *)
(* fails.  A pull request is named by the call that opened it, a commit by *)
(* the call that made it.  Two calls make the same commit only when they   *)
(* commit in the same second.                                              *)
(***************************************************************************)
EXTENDS Naturals, FiniteSets

CONSTANTS Call, Nobody

ASSUME NobodyAssumption == Nobody \notin Call

VARIABLES
    fit,        \* the caller's objects satisfy verify_preflight_invariants
    moved,      \* the target branch has advanced past the proposal's commit
    pc,         \* stage of each call
    error,      \* what a call raised, or is about to raise
    result,     \* the pull request a returned record names
    seen,       \* the open pull request find_pull_request reported
    made,       \* commit made in the call's own working tree
    row,        \* the call's row of the mutations table
    remote,     \* commit of the fix branch on GitHub, Nobody if there is none
    pull,       \* pull requests per opener: "none", "open", "closed"
    head        \* the commit each pull request is about

givenVars == <<fit, moved>>
callVars == <<pc, error, result, seen, made>>
gitHubVars == <<remote, pull, head>>
vars == <<givenVars, callVars, row, gitHubVars>>

Marks == {"applying", "validated", "committed", "pushed", "pr_created", "failed"}
MutationStatus == Marks \cup {"pending"}
Stage == {"preflight", "lookUp", "find", "adopt", "insert", "checkout", "apply",
          "validate", "commit", "push", "createPr"} \cup Marks
Ended == {"returned", "raised", "lost"}
Errors == {"Preflight", "MultipleRows", "GitHub", "Database", "Checkout",
           "StaleCommit", "Patch", "Validation", "Push"}

Row == [status : MutationStatus, validation : {"none", "passed", "failed"},
        sha : Call \cup {Nobody}, pr : Call \cup {Nobody}]
NoRow == [status |-> "none", validation |-> "none", sha |-> Nobody, pr |-> Nobody]

TypeOK ==
    /\ fit \in [Call -> BOOLEAN]
    /\ moved \in BOOLEAN
    /\ pc \in [Call -> Stage \cup Ended]
    /\ error \in [Call -> Errors \cup {"none"}]
    /\ result \in [Call -> Call \cup {Nobody}]
    /\ seen \in [Call -> Call \cup {Nobody}]
    /\ made \in [Call -> Call \cup {Nobody}]
    /\ row \in [Call -> Row \cup {NoRow}]
    /\ remote \in Call \cup {Nobody}
    /\ pull \in [Call -> {"none", "open", "closed"}]
    /\ head \in [Call -> Call \cup {Nobody}]

Init ==
    /\ fit \in [Call -> BOOLEAN]
    /\ moved = FALSE
    /\ pc = [c \in Call |-> "preflight"]
    /\ error = [c \in Call |-> "none"]
    /\ result = [c \in Call |-> Nobody]
    /\ seen = [c \in Call |-> Nobody]
    /\ made = [c \in Call |-> Nobody]
    /\ row = [c \in Call |-> NoRow]
    /\ remote = Nobody
    /\ pull = [c \in Call |-> "none"]
    /\ head = [c \in Call |-> Nobody]

-----------------------------------------------------------------------------
Goto(c, stage) == pc' = [pc EXCEPT ![c] = stage]
Raise(c, e) == Goto(c, "raised") /\ error' = [error EXCEPT ![c] = e]

(* "update the row to FAILED, then raise".                                   *)
FailWith(c, e) == Goto(c, "failed") /\ error' = [error EXCEPT ![c] = e]

Return(c, p) == Goto(c, "returned") /\ result' = [result EXCEPT ![c] = p]

Rows == {d \in Call : row[d] # NoRow}
OpenPulls == {d \in Call : pull[d] = "open"}

-----------------------------------------------------------------------------
(* Validity, validation, approval and commit equality, before anything else. *)
Preflight(c) ==
    /\ pc[c] = "preflight"
    /\ \/ fit[c] /\ Goto(c, "lookUp") /\ UNCHANGED error
       \/ ~fit[c] /\ Raise(c, "Preflight")
    /\ UNCHANGED <<givenVars, result, seen, made, row, gitHubVars>>

(* Fault: a row found is returned whatever its status.                       *)
LookUpAnyRow(c) ==
    /\ pc[c] = "lookUp"
    /\ \/ /\ \E d \in Rows : Return(c, row[d].pr)
          /\ UNCHANGED error
       \/ /\ Rows = {}
          /\ Goto(c, "find")
          /\ UNCHANGED <<error, result>>
    /\ UNCHANGED <<givenVars, seen, made, row, gitHubVars>>

(* get_by_proposal_and_commit ends in scalar_one_or_none: a second row for   *)
(* the proposal makes it raise.  A finished row is returned as it is.        *)
LookUp(c) ==
    /\ pc[c] = "lookUp"
    /\ \/ /\ Cardinality(Rows) > 1
          /\ Raise(c, "MultipleRows")
          /\ UNCHANGED result
       \/ /\ \E d \in Call : /\ Rows = {d}
                             /\ row[d].status = "pr_created"
                             /\ Return(c, row[d].pr)
          /\ UNCHANGED error
       \/ /\ Cardinality(Rows) <= 1
          /\ \A d \in Rows : row[d].status # "pr_created"
          /\ Goto(c, "find")
          /\ UNCHANGED <<error, result>>
    /\ UNCHANGED <<givenVars, seen, made, row, gitHubVars>>

(* The open pull request of the branch, if GitHub answers.                   *)
FindPull(c) ==
    /\ pc[c] = "find"
    /\ \/ /\ OpenPulls = {}
          /\ Goto(c, "insert")
          /\ UNCHANGED <<error, seen>>
       \/ /\ \E d \in OpenPulls : seen' = [seen EXCEPT ![c] = d]
          /\ Goto(c, "adopt")
          /\ UNCHANGED error
       \/ Raise(c, "GitHub") /\ UNCHANGED seen
    /\ UNCHANGED <<givenVars, result, made, row, gitHubVars>>

(* The row of a pull request somebody else opened, and the record returned.  *)
Adopt(c) ==
    /\ pc[c] = "adopt"
    /\ row' = [row EXCEPT ![c] = [status |-> "pr_created", validation |-> "passed",
                                  sha |-> head[seen[c]], pr |-> seen[c]]]
    /\ Return(c, seen[c])
    /\ UNCHANGED <<givenVars, error, seen, made, gitHubVars>>

(* Fault: a status the table does not know.                                  *)
InsertCreated(c) ==
    /\ pc[c] = "insert"
    /\ row' = [row EXCEPT ![c] = [NoRow EXCEPT !.status = "created"]]
    /\ Goto(c, "checkout")
    /\ UNCHANGED <<givenVars, error, result, seen, made, gitHubVars>>

(* A row is always inserted, whatever rows the proposal already has.         *)
Insert(c) ==
    /\ pc[c] = "insert"
    /\ row' = [row EXCEPT ![c] = [NoRow EXCEPT !.status = "pending"]]
    /\ Goto(c, "checkout")
    /\ UNCHANGED <<givenVars, error, result, seen, made, gitHubVars>>

(* A checkout that raises leaves the row pending.  HEAD of the copy, where   *)
(* the approved commit was just checked out, must be that commit; the target *)
(* branch is not looked at, it is the base of the pull request only.         *)
Checkout(c) ==
    /\ pc[c] = "checkout"
    /\ \/ Goto(c, "applying") /\ UNCHANGED error
       \/ Raise(c, "Checkout")
       \/ FailWith(c, "StaleCommit")
    /\ UNCHANGED <<givenVars, result, seen, made, row, gitHubVars>>

(* git apply --check, git apply, untracked files, changed files.             *)
ApplyPatch(c) ==
    /\ pc[c] = "apply"
    /\ \/ Goto(c, "validate") /\ UNCHANGED error
       \/ FailWith(c, "Patch")
    /\ UNCHANGED <<givenVars, result, seen, made, row, gitHubVars>>

(* Fault: a pre-push validation that did not pass is recorded and ignored.   *)
ValidateLeniently(c) ==
    /\ pc[c] = "validate"
    /\ \E next \in {"validated", "commit"} : Goto(c, next)
    /\ UNCHANGED <<givenVars, error, result, seen, made, row, gitHubVars>>

Validate(c) ==
    /\ pc[c] = "validate"
    /\ \/ Goto(c, "validated") /\ UNCHANGED error
       \/ FailWith(c, "Validation")
    /\ UNCHANGED <<givenVars, result, seen, made, row, gitHubVars>>

(* The commit depends on the second it is made in and on nothing else that   *)
(* differs between two calls.                                                *)
MakeCommit(c) ==
    /\ pc[c] = "commit"
    /\ \E s \in {c} \cup {made[d] : d \in {e \in Call : pc[e] \in {"committed", "push"}}} :
            made' = [made EXCEPT ![c] = s]
    /\ Goto(c, "committed")
    /\ UNCHANGED <<givenVars, error, result, seen, row, gitHubVars>>

(* Without --force: a branch that holds another commit rejects the push, and *)
(* an accepted push may still be reported as failed.  The directory is a copy*)
(* of a clone, so the code's branch for a repository that has no remote      *)
(* called origin, which pushes nothing and goes on, is never taken.          *)
Push(c) ==
    /\ pc[c] = "push"
    /\ \/ /\ remote \in {Nobody, made[c]}
          /\ remote' = made[c]
          /\ Goto(c, "pushed")
          /\ UNCHANGED error
       \/ /\ \E r \in {remote} \cup (IF remote = Nobody THEN {made[c]} ELSE {}) : remote' = r
          /\ Raise(c, "Push")
    /\ UNCHANGED <<givenVars, result, seen, made, row, pull, head>>

(* GitHub opens a pull request for a branch that exists and has none open.   *)
Opened(c) ==
    /\ OpenPulls = {} /\ remote # Nobody
    /\ pull' = [pull EXCEPT ![c] = "open"]
    /\ head' = [head EXCEPT ![c] = remote]

(* Fault: an error of GitHub marks the row failed, whatever GitHub did.      *)
CreatePullOrFail(c) ==
    /\ pc[c] = "createPr"
    /\ \/ Opened(c) /\ Goto(c, "pr_created") /\ UNCHANGED error
       \/ (Opened(c) \/ UNCHANGED <<pull, head>>) /\ FailWith(c, "GitHub")
    /\ UNCHANGED <<givenVars, result, seen, made, row, remote>>

(* The request may be refused, and an accepted one may be reported as error. *)
CreatePull(c) ==
    /\ pc[c] = "createPr"
    /\ \/ Opened(c) /\ Goto(c, "pr_created") /\ UNCHANGED error
       \/ (Opened(c) \/ UNCHANGED <<pull, head>>) /\ Raise(c, "GitHub")
    /\ UNCHANGED <<givenVars, result, seen, made, row, remote>>

(* Columns written together with each status.                                *)
MarkedRow(c) ==
    LET s == pc[c]
    IN  [status |-> s,
         validation |-> CASE s = "validated" -> "passed"
                          [] s = "failed" /\ error[c] = "Validation" -> "failed"
                          [] OTHER -> row[c].validation,
         sha |-> IF s = "committed" THEN made[c] ELSE row[c].sha,
         pr |-> IF s = "pr_created" THEN c ELSE row[c].pr]

Marked(c) == [row EXCEPT ![c] = MarkedRow(c)]

NextStage == [applying |-> "apply", validated |-> "commit", committed |-> "push",
              pushed |-> "createPr", pr_created |-> "returned", failed |-> "raised"]

(* update_status, each in a session of its own.                              *)
Mark(c) ==
    /\ pc[c] \in Marks
    /\ row' = Marked(c)
    /\ Goto(c, NextStage[pc[c]])
    /\ result' = IF pc[c] = "pr_created" THEN [result EXCEPT ![c] = c] ELSE result
    /\ UNCHANGED <<givenVars, error, seen, made, gitHubVars>>

(* The database raises instead, before or after its commit.                  *)
MarkRaises(c) ==
    /\ pc[c] \in Marks
    /\ row' \in {row, Marked(c)}
    /\ Raise(c, "Database")
    /\ UNCHANGED <<givenVars, result, seen, made, gitHubVars>>

(* The process dies, or something outside the modelled checks raises.        *)
Lose(c) ==
    /\ pc[c] \in Stage \ {"preflight"}
    /\ Goto(c, "lost")
    /\ UNCHANGED <<givenVars, error, result, seen, made, row, gitHubVars>>

(* A maintainer merges or closes the pull request ...                        *)
ClosePull(c) ==
    /\ pull[c] = "open"
    /\ pull' = [pull EXCEPT ![c] = "closed"]
    /\ UNCHANGED <<givenVars, callVars, row, remote, head>>

(* ... or deletes the branch, which closes what is open on it.               *)
DeleteBranch ==
    /\ remote # Nobody
    /\ remote' = Nobody
    /\ pull' = [c \in Call |-> IF pull[c] = "open" THEN "closed" ELSE pull[c]]
    /\ UNCHANGED <<givenVars, callVars, row, head>>

(* Others push to the target branch while the approval waits.                *)
TargetAdvances ==
    /\ ~moved
    /\ moved' = TRUE
    /\ UNCHANGED <<fit, callVars, row, gitHubVars>>

-----------------------------------------------------------------------------
Next ==
    \/ \E c \in Call :
        \/ Preflight(c) \/ LookUp(c) \/ FindPull(c) \/ Adopt(c) \/ Insert(c)
        \/ Checkout(c) \/ ApplyPatch(c) \/ Validate(c) \/ MakeCommit(c)
        \/ Push(c) \/ CreatePull(c) \/ Mark(c) \/ MarkRaises(c)
        \/ Lose(c) \/ ClosePull(c)
    \/ DeleteBranch \/ TargetAdvances

Spec == Init /\ [][Next]_vars

-----------------------------------------------------------------------------
(* What a maintainer can see on GitHub is accounted for in the table: the    *)
(* commit of the fix branch and that of every pull request, even of one      *)
(* whose creation was reported as an error, is in a row of an approved call  *)
(* whose pre-push validation passed (ADR-0007, "zero unverified or           *)
(* autonomous code pushes", "complete traceability").                        *)
Accounts(d, s) ==
    /\ fit[d]
    /\ row[d].sha = s
    /\ row[d].validation = "passed"
    /\ row[d].status \in {"committed", "pushed", "pr_created"}

GitHubIsTraceable ==
    /\ remote # Nobody => \E d \in Call : Accounts(d, remote)
    /\ \A c \in Call : pull[c] # "none" => \E d \in Call : Accounts(d, head[c])

(* A record that says pr_created, and a record that is returned, names a     *)
(* pull request that was opened; a returned one is in the table.             *)
RecordedPullExists ==
    \A c \in Call :
        /\ row[c].status = "pr_created" =>
              row[c].pr # Nobody /\ pull[row[c].pr] # "none"
        /\ pc[c] = "returned" =>
              /\ result[c] # Nobody
              /\ \E d \in Call : row[d].status = "pr_created" /\ row[d].pr = result[c]

(* A call that recorded its failure left nothing on GitHub: no commit of its *)
(* own on the branch, no pull request.                                       *)
FailedLeftNothing ==
    \A c \in Call :
        row[c].status = "failed" =>
            pull[c] = "none" /\ remote # c /\ \A d \in Call : head[d] # c

(* What resume_approval sees of a call, and whether GitHub has something to  *)
(* show for the proposal.                                                    *)
OutcomeOf(stage) ==
    CASE stage = "returned" -> "record"
      [] stage \in {"raised", "lost"} -> "error"
      [] OTHER -> "running"

OutcomeMap == [c \in Call |-> OutcomeOf(pc[c])]
HasPull == \E c \in Call : pull[c] # "none"

Promise == INSTANCE MutationOutcome WITH outcome <- OutcomeMap, opened <- HasPull

(* A call gives back a record only for a pull request that GitHub has, one   *)
(* of its own, of an earlier call or of a row it found; none is ever taken   *)
(* back, whatever the table says of it.                                      *)
ImplementsPromise == Promise!OutcomeSpec

(* ADR-0007, "Idempotency": with a created pull request on record, a call    *)
(* returns its metadata.                                                     *)
ExistingPullReturned ==
    [][\A c \in Call :
          (/\ pc[c] = "lookUp"
           /\ \E d \in Call : row[d].status = "pr_created")
              => pc'[c] \in {"lookUp", "returned", "lost"}]_vars

(* HLD section 7, "Stale Commit on Target Branch": a call that finds the     *)
(* target branch advanced past the failing commit halts.                     *)
StaleTargetHalts ==
    [][\A c \in Call :
          moved /\ pc[c] = "checkout" =>
              pc'[c] \in {"checkout", "failed", "raised", "lost"}]_vars
=============================================================================
