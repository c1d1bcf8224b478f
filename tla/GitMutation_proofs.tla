------------------------- MODULE GitMutation_proofs -------------------------
(***************************************************************************)
(* Proofs about GitMutation for any number of calls.                       *)
(*                                                                         *)
(* The properties speak of rows, commits and pull requests that several    *)
(* calls share; what makes them inductive is what each stage of one call   *)
(* says about the call's own row (StageFacts), and that a commit somewhere *)
(* in the system was made by the call it is named after (Origin).          *)
(***************************************************************************)
EXTENDS GitMutation, TLAPS

(* Stages before the call has a row, while the row may still fail, between   *)
(* the validation and the recorded commit, and when the commit is recorded.  *)
Early == {"preflight", "lookUp", "find", "adopt", "insert"}
Working == {"checkout", "applying", "apply", "validate", "validated", "failed"}
Committing == {"commit", "committed"}
Public == {"push", "pushed", "createPr", "pr_created"}

RowFacts(c) ==
    /\ pc[c] \in Early => row[c] = NoRow
    /\ pc[c] \in Working => row[c].status \in {"pending", "applying"}
    /\ pc[c] \in Committing => row[c].status = "validated" /\ row[c].validation = "passed"
    /\ pc[c] \in Public => Accounts(c, made[c]) /\ row[c].status # "pr_created"
    /\ row[c].status = "failed" =>
          pc[c] = "raised" /\ made[c] = Nobody /\ pull[c] = "none"

CommitFacts(c) ==
    /\ pc[c] \in Early \cup Working \cup {"commit"} => made[c] = Nobody
    /\ pc[c] \in Public \cup {"committed"} => made[c] # Nobody

PullFacts(c) ==
    /\ pc[c] \notin {"preflight", "raised", "lost"} => fit[c]
    /\ pc[c] \in Early \cup Working \cup Committing => pull[c] = "none"
    /\ pc[c] = "adopt" => seen[c] # Nobody /\ pull[seen[c]] # "none"
    /\ pc[c] = "pr_created" => pull[c] # "none"
    /\ pull[c] # "none" => head[c] # Nobody

Origin ==
    /\ \A c \in Call : made[c] # Nobody => made[made[c]] = made[c]
    /\ remote # Nobody => made[remote] = remote
    /\ \A c \in Call : head[c] # Nobody => made[head[c]] = head[c]

StageFacts == \A c \in Call : RowFacts(c) /\ CommitFacts(c) /\ PullFacts(c)

MutationInv ==
    /\ TypeOK
    /\ StageFacts
    /\ Origin
    /\ GitHubIsTraceable
    /\ RecordedPullExists
(* All the calls and their tables look at: the target branch is not part of  *)
(* it, so its moves change nothing below.                                    *)
workVars == <<fit, callVars, row, gitHubVars>>

USE DEF givenVars, workVars, TargetAdvances

-----------------------------------------------------------------------------
(* Fields of a stored row.                                                   *)
LEMMA RowFields ==
    ASSUME TypeOK, NEW c \in Call
    PROVE  /\ row[c].sha \in Call \cup {Nobody}
           /\ row[c].pr \in Call \cup {Nobody}
           /\ row[c].validation \in {"none", "passed", "failed"}
  BY DEF TypeOK, Row, NoRow

(* The row update_status writes is a row.                                    *)
LEMMA MarkedType ==
    ASSUME TypeOK, NEW c \in Call, pc[c] \in Marks
    PROVE  MarkedRow(c) \in Row
<1>1. MarkedRow(c).validation \in {"none", "passed", "failed"}
  BY RowFields DEF MarkedRow
<1>2. /\ MarkedRow(c).sha \in Call \cup {Nobody}
      /\ MarkedRow(c).pr \in Call \cup {Nobody}
  BY RowFields DEF MarkedRow, TypeOK
<1> QED
  BY <1>1, <1>2 DEF MarkedRow, Row, MutationStatus

LEMMA InitMutationInv == Init => MutationInv
<1> SUFFICES ASSUME Init PROVE MutationInv
  OBVIOUS
<1>1. TypeOK
  <2>1. moved \in BOOLEAN
    BY DEF Init
  <2> QED
    BY NobodyAssumption, <2>1 DEF Init, TypeOK, Stage, Ended, Errors
<1>2. StageFacts /\ Origin /\ GitHubIsTraceable /\ RecordedPullExists
  BY NobodyAssumption
  DEF Init, StageFacts, RowFacts, CommitFacts, PullFacts, Origin, GitHubIsTraceable,
      RecordedPullExists, Accounts, Early, Working, Committing, Public, NoRow
<1> QED
  BY <1>1, <1>2 DEF MutationInv

-----------------------------------------------------------------------------
LEMMA TypeStep == TypeOK /\ StageFacts /\ [Next]_vars => TypeOK'
<1> SUFFICES ASSUME TypeOK, StageFacts, [Next]_vars PROVE TypeOK'
  OBVIOUS
<1> USE NobodyAssumption
        DEF TypeOK, Goto, Raise, FailWith, Return, Stage, Marks, Ended, Errors
<1>1. CASE UNCHANGED vars
  BY <1>1 DEF vars, callVars, gitHubVars
<1>2. ASSUME NEW c \in Call, Preflight(c) \/ FindPull(c) \/ Lose(c) PROVE TypeOK'
  BY <1>2 DEF Preflight, FindPull, Lose, OpenPulls, gitHubVars
<1>3. ASSUME NEW c \in Call, LookUp(c) PROVE TypeOK'
  <2>1. \A d \in Call : row[d].pr \in Call \cup {Nobody}
    BY DEF Row, NoRow
  <2> QED
    BY <1>3, <2>1 DEF LookUp, gitHubVars
<1>4. ASSUME NEW c \in Call, Checkout(c) \/ ApplyPatch(c) \/ Validate(c) PROVE TypeOK'
  BY <1>4 DEF Checkout, ApplyPatch, Validate, gitHubVars
<1>5. ASSUME NEW c \in Call, Adopt(c) PROVE TypeOK'
  <2>1. seen[c] \in Call /\ head[seen[c]] \in Call \cup {Nobody}
    BY <1>5 DEF Adopt, StageFacts, PullFacts
  <2> DEFINE r == [status |-> "pr_created", validation |-> "passed",
                   sha |-> head[seen[c]], pr |-> seen[c]]
  <2>2. r \in Row
    BY <2>1 DEF Row, MutationStatus
  <2>3. row' = [row EXCEPT ![c] = r]
    BY <1>5 DEF Adopt
  <2> QED
    BY <1>5, <2>1, <2>2, <2>3 DEF Adopt, gitHubVars
<1>51. ASSUME NEW c \in Call, Insert(c) PROVE TypeOK'
  <2>1. [NoRow EXCEPT !.status = "pending"] \in Row
    BY DEF NoRow, Row, MutationStatus
  <2> QED
    BY <1>51, <2>1 DEF Insert, gitHubVars
<1>6. ASSUME NEW c \in Call, MakeCommit(c) PROVE TypeOK'
  BY <1>6 DEF MakeCommit, gitHubVars
<1>7. ASSUME NEW c \in Call, Push(c) PROVE TypeOK'
  BY <1>7 DEF Push
<1>8. ASSUME NEW c \in Call, CreatePull(c) PROVE TypeOK'
  BY <1>8 DEF CreatePull, Opened
<1>9. ASSUME NEW c \in Call, Mark(c) \/ MarkRaises(c) PROVE TypeOK'
  BY <1>9, MarkedType DEF Mark, MarkRaises, Marked, NextStage, gitHubVars
<1>10. ASSUME NEW c \in Call, ClosePull(c) PROVE TypeOK'
  BY <1>10 DEF ClosePull, callVars
<1>11. CASE DeleteBranch
  BY <1>11 DEF DeleteBranch, callVars
<1>12. CASE TargetAdvances
  <2>1. moved' \in BOOLEAN
    BY <1>12
  <2> QED
    BY <1>12, <2>1 DEF callVars, gitHubVars
<1> QED
  BY <1>1, <1>2, <1>3, <1>4, <1>5, <1>51, <1>6, <1>7, <1>8, <1>9, <1>10, <1>11, <1>12
  DEF Next
-----------------------------------------------------------------------------
(* What each stage says about the call's own row.                            *)
LEMMA RowStep ==
    TypeOK /\ StageFacts /\ [Next]_vars => \A e \in Call : RowFacts(e)'
<1> SUFFICES ASSUME TypeOK, StageFacts, [Next]_vars, NEW e \in Call
             PROVE  RowFacts(e)'
  OBVIOUS
<1> USE NobodyAssumption
        DEF TypeOK, StageFacts, RowFacts, Early, Working, Committing, Public, Goto,
            Raise, FailWith, Return, Accounts
<1>1. CASE UNCHANGED workVars
  BY <1>1 DEF callVars, gitHubVars
<1>2. ASSUME NEW c \in Call, Preflight(c) \/ FindPull(c) \/ LookUp(c)
      PROVE  RowFacts(e)'
  BY <1>2 DEF Preflight, FindPull, LookUp, gitHubVars, NoRow
<1>3. ASSUME NEW c \in Call, Checkout(c) \/ ApplyPatch(c) \/ Validate(c)
      PROVE  RowFacts(e)'
  BY <1>3 DEF Checkout, ApplyPatch, Validate, gitHubVars, NoRow
<1>4. ASSUME NEW c \in Call, Lose(c) PROVE RowFacts(e)'
  BY <1>4 DEF Lose, gitHubVars, Stage, Marks, NoRow
<1>5. ASSUME NEW c \in Call, Adopt(c) \/ Insert(c) PROVE RowFacts(e)'
  BY <1>5 DEF Adopt, Insert, gitHubVars, NoRow
<1>6. ASSUME NEW c \in Call, MakeCommit(c) PROVE RowFacts(e)'
  BY <1>6 DEF MakeCommit, gitHubVars, NoRow
<1>7. ASSUME NEW c \in Call, Push(c) \/ CreatePull(c) PROVE RowFacts(e)'
  BY <1>7 DEF Push, CreatePull, Opened, NoRow
<1>8. ASSUME NEW c \in Call, Mark(c) \/ MarkRaises(c) PROVE RowFacts(e)'
  <2>1. CASE e # c
    BY <1>8, <2>1 DEF Mark, MarkRaises, Marked, NextStage, gitHubVars
  <2>2. CASE e = c /\ row' = row
    BY <1>8, <2>2 DEF Mark, MarkRaises, NextStage, gitHubVars, Marks, Marked, MarkedRow, PullFacts, CommitFacts
  <2>3. CASE e = c /\ row'[c] = MarkedRow(c)
    BY <1>8, <2>3 DEF Mark, MarkRaises, NextStage, gitHubVars, Marks, MarkedRow, PullFacts, CommitFacts
  <2> QED
    BY <1>8, <2>1, <2>2, <2>3 DEF Mark, MarkRaises, Marked
<1>9. ASSUME NEW c \in Call, ClosePull(c) PROVE RowFacts(e)'
  BY <1>9 DEF ClosePull, callVars
<1>10. CASE DeleteBranch
  BY <1>10 DEF DeleteBranch, callVars
<1> QED
  BY <1>1, <1>2, <1>3, <1>4, <1>5, <1>6, <1>7, <1>8, <1>9, <1>10 DEF Next, vars
-----------------------------------------------------------------------------
(* A call has a commit from MakeCommit on; it is its own or that of a call   *)
(* that made it in the same second.                                          *)
LEMMA CommitStep ==
    TypeOK /\ StageFacts /\ Origin /\ [Next]_vars
      => Origin' /\ \A e \in Call : CommitFacts(e)'
<1> SUFFICES ASSUME TypeOK, StageFacts, Origin, [Next]_vars
             PROVE  Origin' /\ \A e \in Call : CommitFacts(e)'
  OBVIOUS
<1> USE NobodyAssumption
        DEF TypeOK, StageFacts, CommitFacts, Origin, Early, Working, Public, Goto,
            Raise, FailWith, Return
<1>1. CASE UNCHANGED workVars
  BY <1>1 DEF callVars, gitHubVars
<1>2. ASSUME NEW c \in Call, Preflight(c) \/ FindPull(c) \/ LookUp(c)
      PROVE  Origin' /\ \A e \in Call : CommitFacts(e)'
  BY <1>2 DEF Preflight, FindPull, LookUp, gitHubVars
<1>3. ASSUME NEW c \in Call, Checkout(c) \/ ApplyPatch(c) \/ Validate(c)
      PROVE  Origin' /\ \A e \in Call : CommitFacts(e)'
  BY <1>3 DEF Checkout, ApplyPatch, Validate, gitHubVars
<1>4. ASSUME NEW c \in Call, Lose(c) \/ Adopt(c) \/ Insert(c)
      PROVE  Origin' /\ \A e \in Call : CommitFacts(e)'
  BY <1>4 DEF Lose, Adopt, Insert, gitHubVars
<1>5. ASSUME NEW c \in Call, MakeCommit(c)
      PROVE  Origin' /\ \A e \in Call : CommitFacts(e)'
  <2>1. PICK s \in {c} \cup {made[d] : d \in {e \in Call : pc[e] \in {"committed", "push"}}} :
            made' = [made EXCEPT ![c] = s]
    BY <1>5 DEF MakeCommit
  <2>2. made[c] = Nobody
    BY <1>5 DEF MakeCommit
  <2>3. s \in Call /\ (s = c \/ made[s] = s)
    BY <2>1
  <2>4. \A e \in Call \ {c} : made'[e] = made[e]
    BY <2>1
  <2>5. made'[c] = s
    BY <2>1
  <2>6. UNCHANGED <<remote, head>>
    BY <1>5 DEF MakeCommit, gitHubVars
  <2>7. Origin'
    BY <2>2, <2>3, <2>4, <2>5, <2>6
  <2>8. \A e \in Call : CommitFacts(e)'
    BY <1>5, <2>3, <2>4, <2>5 DEF MakeCommit
  <2> QED
    BY <2>7, <2>8
<1>6. ASSUME NEW c \in Call, Push(c)
      PROVE  Origin' /\ \A e \in Call : CommitFacts(e)'
  BY <1>6 DEF Push
<1>7. ASSUME NEW c \in Call, CreatePull(c)
      PROVE  Origin' /\ \A e \in Call : CommitFacts(e)'
  BY <1>7 DEF CreatePull, Opened
<1>8. ASSUME NEW c \in Call, Mark(c) \/ MarkRaises(c)
      PROVE  Origin' /\ \A e \in Call : CommitFacts(e)'
  BY <1>8 DEF Mark, MarkRaises, NextStage, Marks, gitHubVars
<1>9. ASSUME NEW c \in Call, ClosePull(c)
      PROVE  Origin' /\ \A e \in Call : CommitFacts(e)'
  BY <1>9 DEF ClosePull, callVars
<1>10. CASE DeleteBranch
  BY <1>10 DEF DeleteBranch, callVars
<1> QED
  BY <1>1, <1>2, <1>3, <1>4, <1>5, <1>6, <1>7, <1>8, <1>9, <1>10 DEF Next, vars

-----------------------------------------------------------------------------
(* A pull request that exists is closed at most, never forgotten.            *)
LEMMA PullsRemain ==
    ASSUME TypeOK, [Next]_vars, NEW e \in Call, pull[e] # "none"
    PROVE  pull'[e] # "none"
<1> USE DEF TypeOK
<1>1. CASE UNCHANGED workVars
  BY <1>1 DEF gitHubVars
<1>2. ASSUME NEW c \in Call, CreatePull(c) \/ ClosePull(c) PROVE pull'[e] # "none"
  BY <1>2 DEF CreatePull, ClosePull, Opened
<1>3. CASE DeleteBranch
  BY <1>3 DEF DeleteBranch
<1> QED
  BY <1>1, <1>2, <1>3
  DEF Next, vars, gitHubVars, Preflight, LookUp, FindPull, Adopt, Insert, Checkout, ApplyPatch,
      Validate, MakeCommit, Push, Mark, MarkRaises, Lose

LEMMA PullStep ==
    TypeOK /\ StageFacts /\ [Next]_vars => \A e \in Call : PullFacts(e)'
<1> SUFFICES ASSUME TypeOK, StageFacts, [Next]_vars, NEW e \in Call
             PROVE  PullFacts(e)'
  OBVIOUS
<1> USE NobodyAssumption
        DEF TypeOK, StageFacts, PullFacts, Early, Working, Committing, Goto, Raise,
            FailWith, Return
<1>1. CASE UNCHANGED workVars
  BY <1>1 DEF callVars, gitHubVars
<1>2. ASSUME NEW c \in Call, Preflight(c) \/ LookUp(c) PROVE PullFacts(e)'
  BY <1>2 DEF Preflight, LookUp, gitHubVars
<1>3. ASSUME NEW c \in Call, FindPull(c) PROVE PullFacts(e)'
  BY <1>3 DEF FindPull, OpenPulls, gitHubVars
<1>4. ASSUME NEW c \in Call, Checkout(c) \/ ApplyPatch(c) \/ Validate(c)
      PROVE  PullFacts(e)'
  BY <1>4 DEF Checkout, ApplyPatch, Validate, gitHubVars
<1>5. ASSUME NEW c \in Call, Lose(c) \/ Adopt(c) \/ Insert(c) \/ MakeCommit(c)
      PROVE  PullFacts(e)'
  BY <1>5 DEF Lose, Adopt, Insert, MakeCommit, Stage, Marks, gitHubVars
<1>6. ASSUME NEW c \in Call, Push(c) PROVE PullFacts(e)'
  BY <1>6 DEF Push
<1>7. ASSUME NEW c \in Call, CreatePull(c) PROVE PullFacts(e)'
  BY <1>7, PullsRemain DEF CreatePull, Opened
<1>8. ASSUME NEW c \in Call, Mark(c) \/ MarkRaises(c) PROVE PullFacts(e)'
  BY <1>8 DEF Mark, MarkRaises, NextStage, Marks, gitHubVars
<1>9. ASSUME NEW c \in Call, ClosePull(c) PROVE PullFacts(e)'
  BY <1>9, PullsRemain DEF ClosePull, callVars
<1>10. CASE DeleteBranch
  BY <1>10, PullsRemain DEF DeleteBranch, callVars
<1> QED
  BY <1>1, <1>2, <1>3, <1>4, <1>5, <1>6, <1>7, <1>8, <1>9, <1>10 DEF Next, vars
-----------------------------------------------------------------------------
(* A commit once accounted for stays so: its row is past the stages that     *)
(* overwrite it.                                                             *)
LEMMA AccountsRemain ==
    ASSUME TypeOK, StageFacts, [Next]_vars
    PROVE  \A d, s \in Call : Accounts(d, s) => Accounts(d, s)'
<1> SUFFICES ASSUME NEW d \in Call, NEW s \in Call, Accounts(d, s)
             PROVE  Accounts(d, s)'
  OBVIOUS
<1> USE DEF TypeOK, StageFacts, RowFacts, Accounts, Early, Working, Committing, Public
<1>1. CASE UNCHANGED workVars
  BY <1>1
<1>2. ASSUME NEW c \in Call, Adopt(c) \/ Insert(c) PROVE Accounts(d, s)'
  BY <1>2 DEF Adopt, Insert, NoRow
<1>3. ASSUME NEW c \in Call, Mark(c) \/ MarkRaises(c) PROVE Accounts(d, s)'
  <2>1. CASE d # c \/ row' = row
    BY <1>3, <2>1 DEF Mark, MarkRaises, Marked
  <2>2. CASE d = c /\ row'[c] = MarkedRow(c)
    BY <1>3, <2>2 DEF Mark, MarkRaises, Marks, MarkedRow
  <2> QED
    BY <1>3, <2>1, <2>2 DEF Mark, MarkRaises, Marked
<1> QED
  BY <1>1, <1>2, <1>3
  DEF Next, vars, Preflight, LookUp, FindPull, Checkout, ApplyPatch, Validate, MakeCommit,
      Push, CreatePull, Lose, ClosePull, DeleteBranch, callVars

LEMMA TraceStep ==
    TypeOK /\ StageFacts /\ GitHubIsTraceable /\ [Next]_vars => GitHubIsTraceable'
<1> SUFFICES ASSUME TypeOK, StageFacts, GitHubIsTraceable, [Next]_vars
             PROVE  GitHubIsTraceable'
  OBVIOUS
<1>1. \A s \in Call : (\E d \in Call : Accounts(d, s)) => \E d \in Call : Accounts(d, s)'
  BY AccountsRemain
<1>2. TypeOK'
  BY TypeStep
<1>3. ASSUME remote' # Nobody PROVE \E d \in Call : Accounts(d, remote)'
  <2>1. CASE remote' = remote
    BY <1>1, <1>3, <2>1 DEF GitHubIsTraceable, TypeOK, Accounts
  <2>2. ASSUME NEW c \in Call, Push(c), remote' = made[c]
        PROVE  \E d \in Call : Accounts(d, remote)'
    <3>1. made[c] \in Call /\ Accounts(c, made[c])
      BY <2>2 DEF Push, TypeOK, StageFacts, RowFacts, CommitFacts, Public
    <3> QED
      BY <1>1, <2>2, <3>1 DEF Accounts
  <2>3. remote' = remote \/ remote' = Nobody \/ \E c \in Call : Push(c) /\ remote' = made[c]
    BY DEF Next, vars, gitHubVars, Preflight, LookUp, FindPull, Adopt, Insert, Checkout,
       ApplyPatch, Validate, MakeCommit, Push, CreatePull, Mark, MarkRaises, Lose,
       ClosePull, DeleteBranch
  <2> QED
    BY <1>3, <2>1, <2>2, <2>3
<1>4. ASSUME NEW c \in Call, pull'[c] # "none"
      PROVE  \E d \in Call : Accounts(d, head[c])'
  <2>1. CASE pull[c] # "none" /\ head'[c] = head[c]
    <3>1. PICK d \in Call : Accounts(d, head[c])
      BY <2>1 DEF GitHubIsTraceable
    <3>2. head[c] \in Call
      BY <2>1 DEF TypeOK, StageFacts, PullFacts
    <3> QED
      BY <1>1, <2>1, <3>1, <3>2 DEF Accounts
  <2>2. CASE Opened(c)
    <3>1. remote \in Call /\ head'[c] = remote
      BY <2>2 DEF Opened, TypeOK
    <3> QED
      BY <1>1, <2>2, <3>1 DEF GitHubIsTraceable, Opened, Accounts
  <2>3. (pull[c] # "none" /\ head'[c] = head[c]) \/ Opened(c)
    BY <1>4
    DEF TypeOK, Next, vars, gitHubVars, Preflight, LookUp, FindPull, Adopt, Insert,
        Checkout, ApplyPatch, Validate, MakeCommit, Push, CreatePull, Opened, Mark,
        MarkRaises, Lose, ClosePull, DeleteBranch
  <2> QED
    BY <2>1, <2>2, <2>3
<1> QED
  BY <1>3, <1>4 DEF GitHubIsTraceable

-----------------------------------------------------------------------------
(* A row that names a pull request belongs to a call that has finished.      *)
LEMMA FinishedRowsRemain ==
    ASSUME TypeOK, StageFacts, [Next]_vars, NEW d \in Call, row[d].status = "pr_created"
    PROVE  row'[d] = row[d]
<1> USE DEF TypeOK, StageFacts, RowFacts, Accounts, Early, Working, Committing, Public
<1>1. CASE UNCHANGED workVars
  BY <1>1
<1>2. ASSUME NEW c \in Call, Adopt(c) \/ Insert(c) PROVE row'[d] = row[d]
  BY <1>2 DEF Adopt, Insert, NoRow
<1>3. ASSUME NEW c \in Call, Mark(c) \/ MarkRaises(c) PROVE row'[d] = row[d]
  BY <1>3 DEF Mark, MarkRaises, Marked, Marks
<1> QED
  BY <1>1, <1>2, <1>3
  DEF Next, vars, Preflight, LookUp, FindPull, Checkout, ApplyPatch, Validate, MakeCommit,
      Push, CreatePull, Lose, ClosePull, DeleteBranch, callVars
LEMMA RecordedStep ==
    TypeOK /\ StageFacts /\ RecordedPullExists /\ [Next]_vars => RecordedPullExists'
<1> SUFFICES ASSUME TypeOK, StageFacts, RecordedPullExists, [Next]_vars, NEW e \in Call
             PROVE  /\ row'[e].status = "pr_created" =>
                          row'[e].pr # Nobody /\ pull'[row'[e].pr] # "none"
                    /\ pc'[e] = "returned" =>
                          /\ result'[e] # Nobody
                          /\ \E d \in Call :
                                row'[d].status = "pr_created" /\ row'[d].pr = result'[e]
  BY DEF RecordedPullExists
<1> USE NobodyAssumption DEF Goto, Raise, FailWith, Return
<1>1. ASSUME row'[e].status = "pr_created"
      PROVE  row'[e].pr # Nobody /\ pull'[row'[e].pr] # "none"
  <2>1. CASE row'[e] = row[e]
    <3>1. row[e].pr \in Call /\ pull[row[e].pr] # "none"
      BY <1>1, <2>1, RowFields DEF RecordedPullExists
    <3> QED
      BY <2>1, <3>1, PullsRemain
  <2>2. CASE Adopt(e)
    <3>1. row'[e].pr = seen[e]
      BY <2>2 DEF Adopt, TypeOK
    <3>2. seen[e] \in Call /\ pull[seen[e]] # "none"
      BY <2>2 DEF Adopt, TypeOK, StageFacts, PullFacts
    <3> QED
      BY <3>1, <3>2, PullsRemain
  <2>3. CASE row'[e] = MarkedRow(e) /\ pc[e] = "pr_created"
    <3>1. pull[e] # "none"
      BY <2>3 DEF StageFacts, PullFacts
    <3> QED
      BY <2>3, <3>1, PullsRemain DEF MarkedRow
  <2>4. row'[e] = row[e] \/ Adopt(e) \/ (row'[e] = MarkedRow(e) /\ pc[e] = "pr_created")
    <3>1. CASE UNCHANGED workVars
      BY <3>1
    <3>2. ASSUME NEW c \in Call, Adopt(c) \/ Insert(c)
          PROVE  row'[e] = row[e] \/ Adopt(e)
      BY <1>1, <3>2 DEF Adopt, Insert, TypeOK, NoRow
    <3>3. ASSUME NEW c \in Call, Mark(c) \/ MarkRaises(c)
          PROVE  row'[e] = row[e] \/ (row'[e] = MarkedRow(e) /\ pc[e] = "pr_created")
      BY <1>1, <3>3 DEF Mark, MarkRaises, Marked, MarkedRow, TypeOK
    <3> QED
      BY <3>1, <3>2, <3>3
      DEF Next, vars, Preflight, LookUp, FindPull, Checkout, ApplyPatch, Validate, MakeCommit,
          Push, CreatePull, Lose, ClosePull, DeleteBranch, callVars
  <2> QED
    BY <2>1, <2>2, <2>3, <2>4
<1>2. ASSUME pc'[e] = "returned"
      PROVE  /\ result'[e] # Nobody
             /\ \E d \in Call : row'[d].status = "pr_created" /\ row'[d].pr = result'[e]
  <2>1. CASE pc[e] = "returned" /\ result'[e] = result[e]
    BY <2>1, FinishedRowsRemain DEF RecordedPullExists
  <2>2. CASE LookUp(e)
    BY <1>2, <2>2 DEF LookUp, TypeOK, RecordedPullExists
  <2>3. CASE Adopt(e)
    <3>1. seen[e] # Nobody
      BY <2>3 DEF Adopt, StageFacts, PullFacts
    <3>2. result'[e] = seen[e] /\ row'[e].status = "pr_created" /\ row'[e].pr = seen[e]
      BY <2>3 DEF Adopt, TypeOK
    <3> QED
      BY <3>1, <3>2
  <2>4. CASE Mark(e) /\ pc[e] = "pr_created"
    <3>1. result'[e] = e /\ row'[e].status = "pr_created" /\ row'[e].pr = e
      BY <2>4 DEF Mark, Marked, MarkedRow, TypeOK
    <3> QED
      BY <3>1
  <2>5. \/ pc[e] = "returned" /\ result'[e] = result[e]
        \/ LookUp(e) \/ Adopt(e) \/ (Mark(e) /\ pc[e] = "pr_created")
    <3> USE DEF TypeOK
    <3>1. CASE UNCHANGED workVars
      BY <1>2, <3>1 DEF callVars
    <3>2. ASSUME NEW c \in Call, Preflight(c) \/ FindPull(c) \/ LookUp(c) \/ Adopt(c)
          PROVE  (pc[e] = "returned" /\ result'[e] = result[e]) \/ LookUp(e) \/ Adopt(e)
      BY <1>2, <3>2 DEF Preflight, FindPull, LookUp, Adopt
    <3>3. ASSUME NEW c \in Call,
                 Insert(c) \/ Checkout(c) \/ ApplyPatch(c) \/ Validate(c) \/ MakeCommit(c)
          PROVE  pc[e] = "returned" /\ result'[e] = result[e]
      BY <1>2, <3>3 DEF Insert, Checkout, ApplyPatch, Validate, MakeCommit
    <3>4. ASSUME NEW c \in Call, Push(c) \/ CreatePull(c) \/ Lose(c) \/ MarkRaises(c)
          PROVE  pc[e] = "returned" /\ result'[e] = result[e]
      BY <1>2, <3>4 DEF Push, CreatePull, Lose, MarkRaises
    <3>5. ASSUME NEW c \in Call, Mark(c)
          PROVE  \/ pc[e] = "returned" /\ result'[e] = result[e]
                 \/ Mark(e) /\ pc[e] = "pr_created"
      <4>1. NextStage[pc[c]] = "returned" => pc[c] = "pr_created"
        BY <3>5 DEF Mark, NextStage, Marks
      <4>2. CASE e = c
        BY <1>2, <3>5, <4>1, <4>2 DEF Mark
      <4>3. CASE e # c
        BY <1>2, <3>5, <4>3 DEF Mark
      <4> QED
        BY <4>2, <4>3
    <3>6. CASE DeleteBranch \/ \E c \in Call : ClosePull(c)
      BY <1>2, <3>6 DEF DeleteBranch, ClosePull, callVars
    <3> QED
      BY <3>1, <3>2, <3>3, <3>4, <3>5, <3>6 DEF Next, vars
  <2> QED
    BY <2>1, <2>2, <2>3, <2>4, <2>5
<1> QED
  BY <1>1, <1>2

-----------------------------------------------------------------------------
LEMMA MutationStep == MutationInv /\ [Next]_vars => MutationInv'
  BY TypeStep, RowStep, CommitStep, PullStep, TraceStep, RecordedStep
  DEF MutationInv, StageFacts

LEMMA MutationInvariant == Spec => []MutationInv
  BY InitMutationInv, MutationStep, PTL DEF Spec

(* Every variable of the mutation model keeps its type.                      *)
THEOREM MutationTyped == Spec => []TypeOK
<1>1. MutationInv => TypeOK
  BY DEF MutationInv
<1> QED
  BY <1>1, MutationInvariant, PTL

(* Whatever overlaps, fails or is lost in any number of calls of             *)
(* create_pull_request, the fix branch and every pull request carry a commit *)
(* the table accounts for.                                                   *)
THEOREM MutationTraceable == Spec => []GitHubIsTraceable
<1>1. MutationInv => GitHubIsTraceable
  BY DEF MutationInv
<1> QED
  BY <1>1, MutationInvariant, PTL

(* A record that names a pull request names one that was opened.             *)
THEOREM MutationRecords == Spec => []RecordedPullExists
<1>1. MutationInv => RecordedPullExists
  BY DEF MutationInv
<1> QED
  BY <1>1, MutationInvariant, PTL

(* A mutation recorded as failed has left neither a commit nor a pull        *)
(* request on GitHub.                                                        *)
THEOREM MutationFailsClean == Spec => []FailedLeftNothing
<1>1. MutationInv => FailedLeftNothing
  BY NobodyAssumption
  DEF MutationInv, StageFacts, RowFacts, Origin, FailedLeftNothing, TypeOK
<1> QED
  BY <1>1, MutationInvariant, PTL

-----------------------------------------------------------------------------
(* The refinement.  A step of a call is a move of its stage, from one where  *)
(* it is at work; to return it has nothing left to ask of GitHub.            *)
LEMMA CallMoves ==
    ASSUME TypeOK, NEW c \in Call,
           \/ Preflight(c) \/ LookUp(c) \/ FindPull(c) \/ Adopt(c) \/ Insert(c)
           \/ Checkout(c) \/ ApplyPatch(c) \/ Validate(c) \/ MakeCommit(c)
           \/ Push(c) \/ CreatePull(c) \/ Mark(c) \/ MarkRaises(c) \/ Lose(c)
    PROVE  /\ pc[c] \in Stage
           /\ \E s \in Stage \cup Ended :
                 pc' = [pc EXCEPT ![c] = s] /\ (s = "returned" => UNCHANGED pull)
<1> USE DEF Goto, Raise, FailWith, Return, Stage, Ended, Marks, gitHubVars
<1>1. CASE Preflight(c) \/ FindPull(c) \/ LookUp(c)
  BY <1>1 DEF Preflight, FindPull, LookUp
<1>2. CASE Adopt(c) \/ Insert(c) \/ Checkout(c) \/ ApplyPatch(c)
  BY <1>2 DEF Adopt, Insert, Checkout, ApplyPatch
<1>3. CASE Validate(c) \/ MakeCommit(c) \/ Push(c) \/ CreatePull(c) \/ Lose(c)
  BY <1>3 DEF Validate, MakeCommit, Push, CreatePull, Lose
<1>4. CASE Mark(c) \/ MarkRaises(c)
  BY <1>4 DEF Mark, MarkRaises, NextStage
<1> QED
  BY <1>1, <1>2, <1>3, <1>4

LEMMA PullIsKept == TypeOK /\ [Next]_vars => (HasPull => HasPull')
  BY PullsRemain DEF HasPull

LEMMA InitOutcome == Init => Promise!OutcomeInit
  BY DEF Init, Promise!OutcomeInit, OutcomeMap, OutcomeOf, HasPull

LEMMA MoveMaps ==
    ASSUME MutationInv, MutationInv', [Next]_vars, NEW c \in Call, pc[c] \in Stage,
           NEW s \in Stage \cup Ended, pc' = [pc EXCEPT ![c] = s],
           s = "returned" => UNCHANGED pull
    PROVE  [Promise!OutcomeNext]_(Promise!outcomeVars)
<1>1. OutcomeMap' = [OutcomeMap EXCEPT ![c] = OutcomeOf(s)]
  BY DEF OutcomeMap, MutationInv, TypeOK
<1>2. OutcomeMap[c] = "running"
  BY DEF OutcomeMap, OutcomeOf, Stage, Marks
<1>3. (HasPull => HasPull') /\ HasPull \in BOOLEAN /\ HasPull' \in BOOLEAN
  <2>1. HasPull \in BOOLEAN /\ HasPull' \in BOOLEAN
    BY DEF HasPull
  <2> QED
    BY <2>1, PullIsKept DEF MutationInv
<1>4. CASE s = "returned"
  <2>1. OutcomeOf(s) = "record"
    BY <1>4 DEF OutcomeOf
  <2>2. HasPull' = HasPull
    BY <1>4 DEF HasPull
  <2>3. pc'[c] = "returned"
    BY <1>4 DEF MutationInv, TypeOK
  <2>4. PICK d \in Call : row'[d].status = "pr_created"
    BY <2>3 DEF MutationInv, RecordedPullExists
  <2>5. row'[d].pr # Nobody /\ pull'[row'[d].pr] # "none"
    BY <2>4 DEF MutationInv, RecordedPullExists
  <2>6. row'[d].pr \in Call \cup {Nobody}
    BY DEF MutationInv, TypeOK, Row, NoRow
  <2>7. HasPull'
    BY <2>5, <2>6 DEF HasPull
  <2> QED
    BY <1>1, <1>2, <2>1, <2>2, <2>7
    DEF Promise!OutcomeNext, Promise!GiveRecord, Promise!End
<1>5. CASE s \in {"raised", "lost"}
  <2>1. OutcomeOf(s) = "error"
    BY <1>5 DEF OutcomeOf
  <2>2. HasPull' = HasPull \/ HasPull' = TRUE
    BY <1>3
  <2>3. Promise!GiveError(c)
    BY <1>1, <1>2, <2>1, <2>2 DEF Promise!GiveError, Promise!End
  <2> QED
    BY <2>3 DEF Promise!OutcomeNext
<1>6. CASE s \notin Ended
  <2>1. OutcomeOf(s) = "running"
    BY <1>6 DEF OutcomeOf, Ended
  <2>2. OutcomeMap' = OutcomeMap
    BY <1>1, <1>2, <2>1 DEF OutcomeMap
  <2>3. CASE HasPull' = HasPull
    BY <2>2, <2>3 DEF Promise!outcomeVars
  <2>4. CASE HasPull' /\ ~HasPull
    <3>1. Promise!Open
      BY <1>2, <2>2, <2>4 DEF Promise!Open
    <3> QED
      BY <3>1 DEF Promise!OutcomeNext
  <2> QED
    BY <1>3, <2>3, <2>4
<1> QED
  BY <1>4, <1>5, <1>6 DEF Ended

(* Whatever overlaps, fails or is lost in any number of calls, each gives    *)
(* back what the Orchestrator's Mutate lets it: a record only with a pull    *)
(* request on GitHub, or an error, with or without one.                      *)
THEOREM MutationKeepsPromise == Spec => ImplementsPromise
<1>1. MutationInv /\ MutationInv' /\ [Next]_vars =>
        [Promise!OutcomeNext]_(Promise!outcomeVars)
  <2> SUFFICES ASSUME MutationInv, MutationInv', [Next]_vars
               PROVE  [Promise!OutcomeNext]_(Promise!outcomeVars)
    OBVIOUS
  <2>1. CASE UNCHANGED vars \/ TargetAdvances
    <3>1. UNCHANGED <<pc, pull>>
      BY <2>1 DEF vars, callVars, gitHubVars
    <3> QED
      BY <3>1 DEF OutcomeMap, HasPull, Promise!outcomeVars
  <2>2. CASE DeleteBranch \/ \E c \in Call : ClosePull(c)
    <3>1. UNCHANGED pc
      BY <2>2 DEF DeleteBranch, ClosePull, callVars
    <3>2. HasPull' = HasPull
      <4>1. \A d \in Call : pull'[d] # "none" <=> pull[d] # "none"
        BY <2>2 DEF DeleteBranch, ClosePull, MutationInv, TypeOK
      <4> QED
        BY <4>1 DEF HasPull
    <3> QED
      BY <3>1, <3>2 DEF OutcomeMap, Promise!outcomeVars
  <2>3. ASSUME NEW c \in Call,
               \/ Preflight(c) \/ LookUp(c) \/ FindPull(c) \/ Adopt(c) \/ Insert(c)
               \/ Checkout(c) \/ ApplyPatch(c) \/ Validate(c) \/ MakeCommit(c)
               \/ Push(c) \/ CreatePull(c) \/ Mark(c) \/ MarkRaises(c) \/ Lose(c)
        PROVE  [Promise!OutcomeNext]_(Promise!outcomeVars)
    BY <2>3, CallMoves, MoveMaps DEF MutationInv
  <2> QED
    BY <2>1, <2>2, <2>3 DEF Next
<1>2. MutationInv /\ [Next]_vars => MutationInv'
  BY MutationStep
<1> QED
  BY <1>1, <1>2, InitOutcome, MutationInvariant, PTL
  DEF Spec, ImplementsPromise, Promise!OutcomeSpec
=============================================================================
