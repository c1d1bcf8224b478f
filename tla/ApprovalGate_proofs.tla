------------------------ MODULE ApprovalGate_proofs ------------------------
(***************************************************************************)
(* Proofs about ApprovalGate, for any number of requests and callbacks and *)
(* any set of callbacks that may be lost.                                  *)
(*                                                                         *)
(* The safety properties are not inductive: they speak of answers and      *)
(* cards, and hold because of where each handler is and what it has seen.  *)
(* GateInv adds that link between control state and row.                   *)
(***************************************************************************)
EXTENDS ApprovalGate, TLAPS

(* A row exists exactly when its request_approval call has inserted it.      *)
RowsHaveRequests == \A a \in Approval : poster[a] = "idle" <=> row[a] = "absent"

(* A handler past its SELECT found a row; one past its UPDATE knows that the *)
(* row holds its decision; nobody answers before the end.                    *)
ControlFollowsRow ==
    \A c \in Click :
        /\ pc[c] \in {"expire", "update"} => row[appr[c]] # "absent"
        /\ pc[c] \in {"card", "respond"} => outcome[c] # "none"
        /\ pc[c] \in {"idle", "read", "expire", "update"} => outcome[c] = "none"
        /\ pc[c] # "answered" => reply[c] = "none"
        /\ outcome[c] # "none" => row[appr[c]] = target[c]

GateInv ==
    /\ TypeOK
    /\ RowsHaveRequests
    /\ ControlFollowsRow
    /\ OneWinner
    /\ AnswersAreTrue
    /\ CardIsTrue
    /\ ResumedOnce
LEMMA GateInvInit == Init => GateInv
  BY DEF Init, GateInv, TypeOK, RowStatus, RowsHaveRequests, ControlFollowsRow, OneWinner,
         AnswersAreTrue, CardIsTrue, ResumedOnce, Verdicts, Choices, InFlight

(* A handler changes the row only while the row is pending.                  *)
LEMMA VerdictsStay ==
  ASSUME TypeOK, RowsHaveRequests, [Next]_vars, NEW a \in Approval
  PROVE  /\ row[a] \in Verdicts => row'[a] = row[a]
         /\ row[a] # "absent" => row'[a] # "absent"
<1>1. CASE \E b \in Approval : CreateApproval(b) \/ PostCard(b) \/ Lapse(b)
  BY <1>1 DEF TypeOK, RowStatus, RowsHaveRequests, CreateApproval, PostCard, Lapse, Verdicts
<1>2. CASE \E c \in Click : Expire(c) \/ UpdateWins(c)
  BY <1>2 DEF TypeOK, RowStatus, Expire, UpdateWins, Verdicts, Choices
<1>3. CASE row' = row
  BY <1>3
<1> QED
  BY <1>1, <1>2, <1>3 DEF Next, Handle, vars, Receive, ReadMissing, ReadRow,
     UpdateRepeats, UpdateConflicts, UpdateCard, Respond, Lose

LEMMA TypeOKNext == GateInv /\ [Next]_vars => TypeOK' /\ RowsHaveRequests'
<1> SUFFICES ASSUME GateInv, [Next]_vars PROVE TypeOK' /\ RowsHaveRequests'
  OBVIOUS
<1> USE DEF GateInv, TypeOK, RowStatus, RowsHaveRequests, Verdicts, Choices, InFlight, payload
<1>1. CASE \E a \in Approval : CreateApproval(a) \/ PostCard(a) \/ Lapse(a)
  <2>1. CASE \E a \in Approval : CreateApproval(a)
    BY <2>1 DEF CreateApproval
  <2>2. CASE \E a \in Approval : PostCard(a)
    BY <2>2 DEF PostCard
  <2>3. CASE \E a \in Approval : Lapse(a)
    BY <2>3 DEF Lapse
  <2> QED
    BY <1>1, <2>1, <2>2, <2>3
<1>2. CASE \E c \in Click : Receive(c) \/ ReadMissing(c) \/ ReadRow(c) \/ Lose(c)
  BY <1>2 DEF Receive, ReadMissing, ReadRow, Lose, Answer
<1>3. CASE \E c \in Click : Expire(c)
  BY <1>3 DEF Expire, Answer, ControlFollowsRow
<1>4. CASE \E c \in Click : UpdateWins(c) \/ UpdateRepeats(c) \/ UpdateConflicts(c)
  BY <1>4 DEF UpdateWins, UpdateRepeats, UpdateConflicts, Answer, ControlFollowsRow
<1>5. CASE \E c \in Click : UpdateCard(c) \/ Respond(c)
  BY <1>5 DEF UpdateCard, Respond, Answer, ControlFollowsRow
<1>6. CASE UNCHANGED vars
  BY <1>6 DEF vars
<1> QED
  BY <1>1, <1>2, <1>3, <1>4, <1>5, <1>6 DEF Next, Handle

(* The invariant is inductive.  What the properties say of a decided row     *)
(* survives every step by VerdictsStay; the steps below are the ones that    *)
(* move a handler, an answer, a card or a resume.                            *)
LEMMA GateInvNext == GateInv /\ [Next]_vars => GateInv'
<1> SUFFICES ASSUME GateInv, [Next]_vars PROVE GateInv'
  OBVIOUS
<1>1. TypeOK' /\ RowsHaveRequests'
  BY TypeOKNext
<1>2. \A a \in Approval : /\ row[a] \in Verdicts => row'[a] = row[a]
                          /\ row[a] # "absent" => row'[a] # "absent"
  BY VerdictsStay DEF GateInv
<1> USE DEF GateInv, TypeOK, RowStatus, Verdicts, Choices, InFlight, payload
<1>3. ControlFollowsRow'
  <2>1. CASE \E a \in Approval : CreateApproval(a) \/ PostCard(a) \/ Lapse(a)
    BY <1>2, <2>1 DEF ControlFollowsRow, CreateApproval, PostCard, Lapse
  <2>2. CASE \E c \in Click : Receive(c) \/ ReadMissing(c) \/ ReadRow(c) \/ Lose(c)
    BY <1>2, <2>2 DEF ControlFollowsRow, Receive, ReadMissing, ReadRow, Lose, Answer
  <2>3. CASE \E c \in Click : Expire(c) \/ UpdateConflicts(c) \/ Respond(c)
    BY <1>2, <2>3 DEF ControlFollowsRow, Expire, UpdateConflicts, Respond, Answer
  <2>4. CASE \E c \in Click : UpdateWins(c) \/ UpdateRepeats(c) \/ UpdateCard(c)
    BY <1>2, <2>4 DEF ControlFollowsRow, UpdateWins, UpdateRepeats, UpdateCard
  <2>5. CASE UNCHANGED vars
    BY <2>5 DEF ControlFollowsRow, vars
  <2> QED
    BY <2>1, <2>2, <2>3, <2>4, <2>5 DEF Next, Handle
<1>4. OneWinner'
  \* Only UpdateWins makes a winner, and it needs a pending row, which no
  \* earlier winner of the same request left.
  <2>1. CASE \E c \in Click : UpdateWins(c)
    BY <2>1 DEF OneWinner, ControlFollowsRow, UpdateWins
  <2>2. CASE \E c \in Click : UpdateRepeats(c)
    BY <2>2 DEF OneWinner, UpdateRepeats
  <2>3. CASE UNCHANGED <<outcome, payload>>
    BY <2>3 DEF OneWinner
  <2> QED
    BY <2>1, <2>2, <2>3 DEF Next, Handle, vars, CreateApproval, PostCard, Lapse, Receive,
       ReadMissing, ReadRow, Expire, UpdateConflicts, UpdateCard, Respond, Lose
<1>5. AnswersAreTrue'
  <2>1. CASE \E c \in Click : Respond(c)
    BY <1>2, <2>1 DEF AnswersAreTrue, ControlFollowsRow, Respond, Answer
  <2>2. CASE \E c \in Click : UpdateConflicts(c)
    BY <1>2, <2>2 DEF AnswersAreTrue, ControlFollowsRow, UpdateConflicts, Answer
  <2>3. CASE \E c \in Click : Expire(c)
    BY <1>2, <2>3 DEF AnswersAreTrue, ControlFollowsRow, Expire, Answer
  <2>4. CASE \E c \in Click : ReadMissing(c)
    BY <1>2, <2>4 DEF AnswersAreTrue, ReadMissing, Answer
  <2>5. CASE UNCHANGED <<reply, payload>>
    BY <1>2, <2>5 DEF AnswersAreTrue
  <2> QED
    BY <2>1, <2>2, <2>3, <2>4, <2>5 DEF Next, Handle, vars, CreateApproval, PostCard,
       Lapse, Receive, ReadRow, UpdateWins, UpdateRepeats, UpdateCard, Lose
<1>6. CardIsTrue'
  <2>1. CASE \E a \in Approval : PostCard(a)
    BY <1>2, <2>1 DEF CardIsTrue, PostCard
  <2>2. CASE \E c \in Click : UpdateCard(c)
    BY <1>2, <2>2 DEF CardIsTrue, ControlFollowsRow, UpdateCard
  <2>3. CASE card' = card
    BY <1>2, <2>3 DEF CardIsTrue
  <2> QED
    BY <2>1, <2>2, <2>3 DEF Next, Handle, vars, CreateApproval, Lapse, Receive,
       ReadMissing, ReadRow, Expire, UpdateWins, UpdateRepeats, UpdateConflicts, Respond, Lose
<1>7. ResumedOnce'
  \* The handler that dispatches is the winner and has not answered yet, so
  \* nothing was dispatched before it.
  <2>1. CASE \E c \in Click : Respond(c)
    BY <1>2, <2>1 DEF ResumedOnce, ControlFollowsRow, OneWinner, Respond, Answer
  <2>2. CASE resumes' = resumes
    <3> SUFFICES ASSUME NEW a \in Approval, resumes[a] > 0
                 PROVE  /\ resumes'[a] = 1 /\ row'[a] = "approved"
                        /\ \E c \in Click : /\ appr'[c] = a
                                            /\ outcome'[c] = "won"
                                            /\ reply'[c] = "ok"
      BY <2>2 DEF ResumedOnce
    <3>1. PICK c \in Click : appr[c] = a /\ outcome[c] = "won" /\ reply[c] = "ok"
      BY DEF ResumedOnce
    <3>2. pc[c] = "answered"
      BY <3>1 DEF ControlFollowsRow
    <3>3. appr'[c] = a /\ outcome'[c] = "won" /\ reply'[c] = "ok"
      BY <3>1, <3>2 DEF Next, Handle, vars, CreateApproval, PostCard, Lapse, Receive,
         ReadMissing, ReadRow, Expire, UpdateWins, UpdateRepeats, UpdateConflicts,
         UpdateCard, Respond, Lose, Answer
    <3> QED
      BY <1>2, <2>2, <3>3 DEF ResumedOnce
  <2> QED
    BY <2>1, <2>2 DEF Next, Handle, vars, CreateApproval, PostCard, Lapse, Receive,
       ReadMissing, ReadRow, Expire, UpdateWins, UpdateRepeats, UpdateConflicts,
       UpdateCard, Lose
<1> QED
  BY <1>1, <1>3, <1>4, <1>5, <1>6, <1>7

LEMMA GateInvariant == Spec => []GateInv
<1> QED
  BY GateInvInit, GateInvNext, PTL DEF Spec

(* Every variable of the gate keeps its type.                                *)
THEOREM GateTyped == Spec => []TypeOK
<1>1. GateInv => TypeOK
  BY DEF GateInv
<1> QED
  BY <1>1, GateInvariant, PTL

(* However many callbacks race, one at most decides a request.               *)
THEOREM GateOneWinner == Spec => []OneWinner
<1>1. GateInv => OneWinner
  BY DEF GateInv
<1> QED
  BY <1>1, GateInvariant, PTL

(* Every answer agrees with the stored decision, from then on.               *)
THEOREM GateAnswersAreTrue == Spec => []AnswersAreTrue
<1>1. GateInv => AnswersAreTrue
  BY DEF GateInv
<1> QED
  BY <1>1, GateInvariant, PTL

(* A card whose buttons are gone shows the stored decision.                  *)
THEOREM GateCardIsTrue == Spec => []CardIsTrue
<1>1. GateInv => CardIsTrue
  BY DEF GateInv
<1> QED
  BY <1>1, GateInvariant, PTL

(* A request is resumed at most once, and only after an approval.            *)
THEOREM GateResumedOnce == Spec => []ResumedOnce
<1>1. GateInv => ResumedOnce
  BY DEF GateInv
<1> QED
  BY <1>1, GateInvariant, PTL

(* The callbacks, sessions and cards of the gate implement the latch: each   *)
(* step is a request, a decision, a dispatch, or invisible to it.            *)
THEOREM GateImplementsLatch == Spec => ImplementsLatch
<1>1. Init => Latch!LatchInit
  BY DEF Init, Latch!LatchInit
<1>2. GateInv /\ [Next]_vars => [Latch!LatchNext]_(Latch!latchVars)
  <2> SUFFICES ASSUME GateInv, [Next]_vars
               PROVE  Latch!LatchNext \/ UNCHANGED Latch!latchVars
    OBVIOUS
  <2> USE DEF GateInv, TypeOK, RowStatus, Latch!LatchNext, Latch!latchVars, Verdicts,
              Latch!Verdict, Choices
  <2>1. CASE \E a \in Approval : CreateApproval(a)
    BY <2>1 DEF RowsHaveRequests, CreateApproval, Latch!Request
  <2>2. CASE \E c \in Click : Expire(c)
    <3>1. PICK c \in Click : Expire(c)
      BY <2>2
    <3>2. CASE row[appr[c]] = "pending"
      BY <3>1, <3>2 DEF Expire, Latch!Decide
    <3>3. CASE row[appr[c]] # "pending"
      BY <3>1, <3>3 DEF Expire
    <3> QED
      BY <3>2, <3>3
  <2>3. CASE \E c \in Click : UpdateWins(c)
    BY <2>3 DEF UpdateWins, Latch!Decide
  <2>4. CASE \E c \in Click : Respond(c)
    <3>1. PICK c \in Click : Respond(c)
      BY <2>4
    <3>2. CASE outcome[c] # "duplicate" /\ target[c] = "approved"
      <4>1. row[appr[c]] = "approved" /\ outcome[c] = "won" /\ reply[c] = "none"
        BY <3>1, <3>2 DEF ControlFollowsRow, Respond
      <4>2. resumes[appr[c]] = 0
        BY <4>1 DEF ResumedOnce, OneWinner
      <4>3. appr[c] \in Approval
        OBVIOUS
      <4>4. Latch!Dispatch(appr[c])
        BY <3>1, <3>2, <4>1, <4>2 DEF Respond, Latch!Dispatch
      <4> QED
        BY <4>3, <4>4
    <3>3. CASE ~(outcome[c] # "duplicate" /\ target[c] = "approved")
      BY <3>1, <3>3 DEF Respond
    <3> QED
      BY <3>2, <3>3
  <2>5. CASE UNCHANGED <<row, resumes>>
    BY <2>5
  <2> QED
    BY <2>1, <2>2, <2>3, <2>4, <2>5 DEF Next, Handle, vars, PostCard, Lapse, Receive,
       ReadMissing, ReadRow, UpdateRepeats, UpdateConflicts, UpdateCard, Lose
<1> QED
  BY <1>1, <1>2, GateInvariant, PTL DEF Spec, ImplementsLatch, Latch!LatchSpec
============================================================================
