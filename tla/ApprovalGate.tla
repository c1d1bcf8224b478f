---------------------------- MODULE ApprovalGate ----------------------------
(***************************************************************************)
(* The human approval gate: ApprovalService with its PostgreSQL repository *)
(* and the Slack callback route that drives it.                            *)
(*                                                                         *)
(* Any number of Slack callbacks (two reviewers, a double click, Slack's   *)
(* own retries) are handled concurrently, in one worker process or in two. *)
(* Each handler is one coroutine whose database round trips are the        *)
(* interleaving points:                                                    *)
(*    received -> read -> update | expire -> card -> respond -> answered   *)
(* A handler may be lost at any of them: the process dies, the connection  *)
(* to PostgreSQL breaks and the route answers 500, the request is          *)
(* cancelled.  What it has committed stays.                                *)
(*                                                                         *)
(* Abstractions.  Time is one bit per request, set when expires_at is      *)
(* passed.  A row is its status.  The approval row and the Slack message   *)
(* exist once per approval_id.  Signature checks and payload parsing come  *)
(* before any state is read and are left out.                              *)
(***************************************************************************)
EXTENDS Naturals

CONSTANTS Approval,    \* approval_ids
          Click,       \* Slack callbacks
          CanLose      \* the callbacks whose handler may be lost midway

ASSUME CanLoseAssumption == CanLose \subseteq Click

VARIABLES
    row,        \* status column per approval_id; "absent" before the INSERT
    overdue,    \* TRUE once now > expires_at
    card,       \* what the Slack message shows: "none", "buttons", a verdict
    poster,     \* the request_approval call: "idle", "posting", "done"
    pc,         \* control state of each callback's handler
    appr,       \* approval_id in each callback's payload
    target,     \* decision in each callback's payload, as a status
    outcome,    \* what the conditional UPDATE told the handler:
                \*   "won" (a row came back), "duplicate" (is_duplicate=True)
    reply,      \* answer sent to Slack
    resumes     \* number of _safe_resume_approval tasks started, per approval

vars == <<row, overdue, card, poster, pc, appr, target,
          outcome, reply, resumes>>

payload == <<appr, target>>     \* chosen once, by the reviewer

Verdicts == {"approved", "rejected", "expired"}
Choices == {"approved", "rejected"}
RowStatus == {"absent", "pending"} \cup Verdicts    \* an approvals row

InFlight == {"read", "expire", "update", "card", "respond"}

TypeOK ==
    /\ row \in [Approval -> RowStatus]
    /\ overdue \in [Approval -> BOOLEAN]
    /\ card \in [Approval -> {"none", "buttons"} \cup Verdicts]
    /\ poster \in [Approval -> {"idle", "posting", "done"}]
    /\ pc \in [Click -> InFlight \cup {"idle", "answered", "lost"}]
    /\ appr \in [Click -> Approval]
    /\ target \in [Click -> Choices]
    /\ outcome \in [Click -> {"none", "won", "duplicate"}]
    /\ reply \in [Click -> {"none", "ok", "notFound", "expired", "conflict"}]
    /\ resumes \in [Approval -> Nat]

Init ==
    /\ row = [a \in Approval |-> "absent"]
    /\ overdue = [a \in Approval |-> FALSE]
    /\ card = [a \in Approval |-> "none"]
    /\ poster = [a \in Approval |-> "idle"]
    /\ pc = [c \in Click |-> "idle"]
    /\ appr \in [Click -> Approval]
    /\ target \in [Click -> Choices]
    /\ outcome = [c \in Click |-> "none"]
    /\ reply = [c \in Click |-> "none"]
    /\ resumes = [a \in Approval |-> 0]
-----------------------------------------------------------------------------
(* request_approval of an eligible proposal: the row is inserted and         *)
(* committed before anything is shown to a human.                            *)
CreateApproval(a) ==
    /\ poster[a] = "idle"
    /\ poster' = [poster EXCEPT ![a] = "posting"]
    /\ row' = [row EXCEPT ![a] = "pending"]
    /\ UNCHANGED <<overdue, card, pc, payload, outcome, reply, resumes>>

(* The Slack post that follows.  Its errors are swallowed, so the card may   *)
(* not appear, and may appear although the post reported an error.           *)
PostCard(a) ==
    /\ poster[a] = "posting"
    /\ poster' = [poster EXCEPT ![a] = "done"]
    /\ \E shown \in {"none", "buttons"} : card' = [card EXCEPT ![a] = shown]
    /\ UNCHANGED <<row, overdue, pc, payload, outcome, reply, resumes>>

(* expires_at passes; nothing in the program runs when it does.              *)
Lapse(a) ==
    /\ row[a] # "absent"
    /\ ~overdue[a]
    /\ overdue' = [overdue EXCEPT ![a] = TRUE]
    /\ UNCHANGED <<row, card, poster, pc, payload, outcome, reply, resumes>>

-----------------------------------------------------------------------------
(* A callback arrives: a button of a card, or an id the database never held. *)
Receive(c) ==
    /\ pc[c] = "idle"
    /\ card[appr[c]] # "none" \/ row[appr[c]] = "absent"
    /\ pc' = [pc EXCEPT ![c] = "read"]
    /\ UNCHANGED <<row, overdue, card, poster, payload, outcome, reply, resumes>>

Answer(c, code) ==
    /\ pc' = [pc EXCEPT ![c] = "answered"]
    /\ reply' = [reply EXCEPT ![c] = code]

(* record_decision, first await: SELECT the row; 404 if there is none.       *)
ReadMissing(c) ==
    /\ pc[c] = "read"
    /\ row[appr[c]] = "absent"
    /\ Answer(c, "notFound")
    /\ UNCHANGED <<row, overdue, card, poster, payload, outcome, resumes>>

(* The snapshot alone decides between expiring and deciding.                 *)
ReadRow(c) ==
    /\ pc[c] = "read"
    /\ row[appr[c]] # "absent"
    /\ pc' = [pc EXCEPT ![c] =
                IF overdue[appr[c]] /\ row[appr[c]] = "pending"
                THEN "expire" ELSE "update"]
    /\ UNCHANGED <<row, overdue, card, poster, payload, outcome, reply, resumes>>

(* Faults the properties must detect: an expiry that overwrites a decision,  *)
(* and one that stores a status the readers do not expect.                   *)
ExpireUnconditionally(c) ==
    /\ pc[c] = "expire"
    /\ row' = [row EXCEPT ![appr[c]] = "expired"]
    /\ Answer(c, "expired")
    /\ UNCHANGED <<overdue, card, poster, payload, outcome, resumes>>

ExpireAsCancelled(c) ==
    /\ pc[c] = "expire"
    /\ row' = [row EXCEPT ![appr[c]] = IF @ = "pending" THEN "cancelled" ELSE @]
    /\ Answer(c, "expired")
    /\ UNCHANGED <<overdue, card, poster, payload, outcome, resumes>>

(* expire_approval is conditional on status = 'pending'; its result is       *)
(* ignored and the callback is answered 409 "has expired" either way.        *)
Expire(c) ==
    /\ pc[c] = "expire"
    /\ row' = [row EXCEPT ![appr[c]] = IF @ = "pending" THEN "expired" ELSE @]
    /\ Answer(c, "expired")
    /\ UNCHANGED <<overdue, card, poster, payload, outcome, resumes>>

(* Fault: the UPDATE without its WHERE status = 'pending'.                   *)
UpdateAnyStatus(c) ==
    /\ pc[c] = "update"
    /\ row' = [row EXCEPT ![appr[c]] = target[c]]
    /\ outcome' = [outcome EXCEPT ![c] = "won"]
    /\ pc' = [pc EXCEPT ![c] = "card"]
    /\ UNCHANGED <<overdue, card, poster, payload, reply, resumes>>

(* UPDATE ... WHERE status = 'pending' RETURNING finds its row: committed.   *)
UpdateWins(c) ==
    /\ pc[c] = "update"
    /\ row[appr[c]] = "pending"
    /\ row' = [row EXCEPT ![appr[c]] = target[c]]
    /\ outcome' = [outcome EXCEPT ![c] = "won"]
    /\ pc' = [pc EXCEPT ![c] = "card"]
    /\ UNCHANGED <<overdue, card, poster, payload, reply, resumes>>

(* It finds none, the row is read again and already holds this decision.     *)
UpdateRepeats(c) ==
    /\ pc[c] = "update"
    /\ row[appr[c]] = target[c]
    /\ outcome' = [outcome EXCEPT ![c] = "duplicate"]
    /\ pc' = [pc EXCEPT ![c] = "card"]
    /\ UNCHANGED <<row, overdue, card, poster, payload, reply, resumes>>

(* Faults: the conflict goes on to the card instead of raising, and the      *)
(* conflict test forgets that a request may have expired meanwhile.          *)
UpdateConflictsQuietly(c) ==
    /\ pc[c] = "update"
    /\ row[appr[c]] \notin {"pending", target[c]}
    /\ pc' = [pc EXCEPT ![c] = "card"]
    /\ UNCHANGED <<row, overdue, card, poster, payload, outcome, reply, resumes>>

UpdateConflictsIfChosen(c) ==
    /\ pc[c] = "update"
    /\ row[appr[c]] \in Choices \ {target[c]}
    /\ Answer(c, "conflict")
    /\ UNCHANGED <<row, overdue, card, poster, payload, outcome, resumes>>

(* It finds none and the row holds another terminal status: 409.             *)
UpdateConflicts(c) ==
    /\ pc[c] = "update"
    /\ row[appr[c]] \notin {"pending", target[c]}
    /\ Answer(c, "conflict")
    /\ UNCHANGED <<row, overdue, card, poster, payload, outcome, resumes>>

(* Fault: an error of the card update leaves the handler.                    *)
UpdateCardOrRaise(c) ==
    /\ pc[c] = "card"
    /\ \/ /\ pc' = [pc EXCEPT ![c] = "respond"]
          /\ card' = [card EXCEPT ![appr[c]] = target[c]]
       \/ /\ pc' = [pc EXCEPT ![c] = "lost"]
          /\ UNCHANGED card
    /\ UNCHANGED <<row, overdue, poster, payload, outcome, reply, resumes>>

(* Best-effort replacement of the buttons through response_url, with the     *)
(* status of the record the handler holds.                                   *)
UpdateCard(c) ==
    /\ pc[c] = "card"
    /\ pc' = [pc EXCEPT ![c] = "respond"]
    /\ \E shown \in {card[appr[c]], target[c]} :
            card' = [card EXCEPT ![appr[c]] = shown]
    /\ UNCHANGED <<row, overdue, poster, payload, outcome, reply, resumes>>

(* Fault: every answered approval resumes the pipeline, duplicates included. *)
RespondToDuplicates(c) ==
    /\ pc[c] = "respond"
    /\ Answer(c, "ok")
    /\ resumes' = IF target[c] = "approved"
                  THEN [resumes EXCEPT ![appr[c]] = @ + 1]
                  ELSE resumes
    /\ UNCHANGED <<row, overdue, card, poster, payload, outcome>>

(* The route answers 200; its background task resumes the pipeline unless    *)
(* the decision is a duplicate or a rejection.                               *)
Respond(c) ==
    /\ pc[c] = "respond"
    /\ Answer(c, "ok")
    /\ resumes' = IF outcome[c] # "duplicate" /\ target[c] = "approved"
                  THEN [resumes EXCEPT ![appr[c]] = @ + 1]
                  ELSE resumes
    /\ UNCHANGED <<row, overdue, card, poster, payload, outcome>>

(* The handler never finishes; its committed writes stay.                    *)
Lose(c) ==
    /\ c \in CanLose
    /\ pc[c] \in InFlight
    /\ pc' = [pc EXCEPT ![c] = "lost"]
    /\ UNCHANGED <<row, overdue, card, poster, payload, outcome, reply, resumes>>

-----------------------------------------------------------------------------
Handle(c) ==
    \/ ReadMissing(c) \/ ReadRow(c) \/ Expire(c)
    \/ UpdateWins(c) \/ UpdateRepeats(c) \/ UpdateConflicts(c)
    \/ UpdateCard(c) \/ Respond(c)

Next ==
    \/ \E a \in Approval : CreateApproval(a) \/ PostCard(a) \/ Lapse(a)
    \/ \E c \in Click : Receive(c) \/ Handle(c) \/ Lose(c)

Spec == Init /\ [][Next]_vars

(* The event loop runs every ready coroutine; a handler that is not lost     *)
(* takes its next step.  Nothing makes a human click.                        *)
FairSpec == Spec /\ \A c \in Click \ CanLose : WF_vars(Handle(c))

-----------------------------------------------------------------------------
(* At most one callback ever sees its conditional UPDATE return the row, so  *)
(* of any number of racing clicks, in any worker, one decides                *)
(* (ApprovalRepository.record_decision).                                     *)
OneWinner ==
    \A c, d \in Click :
        outcome[c] = "won" /\ outcome[d] = "won" /\ appr[c] = appr[d] => c = d

(* What a reviewer is told is what the database holds, then and ever after:  *)
(* a 200 names the recorded decision, a 409 conflict a different terminal    *)
(* status, and "has expired" a request that can no longer be decided         *)
(* (record_decision and the route's error mapping).                          *)
AnswersAreTrue ==
    \A c \in Click :
        /\ reply[c] = "ok" => row[appr[c]] = target[c]
        /\ reply[c] = "conflict" => row[appr[c]] \in Verdicts \ {target[c]}
        /\ reply[c] = "expired" => row[appr[c]] \in Verdicts

(* A Slack message whose buttons were replaced shows the recorded decision,  *)
(* whatever the order in which handlers update it (update_approval_card is   *)
(* best effort and runs after the session is closed).                        *)
CardIsTrue ==
    \A a \in Approval : card[a] \in Verdicts => row[a] = card[a]

(* At most one resume task per request, only for an approved one, and only   *)
(* from the callback that won (the route's "not is_duplicate and approved"). *)
ResumedOnce ==
    \A a \in Approval :
        resumes[a] > 0 =>
            /\ resumes[a] = 1
            /\ row[a] = "approved"
            /\ \E c \in Click : appr[c] = a /\ outcome[c] = "won" /\ reply[c] = "ok"

(* The gate implements the latch: decided once, never revised, dispatched at *)
(* most once and only after an approval.                                     *)
Latch == INSTANCE DecisionLatch WITH decision <- row, dispatched <- resumes
ImplementsLatch == Latch!LatchSpec

(* Every callback whose handler is not lost is answered.                     *)
EveryClickAnswered ==
    \A c \in Click \ CanLose : pc[c] \in InFlight ~> pc[c] = "answered"

(* An approval recorded by a handler that survives is resumed, however many  *)
(* other callbacks raced with it.                                            *)
WinningApprovalResumes ==
    \A c \in Click \ CanLose :
        (outcome[c] = "won" /\ target[c] = "approved") ~> resumes[appr[c]] = 1
=============================================================================
