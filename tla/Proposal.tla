------------------------------ MODULE Proposal ------------------------------
(***************************************************************************)
(* From the log of a failed run to a judged patch: filter_and_extract_     *)
(* signal, CodebaseContextResolver.resolve_context, DiagnosticService.     *)
(* diagnose_failure and FixProposalService.generate_fix_proposal, in the   *)
(* order in which process_failure calls them, for one incident.            *)
(*                                                                         *)
(* The context is resolved twice, once by the diagnosis for its prompt and *)
(* once by the orchestrator for the fix; the pass in hand is `purpose`.    *)
(* Abstractions.  A file is the sequence of its path segments; what it     *)
(* contains is its length, its size, the width of its lines and the local  *)
(* modules it imports.  Confidence has a few levels.  What the language    *)
(* model answers is open.  Orchestrator has the statuses that are stored.  *)
(***************************************************************************)
EXTENDS LogSignal, PatchReview

CONSTANTS
    Logs,             \* logs a failed run can have
    RepoName,
    Tree,             \* the files of the failing commit, as a function of their paths
    Answers,          \* RawFixProposals the language model can give
    DiagnosisTargets, \* paths a diagnosis can name, NoPath for none
    Confidence, MinConfidence,
    MaxWindow, MaxFileSize, MaxEvidenceFiles, MaxChars

ASSUME LimitAssumption ==
    /\ MaxWindow \in Nat \ {0}
    /\ MaxEvidenceFiles \in Nat \ {0}
    /\ MaxChars \in Nat
    /\ MinConfidence \in Nat /\ Confidence \subseteq Nat /\ 0 \in Confidence

\* REPO_IDENTIFIER_PATTERN: a name is not empty, and may have a dot like a file's.
ASSUME RepoAssumption == RepoName \in STRING \ {NoRepo}

ASSUME TreeAssumption ==
    /\ IsFiniteSet(DOMAIN Tree)
    /\ \A file \in DOMAIN Tree :
        /\ file \in Seq(STRING) \ {<<>>}
        /\ Tree[file].lines \in Nat
        /\ Tree[file].width \in Nat
        /\ Tree[file].imports \in Seq(Seq(STRING))

\* The log of a failed run has a line (one GitHub refuses is replaced by a note).
ASSUME LogAssumption ==
    \A log \in Logs :
        /\ log \in Seq([kind : STRING, path : [rooted : BOOLEAN, parts : Seq(STRING)],
                        line : Nat, head : BOOLEAN])
        /\ log # <<>>

\* RawFixProposal, its diff split into lines.
ASSUME AnswerAssumption ==
    \A a \in Answers :
        /\ a.diff \in Seq([kind : STRING, marked : BOOLEAN, was : Nat, now : Nat,
                           path : [rooted : BOOLEAN, parts : Seq(STRING)]])
        /\ a.claimed \in Seq([rooted : BOOLEAN, parts : Seq(STRING)])

VARIABLES
    pc,
    signal,     \* FailureSignal
    purpose,    \* who asked for the context, "diagnosis" or "fix"
    queue,      \* candidate_targets
    next,       \* the candidate whose turn it is
    evidence,   \* code_evidences
    used,       \* total_chars_accumulated
    retrieval,  \* retrieval_status
    diagnosis,  \* DiagnosisProposal
    answer,     \* RawFixProposal
    proposal    \* FixProposal

contextVars == <<purpose, queue, next, evidence, used, retrieval>>
modelVars == <<diagnosis, answer>>
vars == <<pc, signal, contextVars, modelVars, proposal>>

NoDiagnosis == [fixable |-> FALSE, confidence |-> 0, target |-> NoPath]
NoAnswer == [diff |-> <<>>, chars |-> 0, claimed |-> <<>>]
NoSignal == [category |-> "unknown", target |-> Frame(NoPath, 0), frames |-> <<>>, at |-> 0,
             excerpt |-> Lines(1, 0)]

Proposed(status, verdict) ==
    [status |-> status, reasons |-> verdict.reasons, patches |-> verdict.patches,
     targets |-> verdict.targets, risk |-> verdict.risk]
Unreviewed(status, risk) == Proposed(status, Verdict({}, <<>>, {}, risk))
NoProposal == Unreviewed("none", "low")

Retrievals == {"none", "success", "partial", "unavailable", "empty"}

TypeOK ==
    /\ pc \in {"parse", "checkout", "collect", "diagnose", "screen", "ask", "review", "done"}
    /\ signal.category \in FailureCategory
    /\ purpose \in {"diagnosis", "fix"}
    /\ next \in Nat \ {0}
    /\ Len(evidence) \in 0..MaxEvidenceFiles
    /\ \A i \in DOMAIN evidence : evidence[i].path \in DOMAIN Tree
    /\ used \in 0..MaxChars
    /\ retrieval \in Retrievals
    /\ diagnosis.fixable \in BOOLEAN /\ diagnosis.confidence \in Confidence
    /\ answer \in Answers \cup {NoAnswer}
    /\ proposal.status \in {"none", "ineligible", "rejected", "proposed"}
    /\ proposal.reasons \subseteq Reasons
    /\ proposal.risk \in {"low", "medium", "high"}

Init ==
    /\ pc = "parse"
    /\ signal = NoSignal
    /\ purpose = "diagnosis"
    /\ queue = <<>>
    /\ next = 1
    /\ evidence = <<>>
    /\ used = 0
    /\ retrieval = "none"
    /\ diagnosis = NoDiagnosis
    /\ answer = NoAnswer
    /\ proposal = NoProposal

-----------------------------------------------------------------------------
(* handle_github_webhook reads the log before the pipeline starts.           *)
ParseLog ==
    /\ pc = "parse"
    /\ \E log \in Logs : signal' = Signal(log)
    /\ pc' = "checkout"
    /\ UNCHANGED <<contextVars, modelVars, proposal>>

-----------------------------------------------------------------------------
(* resolve_context.                                                          *)

\* The context is ready and goes to whoever asked for it.
Resolved(status) ==
    /\ retrieval' = status
    /\ pc' = IF purpose = "diagnosis" THEN "diagnose" ELSE "screen"

\* The signal's target, then the frames that are not candidates already.
Candidates(s) ==
    LET target == IF s.target.path = NoPath THEN <<>> ELSE <<s.target>>
        listed[n \in 0..Len(s.frames)] ==
            IF n = 0 THEN target
            ELSE IF s.frames[n] \in ToSet(listed[n - 1]) THEN listed[n - 1]
            ELSE Append(listed[n - 1], s.frames[n])
    IN  listed[Len(s.frames)]

Checkout ==
    /\ pc = "checkout"
    /\ evidence' = <<>>
    /\ used' = 0
    /\ next' = 1
    /\ \/ /\ queue' = <<>>
          /\ Resolved("unavailable")
       \/ /\ queue' = Candidates(signal)
          /\ IF Candidates(signal) = <<>> THEN Resolved("empty")
             ELSE pc' = "collect" /\ retrieval' = "none"
    /\ UNCHANGED <<signal, purpose, modelVars, proposal>>

FileAt(i) == Normalize(queue[i].path, RepoName)

\* A file that the checkout has, within the limits for reading it.
Readable(file) ==
    /\ Inside(file)
    /\ file \in DOMAIN Tree
    /\ Tree[file].size <= MaxFileSize
    /\ Tree[file].lines > 0

(* Fault: the end of the file is not looked at.                              *)
WindowUnclamped(line, total) ==
    IF line \in 1..total
    THEN Lines(Max({1, line - MaxWindow \div 2}), line + MaxWindow \div 2)
    ELSE Lines(1, Min({total, MaxWindow}))

Window(line, total) ==
    IF line \in 1..total
    THEN Lines(Max({1, line - MaxWindow \div 2}), Min({total, line + MaxWindow \div 2}))
    ELSE Lines(1, Min({total, MaxWindow}))

Excerpted(i) ==
    LET window == Window(queue[i].line, Tree[FileAt(i)].lines)
    IN  [path |-> FileAt(i), line |-> queue[i].line, from |-> window.from, to |-> window.to,
         chars |-> (window.to - window.from + 1) * Tree[FileAt(i)].width]

IsCandidate(path, q) == \E i \in DOMAIN q : q[i].path = path

(* Fault: a module that is a candidate already is looked up again.           *)
WithImportsRepeated(q, imports) ==
    LET found[n \in 0..Len(imports)] ==
            IF n = 0 THEN q
            ELSE IF Inside(imports[n]) /\ imports[n] \in DOMAIN Tree
                 THEN Append(found[n - 1], Frame(Relative(imports[n]), 0))
                 ELSE found[n - 1]
    IN  found[Len(imports)]

\* Modules of the repository that a file imports become candidates, by the
\* path their name spells.
WithImports(q, imports) ==
    LET found[n \in 0..Len(imports)] ==
            IF n = 0 THEN q
            ELSE IF /\ ~IsCandidate(Relative(imports[n]), found[n - 1])
                    /\ Inside(imports[n]) /\ imports[n] \in DOMAIN Tree
                 THEN Append(found[n - 1], Frame(Relative(imports[n]), 0))
                 ELSE found[n - 1]
    IN  found[Len(imports)]

(* Fault: the character budget is not enforced.                              *)
ExtractUnbudgeted(item) ==
    /\ evidence' = Append(evidence, item)
    /\ used' = used + item.chars
    /\ queue' = WithImports(queue, Tree[item.path].imports)
    /\ next' = next + 1
    /\ UNCHANGED <<pc, retrieval>>

Extract(item) ==
    /\ used + item.chars <= MaxChars
    /\ evidence' = Append(evidence, item)
    /\ used' = used + item.chars
    /\ queue' = WithImports(queue, Tree[item.path].imports)
    /\ next' = next + 1
    /\ UNCHANGED <<pc, retrieval>>

\* Not a file to read, or reading it failed.
Skip ==
    /\ next' = next + 1
    /\ UNCHANGED <<pc, queue, evidence, used, retrieval>>

Finish ==
    /\ Resolved(IF evidence = <<>> THEN "empty"
                ELSE IF Len(evidence) < Len(queue) THEN "partial" ELSE "success")
    /\ UNCHANGED <<queue, next, evidence, used>>

(* Fault: what is no file to read is put at the end of the list.             *)
CollectRequeueing ==
    /\ pc = "collect"
    /\ IF next > Len(queue) \/ Len(evidence) >= MaxEvidenceFiles THEN Finish
       ELSE IF ~Readable(FileAt(next))
       THEN /\ queue' = Append(RemoveAt(queue, next), queue[next])
            /\ UNCHANGED <<pc, next, evidence, used, retrieval>>
       ELSE \/ Skip
            \/ Extract(Excerpted(next))
            \/ used + Excerpted(next).chars > MaxChars /\ Finish
    /\ UNCHANGED <<signal, purpose, modelVars, proposal>>

(* One turn of the loop over the candidates, which grow as it runs.          *)
Collect ==
    /\ pc = "collect"
    /\ IF next > Len(queue) \/ Len(evidence) >= MaxEvidenceFiles THEN Finish
       ELSE IF ~Readable(FileAt(next)) THEN Skip
       ELSE \/ Skip
            \/ Extract(Excerpted(next))
            \/ used + Excerpted(next).chars > MaxChars /\ Finish
    /\ UNCHANGED <<signal, purpose, modelVars, proposal>>

-----------------------------------------------------------------------------
(* diagnose_failure: the model's answer, or the fallback for any error.      *)
Diagnose ==
    /\ pc = "diagnose"
    /\ \/ \E fixable \in BOOLEAN, confidence \in Confidence, target \in DiagnosisTargets :
            diagnosis' = [fixable |-> fixable, confidence |-> confidence, target |-> target]
       \/ diagnosis' = [NoDiagnosis EXCEPT !.target = signal.target.path]
    /\ pc' = IF diagnosis'.fixable THEN "checkout" ELSE "done"
    /\ purpose' = IF diagnosis'.fixable THEN "fix" ELSE purpose
    /\ UNCHANGED <<signal, queue, next, evidence, used, retrieval, answer, proposal>>

Conclude(conclusion) ==
    /\ proposal' = conclusion
    /\ pc' = "done"

Eligible == diagnosis.fixable /\ diagnosis.confidence >= MinConfidence

(* process_failure halts without evidence; generate_fix_proposal, called     *)
(* with some, withholds a fix for a diagnosis that is not confident enough.  *)
Screen ==
    /\ pc = "screen"
    /\ IF retrieval \in {"unavailable", "empty"} \/ evidence = <<>>
       THEN pc' = "done" /\ UNCHANGED proposal
       ELSE IF ~Eligible THEN Conclude(Unreviewed("ineligible", "low"))
       ELSE pc' = "ask" /\ UNCHANGED proposal
    /\ UNCHANGED <<signal, contextVars, modelVars>>

(* The language model answers within its schema, or anything goes wrong.     *)
AskModel ==
    /\ pc = "ask"
    /\ \/ /\ answer' \in Answers
          /\ pc' = "review"
          /\ UNCHANGED proposal
       \/ /\ Conclude(Unreviewed("rejected", "high"))
          /\ UNCHANGED answer
    /\ UNCHANGED <<signal, contextVars, diagnosis>>

Named ==
    ({signal.target.path, diagnosis.target} \cup {f.path : f \in ToSet(signal.frames)})
        \ {NoPath}

ReviewAnswer ==
    /\ pc = "review"
    /\ \E verdict \in {Review(answer, evidence, Named)} :
           Conclude(Proposed(IF verdict.reasons = {} THEN "proposed" ELSE "rejected", verdict))
    /\ UNCHANGED <<signal, contextVars, modelVars>>

-----------------------------------------------------------------------------
Next == ParseLog \/ Checkout \/ Collect \/ Diagnose \/ Screen \/ AskModel \/ ReviewAnswer

Spec == Init /\ [][Next]_vars

(* The loop of resolve_context is synchronous code.                          *)
FairSpec == Spec /\ WF_vars(Collect)

-----------------------------------------------------------------------------
(* The lines of the log that are kept for the prompt hold the line the       *)
(* failure was recognised by, at the ends of the log and where the position  *)
(* of a match falls on the line before it.                                   *)
ExcerptHasMatch ==
    pc # "parse" => signal.at \in signal.excerpt.from..signal.excerpt.to

(* What is sent to the language model stays within its budgets: at most      *)
(* MaxEvidenceFiles snippets of no more than MaxChars together, and each lies *)
(* in its file, is not empty, is at most one line longer than the window, and*)
(* shows the line it was taken for.                                          *)
EvidenceIsBounded ==
    /\ Len(evidence) <= MaxEvidenceFiles
    /\ used <= MaxChars
    /\ \A i \in DOMAIN evidence :
          LET e == evidence[i]
              total == Tree[e.path].lines
          IN  /\ 1 <= e.from /\ e.from <= e.to /\ e.to <= total
              /\ e.to - e.from <= MaxWindow
              /\ e.line \in 1..total => e.from <= e.line /\ e.line <= e.to

(* A location in the checkout of a GitHub runner is looked up in the file    *)
(* the log means, whatever folders are on its path: "app" and "runner" are   *)
(* themselves prefixes that the normalisation looks for.  In a repository    *)
(* that is named like a file, "discord.py", it is not: the second of the two *)
(* folders with that name passes for a file and stays in front of the path.  *)
RunnerPathsResolve ==
    \A i \in DOMAIN queue, file \in DOMAIN Tree :
        queue[i].path = OnRunner(RepoName, file) =>
            FileAt(i) = IF RepoName \in FileName THEN <<RepoName>> \o file ELSE file

(* A diff that the parser has no complaint about and git apply accepts later *)
(* was judged for what git will do with it: the parser cuts it at headers,   *)
(* git by the counts of its hunks, and both read the same files, each with   *)
(* the same hunks of the same lines.  It is not so of every diff git accepts,*)
(* only of a canonical one: a removed line "-- x" with an added "++ y" after *)
(* it passes for the header of one more file, text after a hunk for its own. *)
ParseIsFaithful ==
    /\ pc = "done" /\ {"syntax", "empty"} \cap proposal.reasons = {}
    /\ GitAccepts(answer.diff) /\ Canonical(answer.diff)
    => {Meaning(p) : p \in ToSet(proposal.patches)} = GitReads(answer.diff)

(* A patch of files that were shown as evidence is never ungrounded, however *)
(* the answer spells it, unless a file lies in a folder that is named like   *)
(* one of a runner's, which the normalisation takes for a prefix.            *)
PathsOfAnswer ==
    {l.path : l \in {l \in ToSet(answer.diff) : l.kind \in {"old", "new"}}}
        \cup ToSet(answer.claimed)

ShownIsGrounded ==
    /\ pc = "done"
    /\ PathsOfAnswer \subseteq
          {path \in {Relative(e.path) : e \in ToSet(evidence)} : ~HasRunnerFolder(path)}
    => "ungrounded" \notin proposal.reasons

(* The list of candidates that is worked through while it grows has an end:  *)
(* none is on it twice, and past those the log names there is at most one    *)
(* for each file of the checkout.                                            *)
CandidatesAreBounded ==
    /\ \A i, j \in DOMAIN queue : queue[i] = queue[j] => i = j
    /\ Len(queue) <= Len(Candidates(signal)) + Cardinality(DOMAIN Tree)
    /\ next <= Len(queue) + 1

(* A proposal that goes to the sandbox rests on evidence: a confident        *)
(* diagnosis, source that was read, and a patch whose files, as normalised,  *)
(* are among those and what the failure and the diagnosis name; none is      *)
(* protected, not all are tests, and the limits hold (ADR-0004, decision 2). *)
ProposedIsGrounded ==
    proposal.status = "proposed" =>
        LET targets == proposal.targets
        IN  /\ diagnosis.fixable /\ diagnosis.confidence >= MinConfidence
            /\ retrieval \in {"success", "partial"} /\ evidence # <<>>
            /\ proposal.patches # <<>>
            /\ \A f \in targets : Judged(f) \in Grounded(evidence, Named) \ ProtectedFiles
            /\ targets \subseteq TestFiles => targets = {}
            /\ ~ \/ Cardinality(targets) > MaxTargetFiles
                 \/ Len(answer.diff) > MaxPatchLines
                 \/ answer.chars > MaxPatchChars

(* The context is always resolved: the list of candidates, which grows while *)
(* it is worked through, comes to an end.                                    *)
CollectionEnds == pc = "collect" ~> pc # "collect"

NamedByAnswer == {path.parts : path \in PathsOfAnswer}

(* A patch of the very files that were shown as evidence is not rejected for *)
(* want of grounding (ADR-0004, decision 2: evidence-grounded OR verified to exist).*)
EvidenceIsPatchable ==
    NamedByAnswer \subseteq {e.path : e \in ToSet(evidence)} =>
        proposal.reasons # {"ungrounded"}
=============================================================================
