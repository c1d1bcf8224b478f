----------------------------- MODULE PatchReview -----------------------------
(***************************************************************************)
(* PatchValidator: parsing a unified diff and judging it.                  *)
(*                                                                         *)
(* The lines of a diff are those of GitApply.  A hunk is the sequence of   *)
(* the numbers of its lines; what its header counts is not looked at.      *)
(***************************************************************************)
EXTENDS GitApply, SequencesExt

CONSTANTS
    MaxTargetFiles, MaxPatchLines, MaxPatchChars,
    LargePatch,        \* more lines than this are not a low risk
    ProtectedFiles, TestFiles, DependencyFiles   \* what the three pattern tables match

NoFile == <<>>

-----------------------------------------------------------------------------
(* _parse_unified_diff, one line at a time.  "header" is the state between a *)
(* --- line and the line after it.                                           *)
ParserStart ==
    [mode |-> "top", old |-> Relative(NoFile), oldMarked |-> FALSE, target |-> NoFile,
     hunks |-> <<>>, patches |-> <<>>, broken |-> FALSE]

Flush(s) ==
    IF s.target = NoFile \/ s.hunks = <<>> THEN s
    ELSE [s EXCEPT !.patches = Append(@, [path |-> s.target, hunks |-> s.hunks]),
                   !.hunks = <<>>]

Broken(s) == [s EXCEPT !.broken = TRUE, !.mode = "top"]

TargetOf(old, oldMarked, line) ==
    Normalize(IF ~line.marked /\ oldMarked THEN old ELSE line.path, NoRepo)

OpenHunk(s) == [s EXCEPT !.mode = "hunk", !.hunks = Append(@, <<>>)]

AddLine(s, n) == [s EXCEPT !.hunks[Len(s.hunks)] = Append(@, n)]

\* A line that starts no file: headers within a hunk and all text elsewhere.
PlainLine(s, line, n) ==
    CASE line.kind = "hunk" -> IF s.target = NoFile THEN Broken(s) ELSE OpenHunk(s)
      [] line.kind = "bad_hunk" -> Broken(s)
      [] line.kind \notin {"hunk", "bad_hunk"} /\ s.mode = "hunk" ->
            IF line.kind = "junk" THEN [s EXCEPT !.broken = TRUE] ELSE AddLine(s, n)
      [] OTHER -> s

(* Fault: a hunk ends at the next @@ only.                                   *)
ParseLineGreedy(s, line, n) ==
    CASE line.kind = "old" /\ s.mode = "hunk" -> AddLine(s, n)
      [] line.kind = "old" /\ s.mode # "hunk" ->
            [Flush(s) EXCEPT !.mode = "header", !.old = line.path, !.oldMarked = line.marked]
      [] line.kind # "old" /\ s.mode = "header" ->
            IF line.kind = "new"
            THEN [s EXCEPT !.mode = "top", !.target = TargetOf(s.old, s.oldMarked, line)]
            ELSE PlainLine(Broken(s), line, n)
      [] OTHER -> PlainLine(s, line, n)

ParseLine(s, line, n) ==
    CASE line.kind = "old" ->
            [Flush(s) EXCEPT !.broken = @ \/ s.mode = "header", !.mode = "header",
                             !.old = line.path, !.oldMarked = line.marked]
      [] line.kind # "old" /\ s.mode = "header" ->
            IF line.kind = "new"
            THEN [s EXCEPT !.mode = "top", !.target = TargetOf(s.old, s.oldMarked, line)]
            ELSE PlainLine(Broken(s), line, n)
      [] OTHER -> PlainLine(s, line, n)

\* The loop over the lines: ParserAfter(diff)[n] is the parser's state after n of them.
ParserAfter(diff) ==
    LET after[n \in 0..Len(diff)] ==
            IF n = 0 THEN ParserStart ELSE ParseLine(after[n - 1], diff[n], n)
    IN  after

ParserEnd(s) == Flush([s EXCEPT !.broken = @ \/ s.mode = "header"])

Parse(diff) == ParserEnd(ParserAfter(diff)[Len(diff)])

\* What a patch of the parser's says.
Meaning(patch) == [path |-> patch.path, hunks |-> {ToSet(h) : h \in ToSet(patch.hunks)}]

-----------------------------------------------------------------------------
(* validate_patch, as generate_fix_proposal calls it: without a repo_root.   *)
Reasons == {"empty", "chars", "lines", "syntax", "no_block", "too_many", "protected",
            "unsafe", "ungrounded", "tests_only"}

Targets(parsed, claimed) ==
    {parsed.patches[i].path : i \in DOMAIN parsed.patches}
        \cup {Normalize(claimed[i], NoRepo) : i \in DOMAIN claimed}

(* Fault: the source that was read does not count.                           *)
GroundedInNames(evidence, named) == {Normalize(path, NoRepo) : path \in named}

\* The files a patch may touch: evidence, and what signal and diagnosis name.
Grounded(evidence, named) ==
    {evidence[i].path : i \in DOMAIN evidence} \cup {Normalize(path, NoRepo) : path \in named}

Judged(file) == Normalize(Relative(file), NoRepo)

IsEmpty(diff) == \A i \in DOMAIN diff : diff[i].kind = "blank"

SizeReasons(answer, parsed) ==
    {r \in Reasons :
        \/ r = "chars" /\ answer.chars > MaxPatchChars
        \/ r = "lines" /\ Len(answer.diff) > MaxPatchLines
        \/ r = "syntax" /\ parsed.broken
        \/ r = "no_block" /\ parsed.patches = <<>> /\ ~parsed.broken}

(* Fault: one grounded file speaks for all.                                  *)
FileReasonsOfSome(targets, grounded) ==
    {r \in Reasons :
        \/ r = "too_many" /\ Cardinality(targets) > MaxTargetFiles
        \/ r = "protected" /\ \E f \in targets : Judged(f) \in ProtectedFiles
        \/ r = "unsafe" /\ \E f \in targets : ~Inside(Judged(f))
        \/ r = "ungrounded" /\ \A f \in targets : Judged(f) \notin grounded
        \/ r = "tests_only" /\ targets # {} /\ targets \subseteq TestFiles}

FileReasons(targets, grounded) ==
    {r \in Reasons :
        \/ r = "too_many" /\ Cardinality(targets) > MaxTargetFiles
        \/ r = "protected" /\ \E f \in targets : Judged(f) \in ProtectedFiles
        \/ r = "unsafe" /\ \E f \in targets : ~Inside(Judged(f))
        \/ r = "ungrounded" /\ \E f \in targets : Judged(f) \notin grounded
        \/ r = "tests_only" /\ targets # {} /\ targets \subseteq TestFiles}

Risk(targets, diff) ==
    IF \E f \in targets : Judged(f) \in DependencyFiles THEN "high"
    ELSE IF Cardinality(targets) > 1 \/ Len(diff) > LargePatch THEN "medium"
    ELSE "low"

\* PatchValidationResult.
Verdict(reasons, patches, targets, risk) ==
    [reasons |-> reasons, patches |-> patches, targets |-> targets, risk |-> risk]

Review(answer, evidence, named) ==
    LET parsed == Parse(answer.diff)
        targets == Targets(parsed, answer.claimed)
    IN  IF IsEmpty(answer.diff) THEN Verdict({"empty"}, <<>>, {}, "high")
        ELSE Verdict(SizeReasons(answer, parsed)
                        \cup FileReasons(targets, Grounded(evidence, named)),
                     parsed.patches, targets, Risk(targets, answer.diff))
=============================================================================
