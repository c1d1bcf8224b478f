----------------------------- MODULE LogSignal -----------------------------
(***************************************************************************)
(* log_parser.filter_and_extract_signal: what a CI log says about a        *)
(* failure, and which of its lines are shown to the language model.        *)
(*                                                                         *)
(* A line of a log is what the patterns can tell of it: its kind, the file *)
(* and line it names, and whether the match begins in column 0, on which   *)
(* _extract_surrounding_lines depends.  Line 0 stands for None.            *)
(***************************************************************************)
EXTENDS RepoPath, SequencesExt

NoPath == Relative(<<>>)

Exceptions == {"assertion_error", "other_error"}

\* The patterns in the order they are tried, each with its excerpt's window.
Rules == <<"module_missing", "traceback", "pytest", "ruff", "mypy", "pip">>
WindowOf == [module_missing |-> 6, traceback |-> 8, pytest |-> 6, ruff |-> 5, mypy |-> 5,
             pip |-> 6]

FailureCategory == {"lint", "dependency", "test", "build", "unknown"}

\* Lines that contain ERROR, FAILED, ... in any case, when no rule applies.
Markers == {"marker", "lineref"} \cup Exceptions

LinesOf(log, kinds) == {i \in DOMAIN log : log[i].kind \in kinds}

\* Where a rule's pattern matches; that of a traceback spans lines.
Starts(log, rule) ==
    IF rule = "traceback"
    THEN {i \in LinesOf(log, {"traceback"}) : \E j \in LinesOf(log, Exceptions) : i < j}
    ELSE LinesOf(log, {rule})

RuleFor(log) == SelectInSeq(Rules, LAMBDA rule : Starts(log, rule) # {})

-----------------------------------------------------------------------------
Lines(from, to) == [from |-> from, to |-> to]
Between(log, first, last) == Lines(Max({1, first}), Min({Len(log), last}))

(* _extract_surrounding_lines compares the position with the end of each     *)
(* line, newline included: a match in column 0 counts as the line before.    *)
LineAt(log, i) == IF log[i].head /\ i > 1 THEN i - 1 ELSE i

(* Fault: without the max(0, ...): a negative start counts from the end.     *)
SurroundingUnclamped(log, i, window) ==
    LET first == LineAt(log, i) - window
    IN  Lines(IF first > 0 THEN first ELSE Max({1, Len(log) + first}),
              Min({Len(log), LineAt(log, i) + window}))

Surrounding(log, i, window) == Between(log, LineAt(log, i) - window, LineAt(log, i) + window)

-----------------------------------------------------------------------------
(* _extract_traceback_frames: every frame of the log, the last is the target.*)
Frame(path, line) == [path |-> path, line |-> line]
FramesOf(log) ==
    LET found[i \in 0..Len(log)] ==
            IF i = 0 THEN <<>>
            ELSE IF log[i].kind = "frame"
                 THEN Append(found[i - 1], Frame(log[i].path, log[i].line))
                 ELSE found[i - 1]
    IN  found[Len(log)]

\* The first file:line: Error of the log, if it is about this file.
LineReference(log, path) ==
    LET refs == LinesOf(log, {"lineref"})
    IN  IF refs # {} /\ log[Min(refs)].path = path THEN log[Min(refs)].line ELSE 0

TracebackLocation(log) ==
    LET frames == FramesOf(log)
    IN  IF frames = <<>> THEN [target |-> Frame(NoPath, 0), frames |-> <<>>]
        ELSE [target |-> Last(frames), frames |-> frames]

PytestLocation(log, path) ==
    LET target == Frame(path, LineReference(log, path))
    IN  [target |-> target, frames |-> IF target.line = 0 THEN <<>> ELSE <<target>>]

Location(log, rule, i) ==
    CASE rule \in {"module_missing", "traceback"} -> TracebackLocation(log)
      [] rule = "pytest" -> PytestLocation(log, log[i].path)
      [] rule \in {"ruff", "mypy"} ->
            [target |-> Frame(log[i].path, log[i].line), frames |-> <<>>]
      [] rule = "pip" -> [target |-> Frame(NoPath, 0), frames |-> <<>>]

Category(log, rule, i) ==
    CASE rule \in {"module_missing", "pip"} -> "dependency"
      [] rule = "pytest" -> "test"
      [] rule \in {"ruff", "mypy"} -> "lint"
      [] rule = "traceback" ->
            LET raised == Min({j \in LinesOf(log, Exceptions) : i < j})
            IN  IF log[raised].kind = "assertion_error" THEN "test" ELSE "build"

Classified(log, rule) ==
    LET i == Min(Starts(log, rule))
        location == Location(log, rule, i)
    IN  [category |-> Category(log, rule, i), target |-> location.target,
         frames |-> location.frames, at |-> i,
         excerpt |-> Surrounding(log, i, WindowOf[rule])]

(* No rule applies: the first line with an error marker, else the tail.      *)
Unclassified(log) ==
    LET marked == LinesOf(log, Markers)
        i == IF marked = {} THEN Len(log) ELSE Min(marked)
    IN  [category |-> "unknown", target |-> Frame(NoPath, 0), frames |-> <<>>, at |-> i,
         excerpt |-> IF marked = {} THEN Between(log, Len(log) - 14, Len(log))
                     ELSE Between(log, i - 3, i + 7)]

Signal(log) ==
    IF RuleFor(log) = 0 THEN Unclassified(log) ELSE Classified(log, Rules[RuleFor(log)])
=============================================================================
