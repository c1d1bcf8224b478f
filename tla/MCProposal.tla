----------------------------- MODULE MCProposal -----------------------------
(* Instances of Proposal for TLC. *)
EXTENDS Proposal

Calc == <<"src", "app", "calc.py">>
Util == <<"src", "util.py">>
Top == <<"calc.py">>
Test == <<"tests", "test_calc.py">>
Project == <<"pyproject.toml">>
Workflow == <<".github", "workflows", "ci.yml">>
Empty == <<"src", "empty.py">>
Huge == <<"src", "huge.py">>
Leaf == <<"leaf.py">>

MCUpName == {"..", "a..b.py"}
MCFileName == {"calc.py", "util.py", "test_calc.py", "pyproject.toml", "ci.yml", "empty.py",
               "huge.py", "leaf.py", "a..b.py"}

File(lines, size, width, imports) ==
    [lines |-> lines, size |-> size, width |-> width, imports |-> imports]

MCTree ==
    Calc :> File(7, 7, 1, <<Util, Empty, Util>>) @@ Util :> File(2, 2, 2, <<Calc, Test>>)
        @@ Test :> File(4, 4, 1, <<Calc>>) @@ Project :> File(1, 1, 9, <<>>)
        @@ Workflow :> File(3, 3, 1, <<>>) @@ Empty :> File(0, 0, 1, <<>>)
        @@ Huge :> File(9, 50, 1, <<>>) @@ Leaf :> File(5, 5, 1, <<>>)

-----------------------------------------------------------------------------
(* Logs: the lines that matter, at the start and well inside a log.          *)
Runner(file) == OnRunner("repo", file)
Library == Written(TRUE, <<"opt", "lib", "x.py">>)

LogLine(kind, path, line, head) == [kind |-> kind, path |-> path, line |-> line, head |-> head]
Say(kind, head) == LogLine(kind, NoPath, 0, head)
At(path, line) == LogLine("frame", path, line, FALSE)
Plain(n) == [i \in 1..n |-> Say("plain", TRUE)]

Cores == {
    <<Say("module_missing", TRUE)>>,
    <<Say("traceback", TRUE), At(Runner(Calc), 1), At(Runner(Util), 2),
      Say("module_missing", FALSE)>>,
    <<Say("traceback", FALSE), At(Runner(Calc), 7), At(Runner(Huge), 9), At(Library, 9),
      Say("other_error", TRUE)>>,
    <<Say("traceback", TRUE), At(Relative(Calc), 1), At(Runner(Test), 3),
      Say("assertion_error", TRUE)>>,
    <<Say("traceback", TRUE), At(Runner(Util), 1)>>,
    <<LogLine("lineref", Relative(Test), 4, TRUE), LogLine("pytest", Relative(Test), 0, TRUE)>>,
    <<LogLine("lineref", Relative(Util), 1, TRUE), LogLine("pytest", Relative(Test), 0, TRUE)>>,
    <<LogLine("ruff", Relative(Util), 9, TRUE)>>,
    <<LogLine("mypy", Runner(Leaf), 5, TRUE)>>,
    <<LogLine("pip", NoPath, 0, FALSE)>>,
    <<Say("marker", TRUE)>>,
    <<Say("plain", TRUE)>>}

MCLogs ==
    {core \o Plain(9) : core \in Cores} \cup {Plain(9) \o core \o Plain(1) : core \in Cores}

-----------------------------------------------------------------------------
(* Answers: every diff of at most three blocks, and larger ones by hand.     *)
DiffLine(kind, path, marked) ==
    [kind |-> kind, path |-> path, marked |-> marked, was |-> 0, now |-> 0]
Text(kind) == DiffLine(kind, Relative(NoFile), FALSE)
HunkOf(was, now) == [Text("hunk") EXCEPT !.was = was, !.now = now]

Header(file) == <<DiffLine("old", Relative(file), TRUE), DiffLine("new", Relative(file), TRUE)>>
Bare(file) == <<DiffLine("old", Relative(file), FALSE), DiffLine("new", Relative(file), FALSE)>>
Deletion(file) == <<DiffLine("old", Relative(file), TRUE), DiffLine("new", DevNull, FALSE)>>
Hunk == <<HunkOf(1, 2), Text("same"), Text("add")>>

\* Hunks a diff may have: with a note, an empty line, a removed "-- x" and an
\* added "++ y" in both orders, and one that is shorter or longer than it says.
NotedHunk == <<HunkOf(1, 1), Text("del"), Text("note"), Text("add")>>
BlankHunk == <<HunkOf(2, 1), Text("blank"), Text("del")>>
LookalikeHunk == <<HunkOf(1, 1), Header(Top)[1], Header(Top)[2]>>
ReversedHunk == <<HunkOf(1, 1), Header(Top)[2], Header(Top)[1]>>
ShortHunk == <<HunkOf(3, 4), Text("same"), Text("add")>>
LongHunk == <<HunkOf(0, 1), Text("add"), Text("add")>>

Blocks == {Header(Calc), Header(Util), Hunk, <<Text("bad_hunk")>>, <<Text("junk")>>,
           <<Text("blank")>>, <<DiffLine("old", Relative(Util), FALSE)>>}

SmallDiffs == {FlattenSeq(blocks) : blocks \in BoundedSeq(Blocks, 3)}

LargeDiffs == {
    Header(Util) \o Hunk \o Header(Calc) \o Hunk \o Hunk,
    Header(Util) \o Hunk \o Header(Test) \o Hunk,
    Header(Util) \o Hunk \o Header(Project) \o Hunk,
    Header(Test) \o Hunk, Deletion(Util) \o Hunk, Bare(Util) \o Hunk, Header(Project) \o Hunk,
    Header(Workflow) \o Hunk, Header(Top) \o Hunk,
    Header(Util) \o Hunk \o Header(Test) \o Hunk \o Header(Calc) \o Hunk,
    Header(Util) \o Hunk \o Hunk \o Hunk \o Hunk}
    \cup {Header(Util) \o hunk \o Header(Test) \o Hunk :
            hunk \in {NotedHunk, BlankHunk, LookalikeHunk, ReversedHunk, ShortHunk, LongHunk}}

Answer(diff, claimed) == [diff |-> diff, chars |-> Len(diff), claimed |-> claimed]

MCAnswers ==
    {Answer(diff, <<>>) : diff \in SmallDiffs \cup LargeDiffs}
        \cup {Answer(Header(Util) \o Hunk, <<Relative(f)>>) :
                    f \in {Util, Test, Project, <<"a..b.py">>}}
        \cup {[Answer(Header(Util) \o Hunk, <<>>) EXCEPT !.chars = 99]}

MCDiagnosisTargets == {NoPath, Relative(Project)}
MCProtected == {Workflow}
MCTests == {Test}
MCDependencies == {Project}
=============================================================================
