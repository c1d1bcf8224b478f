------------------------------ MODULE RepoPath ------------------------------
(***************************************************************************)
(* normalize_repo_relative_path: how the path a CI log or a diff names     *)
(* becomes a path in the repository.                                       *)
(*                                                                         *)
(* A file of the repository is the sequence of its path segments; a path   *)
(* as written also says whether it starts with a slash.                    *)
(***************************************************************************)
EXTENDS Integers, Sequences, FiniteSetsExt

CONSTANTS
    FileName,   \* segments that end in .py, .json, .toml or .yml
    UpName      \* segments with two dots in a row: ".." itself, but a..b.py too

\* In the order in which they are tried.
COMMON_RUNNER_PREFIXES ==
    << <<"home", "runner", "work">>, <<"workspace">>, <<"app">>, <<"runner">>, <<"root">> >>

NoRepo == ""

Written(rooted, file) == [rooted |-> rooted, parts |-> file]
Relative(file) == Written(FALSE, file)

\* Where a checkout of repository repo keeps a file on a GitHub runner.
OnRunner(repo, file) == Written(TRUE, <<"home", "runner", "work", repo, repo>> \o file)

\* Positions where prefix stands in a path, with a slash before and after it.
Occurrences(prefix, path) ==
    {i \in 1..(Len(path.parts) - Len(prefix)) :
        /\ path.rooted \/ i > 1
        /\ \A k \in DOMAIN prefix : path.parts[i + k - 1] = prefix[k]}

HasRunnerFolder(path) ==
    \E k \in DOMAIN COMMON_RUNNER_PREFIXES : Occurrences(COMMON_RUNNER_PREFIXES[k], path) # {}

DropFirst(parts, unwanted(_)) ==
    IF Len(parts) > 1 /\ unwanted(parts[1]) THEN Tail(parts) ELSE parts

\* What follows the first occurrence of the first prefix that occurs.
AfterPrefix(path, prefixes) ==
    LET found == {k \in DOMAIN prefixes : Occurrences(prefixes[k], path) # {}}
        prefix == prefixes[Min(found)]
    IN  IF found = {} THEN <<>>
        ELSE SubSeq(path.parts, Min(Occurrences(prefix, path)) + Len(prefix), Len(path.parts))

(* The repository's name and one further folder are dropped after a prefix.  *)
StripWith(prefixes, path, repo) ==
    LET after == AfterPrefix(path, prefixes)
        inside == DropFirst(after, LAMBDA s : repo # NoRepo /\ s = repo)
    IN  IF after = <<>> THEN path.parts
        ELSE DropFirst(inside, LAMBDA s : s \notin FileName)

(* Fault: the most specific prefix is tried last.                            *)
NormalizeShortestFirst(path, repo) ==
    StripWith(<< <<"workspace">>, <<"app">>, <<"runner">>, <<"root">>,
                 <<"home", "runner", "work">> >>, path, repo)

Normalize(path, repo) == StripWith(COMMON_RUNNER_PREFIXES, path, repo)

(* is_path_safe_and_within_root, for a path that does not start with a slash *)
(* (Normalize leaves none) in a checkout without symbolic links.             *)
Inside(file) == file # <<>> /\ \A i \in DOMAIN file : file[i] \notin UpName
=============================================================================
