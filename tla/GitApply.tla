------------------------------ MODULE GitApply ------------------------------
(***************************************************************************)
(* How git apply reads the unified diff that the sandbox and the mutation  *)
(* service hand to it: what the validator's own reading is compared with.  *)
(*                                                                         *)
(* A line of a diff is what its first characters say: "old" (---), "new"   *)
(* (+++), "hunk" (a well-formed @@ header), "bad_hunk" (any other @@),     *)
(* "add", "del", "same" (+, -, space), "note" (backslash), "blank" or      *)
(* "junk".  Headers name a path and say whether it carries git's a/ or b/; *)
(* a hunk's header counts the lines it takes from the old file, `was`, and *)
(* those it leaves in the new one, `now`.  A removed line that reads       *)
(* "-- x" is written "--- x", an added "++ y" is "+++ y": within a hunk    *)
(* only the counts tell them from headers.                                 *)
(***************************************************************************)
EXTENDS RepoPath

DevNull == Written(TRUE, <<"dev", "null">>)

OldSide == {"same", "blank", "del", "old"}
NewSide == {"same", "blank", "add", "new"}

Counted(diff, j, e, kinds) == Cardinality({k \in (j + 1)..e : diff[k].kind \in kinds})

HunkStarts(diff) == {j \in DOMAIN diff : diff[j].kind = "hunk"}

\* The last line of the hunk that line j opens: its counts are used up, and a
\* note on the last line of a file belongs to that line.
Ends(diff, j) ==
    {e \in j..Len(diff) :
        /\ \A k \in (j + 1)..e : diff[k].kind \in OldSide \cup NewSide \cup {"note"}
        /\ Counted(diff, j, e, OldSide) = diff[j].was
        /\ Counted(diff, j, e, NewSide) = diff[j].now
        /\ e < Len(diff) => diff[e + 1].kind # "note"}

Body(diff, j) == UNION {(j + 1)..e : e \in Ends(diff, j)}

Bodies(diff) == UNION {Body(diff, j) : j \in HunkStarts(diff)}

FileStarts(diff) ==
    {i \in DOMAIN diff \ Bodies(diff) :
        i < Len(diff) /\ diff[i].kind = "old" /\ diff[i + 1].kind = "new"}

\* A file's hunks follow its header and one another without a line between.
HunksAfter(diff, i) ==
    {j \in HunkStarts(diff) :
        i + 2 <= j /\ (i + 2)..(j - 1) \subseteq HunkStarts(diff) \cup Bodies(diff)}

\* No hunk is cut short and none is without a file.
GitAccepts(diff) ==
    \A j \in HunkStarts(diff) :
        Ends(diff, j) # {} /\ \E i \in FileStarts(diff) : j \in HunksAfter(diff, i)

\* A name loses its first folder, be it git's a/ or b/ or one of the tree.
Stripped(line) ==
    IF line.marked \/ Len(line.path.parts) < 2 THEN line.path
    ELSE Relative(IF line.path.rooted THEN line.path.parts ELSE Tail(line.path.parts))

Deletes(line) == ~line.marked /\ line.path = DevNull

NameRead(old, new) == IF Deletes(new) THEN Stripped(old) ELSE Stripped(new)

\* The file is named as the pipeline spells it.
FileRead(diff, i) ==
    [path |-> Normalize(NameRead(diff[i], diff[i + 1]), NoRepo),
     hunks |-> {Body(diff, j) : j \in HunksAfter(diff, i)}]

GitReads(diff) ==
    {FileRead(diff, i) : i \in {i \in FileStarts(diff) : HunksAfter(diff, i) # {}}}

-----------------------------------------------------------------------------
(* What git accepts and git diff does not write, or writes very rarely.      *)

\* Text between a hunk and what follows it.
TextAfterHunk(diff) ==
    \E j \in HunkStarts(diff) : \E e \in Ends(diff, j) :
        e < Len(diff) /\ diff[e + 1].kind \notin {"hunk", "old"}

\* A file is named without the b/, or the a/ of one that is deleted.
BareName(diff) ==
    \E i \in FileStarts(diff) : ~(IF Deletes(diff[i + 1]) THEN diff[i] ELSE diff[i + 1]).marked

\* A removed line "-- x" and then an added line "++ y".
Lookalike(diff) ==
    \E k \in Bodies(diff) :
        k + 1 \in Bodies(diff) /\ diff[k].kind = "old" /\ diff[k + 1].kind = "new"

Canonical(diff) == ~ (TextAfterHunk(diff) \/ BareName(diff) \/ Lookalike(diff))
=============================================================================
