-------------------------- MODULE PatchReview_proofs --------------------------
(***************************************************************************)
(* Proofs about PatchReview: the parser of unified diffs, for every diff.  *)
(***************************************************************************)
EXTENDS PatchReview, DataInduction

-----------------------------------------------------------------------------
(* The parser's own cut of a diff, by lines of their own: a patch for every  *)
(* file header that has hunks before the next one, and in each hunk the      *)
(* lines up to the next header.                                              *)
Section(diff, i) == {j \in i..Len(diff) : \A k \in (i + 1)..j : diff[k].kind # "old"}

HunksOf(diff, i) == {j \in Section(diff, i) : diff[j].kind = "hunk"}

HunkLines(diff, j) ==
    {k \in Section(diff, j) \ {j} : \A l \in (j + 1)..k : diff[l].kind # "hunk"}

CutFile(diff, i) ==
    [path |-> TargetOf(diff[i].path, diff[i].marked, diff[i + 1]),
     hunks |-> {HunkLines(diff, j) : j \in HunksOf(diff, i)}]

Cut(diff) ==
    {CutFile(diff, i) :
        i \in {i \in DOMAIN diff : diff[i].kind = "old" /\ HunksOf(diff, i) # {}}}

-----------------------------------------------------------------------------
(* The parser's states.                                                      *)
HeaderPaths(diff) ==
    {diff[i].path : i \in {i \in DOMAIN diff : diff[i].kind \in {"old", "new"}}}

HeaderFiles(diff) == {Normalize(path, NoRepo) : path \in HeaderPaths(diff)}

Marks(diff) == {diff[i].marked : i \in DOMAIN diff}

Hunks == Seq(Seq(Nat))
Patches(diff) == Seq([path : HeaderFiles(diff), hunks : Hunks])

ParserStates(diff) ==
    {s \in [mode : {"top", "header", "hunk"},
            old : HeaderPaths(diff) \cup {Relative(NoFile)},
            oldMarked : Marks(diff) \cup {FALSE},
            target : HeaderFiles(diff) \cup {NoFile},
            hunks : Hunks,
            patches : Patches(diff),
            broken : BOOLEAN] :
        /\ s.mode = "header" => s.old \in HeaderPaths(diff)
        /\ s.mode = "hunk" => s.hunks # <<>>}

(* Appending to a sequence adds the element to its set.                      *)
LEMMA ToSetOfAppend ==
    ASSUME NEW T, NEW s \in Seq(T), NEW e \in T
    PROVE  ToSet(Append(s, e)) = ToSet(s) \cup {e}
<1>1. /\ Append(s, e) \in Seq(T)
      /\ Len(Append(s, e)) = Len(s) + 1
      /\ \A i \in 1..Len(s) : Append(s, e)[i] = s[i]
      /\ Append(s, e)[Len(s) + 1] = e
  OBVIOUS
<1>2. DOMAIN Append(s, e) = 1..(Len(s) + 1) /\ DOMAIN s = 1..Len(s)
  BY <1>1
<1> QED BY <1>1, <1>2 DEF ToSet

(* The positions of a sequence are its front ones and the last.              *)
LEMMA FrontIndex ==
    ASSUME NEW length \in Nat \ {0}
    PROVE  1..length = (1..(length - 1)) \cup {length} /\ length \notin 1..(length - 1)
OBVIOUS

WithLine(hunks, n) == [hunks EXCEPT ![Len(hunks)] = Append(@, n)]

(* A line of text goes to the last of the open hunks.                        *)
LEMMA LineAdded ==
    ASSUME NEW hunks \in Hunks, hunks # <<>>, NEW n \in Nat
    PROVE  /\ WithLine(hunks, n) \in Hunks /\ WithLine(hunks, n) # <<>>
           /\ Len(WithLine(hunks, n)) = Len(hunks)
           /\ \A k \in 1..(Len(hunks) - 1) : WithLine(hunks, n)[k] = hunks[k]
           /\ ToSet(WithLine(hunks, n)[Len(hunks)]) = ToSet(hunks[Len(hunks)]) \cup {n}
<1> DEFINE new == WithLine(hunks, n)
<1>1. Len(hunks) \in Nat \ {0} /\ Len(hunks) \in 1..Len(hunks) /\ DOMAIN hunks = 1..Len(hunks)
  BY DEF Hunks
<1>2. hunks[Len(hunks)] \in Seq(Nat)
  BY <1>1 DEF Hunks
<1>3. Append(hunks[Len(hunks)], n) \in Seq(Nat)
  BY <1>2
<1>4. new \in Hunks /\ Len(new) = Len(hunks)
  BY <1>1, <1>3 DEF Hunks, WithLine
<1>5. new[Len(hunks)] = Append(hunks[Len(hunks)], n)
  BY <1>1 DEF WithLine
<1>6. \A k \in 1..(Len(hunks) - 1) : new[k] = hunks[k]
  <2>1. TAKE k \in 1..(Len(hunks) - 1)
  <2>2. k \in 1..Len(hunks) /\ k # Len(hunks)
    BY <1>1, FrontIndex
  <2> QED BY <1>1, <2>2 DEF WithLine
<1>7. ToSet(new[Len(hunks)]) = ToSet(hunks[Len(hunks)]) \cup {n}
  BY <1>2, <1>5, ToSetOfAppend
<1>8. new # <<>>
  <2>1. Len(new) # 0
    BY <1>1, <1>4 DEF Hunks
  <2> QED BY <2>1
<1> QED BY <1>4, <1>6, <1>7, <1>8

(* A new hunk has no lines yet.                                              *)
LEMMA HunkOpened ==
    ASSUME NEW hunks \in Hunks, NEW new, new = Append(hunks, <<>>)
    PROVE  /\ new \in Hunks /\ new # <<>>
           /\ Len(new) = Len(hunks) + 1
           /\ \A k \in 1..Len(hunks) : new[k] = hunks[k]
           /\ new[Len(hunks) + 1] = <<>>
<1>1. <<>> \in Seq(Nat) /\ hunks \in Seq(Seq(Nat)) /\ Len(hunks) \in Nat
  BY DEF Hunks
<1>2. /\ new \in Seq(Seq(Nat))
      /\ Len(new) = Len(hunks) + 1
      /\ \A k \in 1..Len(hunks) : new[k] = hunks[k]
      /\ new[Len(hunks) + 1] = <<>>
  BY <1>1
<1>3. Len(new) # 0
  BY <1>1, <1>2
<1>4. new # <<>>
  BY <1>3
<1> QED BY <1>2, <1>4 DEF Hunks

(* The target of a file comes from one of its two header lines.              *)
LEMMA TargetIsNormalized ==
    ASSUME NEW diff, NEW n \in DOMAIN diff, diff[n].kind = "new",
           NEW old \in HeaderPaths(diff), NEW marked
    PROVE  TargetOf(old, marked, diff[n]) \in HeaderFiles(diff)
<1>1. diff[n].path \in HeaderPaths(diff)
  BY DEF HeaderPaths
<1> QED BY <1>1 DEF TargetOf, HeaderFiles

(* The finished hunks become a patch of the file they were read for.         *)
LEMMA FlushTyped ==
    ASSUME NEW diff, NEW s \in ParserStates(diff)
    PROVE  /\ Flush(s).patches \in Patches(diff)
           /\ Flush(s).hunks \in Hunks
           /\ Flush(s) = [s EXCEPT !.patches = Flush(s).patches, !.hunks = Flush(s).hunks]
<1>1. CASE s.target = NoFile \/ s.hunks = <<>>
  BY <1>1 DEF Flush, ParserStates
<1>2. CASE ~(s.target = NoFile \/ s.hunks = <<>>)
  <2> DEFINE patch == [path |-> s.target, hunks |-> s.hunks]
  <2>1. patch \in [path : HeaderFiles(diff), hunks : Hunks]
    BY <1>2 DEF ParserStates
  <2>2. Append(s.patches, patch) \in Patches(diff)
    BY <2>1 DEF ParserStates, Patches
  <2>3. <<>> \in Hunks
    BY DEF Hunks
  <2>4. Flush(s) = [s EXCEPT !.patches = Append(@, patch), !.hunks = <<>>]
    BY <1>2 DEF Flush
  <2>5. /\ Flush(s).patches = Append(s.patches, patch)
        /\ Flush(s).hunks = <<>>
    BY <2>4 DEF ParserStates
  <2> QED BY <2>2, <2>3, <2>4, <2>5 DEF ParserStates
<1> QED BY <1>1, <1>2

(* Every line takes the parser from a state to a state; a complaint stays,   *)
(* and a --- line that no +++ line follows is one.                           *)
LEMMA ParseLineTyped ==
    ASSUME NEW diff, NEW s \in ParserStates(diff), NEW n \in DOMAIN diff, n \in Nat
    PROVE  /\ ParseLine(s, diff[n], n) \in ParserStates(diff)
           /\ s.broken => ParseLine(s, diff[n], n).broken
           /\ s.mode = "header" /\ diff[n].kind # "new" => ParseLine(s, diff[n], n).broken
<1> DEFINE line == diff[n]
<1>1. ASSUME NEW t \in ParserStates(diff)
      PROVE  /\ PlainLine(t, line, n) \in ParserStates(diff)
             /\ t.broken => PlainLine(t, line, n).broken
  <2>1. CASE line.kind = "hunk" /\ t.target = NoFile
    BY <2>1 DEF PlainLine, Broken, ParserStates
  <2>2. CASE line.kind = "hunk" /\ t.target # NoFile
    <3>1. Append(t.hunks, <<>>) \in Hunks /\ Append(t.hunks, <<>>) # <<>>
      BY HunkOpened DEF ParserStates
    <3>2. PlainLine(t, line, n) = [t EXCEPT !.mode = "hunk", !.hunks = Append(t.hunks, <<>>)]
      BY <2>2 DEF PlainLine, OpenHunk, ParserStates
    <3> QED BY <3>1, <3>2 DEF ParserStates
  <2>3. CASE line.kind = "bad_hunk"
    BY <2>3 DEF PlainLine, Broken, ParserStates
  <2>4. CASE line.kind \notin {"hunk", "bad_hunk"} /\ t.mode = "hunk" /\ line.kind = "junk"
    BY <2>4 DEF PlainLine, ParserStates
  <2>5. CASE line.kind \notin {"hunk", "bad_hunk"} /\ t.mode = "hunk" /\ line.kind # "junk"
    <3> DEFINE new == WithLine(t.hunks, n)
    <3>1. new \in Hunks /\ new # <<>>
      BY <2>5, LineAdded DEF ParserStates
    <3>2. PlainLine(t, line, n) = [t EXCEPT !.hunks = new]
      BY <2>5 DEF PlainLine, AddLine, WithLine
    <3> HIDE DEF new
    <3> QED BY <3>1, <3>2 DEF ParserStates
  <2>6. CASE line.kind \notin {"hunk", "bad_hunk"} /\ t.mode # "hunk"
    BY <2>6 DEF PlainLine
  <2> QED BY <2>1, <2>2, <2>3, <2>4, <2>5, <2>6
<1>2. CASE line.kind = "old"
  <2>1. line.path \in HeaderPaths(diff)
    BY <1>2 DEF HeaderPaths
  <2>2. line.marked \in Marks(diff)
    BY DEF Marks
  <2>3. ParseLine(s, line, n) =
          [Flush(s) EXCEPT !.broken = @ \/ s.mode = "header", !.mode = "header",
                           !.old = line.path, !.oldMarked = line.marked]
    BY <1>2 DEF ParseLine
  <2> DEFINE flushed == [s EXCEPT !.patches = Flush(s).patches, !.hunks = Flush(s).hunks]
  <2>4. ParseLine(s, line, n) =
          [flushed EXCEPT !.broken = @ \/ s.mode = "header", !.mode = "header",
                          !.old = line.path, !.oldMarked = line.marked]
    BY <2>3, FlushTyped
  <2>5. Flush(s).patches \in Patches(diff) /\ Flush(s).hunks \in Hunks
    BY FlushTyped
  <2> QED BY <2>1, <2>2, <2>4, <2>5 DEF ParserStates
<1>3. CASE line.kind = "new" /\ s.mode = "header"
  <2>1. TargetOf(s.old, s.oldMarked, line) \in HeaderFiles(diff)
    BY <1>3, TargetIsNormalized DEF ParserStates
  <2>2. ParseLine(s, line, n) =
          [s EXCEPT !.mode = "top", !.target = TargetOf(s.old, s.oldMarked, line)]
    BY <1>3 DEF ParseLine
  <2> QED BY <1>3, <2>1, <2>2 DEF ParserStates
<1>4. CASE line.kind \notin {"old", "new"} /\ s.mode = "header"
  <2>1. Broken(s) \in ParserStates(diff) /\ Broken(s).broken
    BY DEF Broken, ParserStates
  <2>2. ParseLine(s, line, n) = PlainLine(Broken(s), line, n)
    BY <1>4 DEF ParseLine
  <2> QED BY <1>1, <2>1, <2>2
<1>5. CASE line.kind # "old" /\ s.mode # "header"
  <2>1. ParseLine(s, line, n) = PlainLine(s, line, n)
    BY <1>5 DEF ParseLine
  <2> QED BY <1>5, <1>1, <2>1
<1> QED BY <1>2, <1>3, <1>4, <1>5

LEMMA ParserStartTyped ==
    ASSUME NEW diff
    PROVE  ParserStart \in ParserStates(diff)
<1>1. <<>> \in Hunks /\ <<>> \in Patches(diff)
  BY DEF Hunks, Patches
<1> QED BY <1>1 DEF ParserStart, ParserStates

(* The loop over the lines does what its body says, turn by turn.            *)
LEMMA ParserAfterUnfolds ==
    ASSUME NEW Line, NEW diff \in Seq(Line)
    PROVE  /\ ParserAfter(diff)[0] = ParserStart
           /\ \A n \in 1..Len(diff) :
                ParserAfter(diff)[n] = ParseLine(ParserAfter(diff)[n - 1], diff[n], n)
<1> DEFINE N == Len(diff)
           States == ParserStates(diff)
           turn == [n \in 1..N |-> [s \in States |-> ParseLine(s, diff[n], n)]]
           Loop(a) == [n \in 0..N |->
                          IF n = 0 THEN ParserStart ELSE ParseLine(a[n - 1], diff[n], n)]
<1>1. N \in Nat /\ DOMAIN diff = 1..N
  OBVIOUS
<1>2. turn \in [1..N -> [States -> States]]
  <2>1. \A n \in 1..N : n \in Nat /\ n \in DOMAIN diff
    BY <1>1
  <2>2. \A n \in 1..N, s \in States : ParseLine(s, diff[n], n) \in States
    BY <2>1, ParseLineTyped
  <2> HIDE DEF States
  <2> QED BY <2>2
<1>3. PICK f \in [0..N -> States] :
        f[0] = ParserStart /\ \A n \in 1..N : f[n] = turn[n][f[n - 1]]
  <2>1. ParserStart \in States
    BY ParserStartTyped
  <2>2. LoopStates(N, States, ParserStart, turn) # {}
    <3> HIDE DEF turn, N, States
    <3> QED BY <1>1, <1>2, <2>1, LoopStatesExist
  <2> HIDE DEF turn, N, States
  <2> QED BY <2>2 DEF LoopStates
<1>4. \A n \in 1..N : f[n] = ParseLine(f[n - 1], diff[n], n)
  <2>1. \A n \in 1..N : n - 1 \in 0..N
    BY <1>1
  <2>2. \A n \in 1..N : f[n - 1] \in States
    BY <1>3, <2>1
  <2> HIDE DEF States
  <2> QED BY <1>3, <2>2
<1>5. f = Loop(f)
  <2>1. \A n \in 0..N : f[n] = Loop(f)[n]
    BY <1>1, <1>3, <1>4
  <2>2. f = [n \in 0..N |-> f[n]]
    BY <1>3
  <2> QED BY <2>1, <2>2
<1>6. ParserAfter(diff) = CHOOSE a : a = Loop(a)
  BY DEF ParserAfter
<1>7. ParserAfter(diff) = Loop(ParserAfter(diff))
  <2> HIDE DEF Loop
  <2> QED BY <1>5, <1>6
<1> QED BY <1>1, <1>7

-----------------------------------------------------------------------------
(* The invariant of the loop: what the parser's state says of the n lines    *)
(* it has read.  Closed(diff, n) is what the text means of the files whose   *)
(* headers are among them; a file is closed by the next header or the end.   *)
Closed(diff, n) ==
    {CutFile(diff, i) :
        i \in {i \in 1..n : diff[i].kind = "old" /\ HunksOf(diff, i) # {}}}

Means(patches) == {Meaning(patch) : patch \in ToSet(patches)}

No(kind, diff, i, j) == \A k \in i..j : diff[k].kind # kind

\* The sets of the lines of all hunks but the last.
FrontSets(hunks) == {ToSet(hunks[k]) : k \in 1..(Len(hunks) - 1)}

AtTop(diff, s, n) ==
    /\ s.mode = "top" /\ s.target = NoFile /\ s.hunks = <<>> /\ s.patches = <<>>
    /\ No("old", diff, 1, n)

AtHeader(diff, s, n) ==
    /\ s.mode = "header" /\ s.hunks = <<>>
    /\ n \in 1..n /\ diff[n].kind = "old"
    /\ s.old = diff[n].path /\ s.oldMarked = diff[n].marked
    /\ Means(s.patches) = Closed(diff, n - 1)

\* The file whose header is line c is being read.
Reading(diff, s, c, n) ==
    /\ diff[c].kind = "old" /\ No("old", diff, c + 1, n)
    /\ s.target = TargetOf(diff[c].path, diff[c].marked, diff[c + 1])
    /\ Means(s.patches) = Closed(diff, c - 1)

InFile(diff, s, n) ==
    /\ s.mode = "top" /\ s.hunks = <<>>
    /\ \E c \in 1..n : Reading(diff, s, c, n) /\ No("hunk", diff, c, n)

\* Line h is the header of the hunk that is being read.
InHunk(diff, s, n) ==
    /\ s.mode = "hunk" /\ s.target # NoFile
    /\ \E c \in 1..n : \E h \in (c + 1)..n :
          /\ Reading(diff, s, c, n)
          /\ diff[h].kind = "hunk" /\ No("hunk", diff, h + 1, n)
          /\ FrontSets(s.hunks) =
                {HunkLines(diff, j) : j \in {j \in c..(h - 1) : diff[j].kind = "hunk"}}
          /\ ToSet(s.hunks[Len(s.hunks)]) = (h + 1)..n

Follows(diff, s, n) ==
    \/ s.broken
    \/ AtTop(diff, s, n)
    \/ AtHeader(diff, s, n)
    \/ InFile(diff, s, n)
    \/ InHunk(diff, s, n)

(* A file's section is the lines up to the next header or the end.           *)
LEMMA SectionEnds ==
    ASSUME NEW diff, Len(diff) \in Nat, NEW n \in 1..Len(diff), NEW c \in 1..n,
           No("old", diff, c + 1, n),
           n = Len(diff) \/ diff[n + 1].kind = "old"
    PROVE  Section(diff, c) = c..n
<1>1. ASSUME NEW j \in Section(diff, c) PROVE j \in c..n
  <2>1. j \in c..Len(diff) /\ \A k \in (c + 1)..j : diff[k].kind # "old"
    BY DEF Section
  <2>2. CASE n = Len(diff)
    BY <2>1, <2>2
  <2>3. CASE diff[n + 1].kind = "old" /\ j > n
    <3>1. n + 1 \in (c + 1)..j
      BY <2>1, <2>3
    <3> QED BY <2>1, <2>3, <3>1
  <2>4. CASE j <= n
    BY <2>1, <2>4
  <2> QED BY <2>1, <2>2, <2>3, <2>4
<1>2. ASSUME NEW j \in c..n PROVE j \in Section(diff, c)
  <2>1. j \in c..Len(diff)
    OBVIOUS
  <2>2. \A k \in (c + 1)..j : k \in (c + 1)..n
    OBVIOUS
  <2> QED BY <2>1, <2>2 DEF Section, No
<1> QED BY <1>1, <1>2

(* A hunk's lines are those up to the next hunk or the end of its section.   *)
LEMMA LinesEnd ==
    ASSUME NEW diff, Len(diff) \in Nat, NEW n \in 1..Len(diff), NEW h \in 1..n,
           No("old", diff, h + 1, n), No("hunk", diff, h + 1, n),
           n = Len(diff) \/ diff[n + 1].kind \in {"old", "hunk"}
    PROVE  HunkLines(diff, h) = (h + 1)..n
<1>1. ASSUME NEW k \in HunkLines(diff, h) PROVE k \in (h + 1)..n
  <2>1. /\ k \in h..Len(diff) /\ k # h
        /\ \A l \in (h + 1)..k : diff[l].kind # "old"
        /\ \A l \in (h + 1)..k : diff[l].kind # "hunk"
    BY DEF HunkLines, Section
  <2>2. CASE n = Len(diff)
    BY <2>1, <2>2
  <2>3. CASE diff[n + 1].kind \in {"old", "hunk"} /\ k > n
    <3>1. n + 1 \in (h + 1)..k
      BY <2>1, <2>3
    <3> QED BY <2>1, <2>3, <3>1
  <2>4. CASE k <= n
    BY <2>1, <2>4
  <2> QED BY <2>1, <2>2, <2>3, <2>4
<1>2. ASSUME NEW k \in (h + 1)..n PROVE k \in HunkLines(diff, h)
  <2>1. k \in h..Len(diff) /\ k # h
    OBVIOUS
  <2>2. \A l \in (h + 1)..k : l \in (h + 1)..n
    OBVIOUS
  <2> QED BY <2>1, <2>2 DEF HunkLines, Section, No
<1> QED BY <1>1, <1>2

(* The hunks of a patch are its front ones and the last.                     *)
LEMMA FrontAndLast ==
    ASSUME NEW hunks \in Hunks, hunks # <<>>
    PROVE  {ToSet(h) : h \in ToSet(hunks)} =
              FrontSets(hunks) \cup {ToSet(hunks[Len(hunks)])}
<1>1. /\ Len(hunks) \in Nat \ {0} /\ Len(hunks) \in 1..Len(hunks)
      /\ DOMAIN hunks = 1..Len(hunks)
  BY DEF Hunks
<1>2. 1..Len(hunks) = (1..(Len(hunks) - 1)) \cup {Len(hunks)}
  BY <1>1, FrontIndex
<1>3. {ToSet(h) : h \in ToSet(hunks)} = {ToSet(hunks[k]) : k \in 1..Len(hunks)}
  BY <1>1 DEF ToSet
<1> DEFINE Earlier == 1..(Len(hunks) - 1)
<1>4. {ToSet(hunks[k]) : k \in Earlier \cup {Len(hunks)}} =
        {ToSet(hunks[k]) : k \in Earlier} \cup {ToSet(hunks[Len(hunks)])}
  <2> HIDE DEF Earlier
  <2> QED OBVIOUS
<1> QED BY <1>2, <1>3, <1>4 DEF FrontSets

(* A file without hunks describes nothing.                                   *)
LEMMA NothingToClose ==
    ASSUME NEW diff, Len(diff) \in Nat, NEW n \in 0..Len(diff), NEW c \in 1..(n + 1),
           \A i \in c..n : diff[i].kind # "old" \/ HunksOf(diff, i) = {}
    PROVE  Closed(diff, n) = Closed(diff, c - 1)
<1>1. \A i \in 1..n : i \in 1..(c - 1) \/ i \in c..n
  OBVIOUS
<1>2. \A i \in 1..(c - 1) : i \in 1..n
  OBVIOUS
<1> QED BY <1>1, <1>2 DEF Closed

(* The next header, or the end, closes the file that is being read: its      *)
(* hunks become the patch that its text describes.                           *)
LEMMA FileCloses ==
    ASSUME NEW diff, Len(diff) \in Nat, NEW s \in ParserStates(diff),
           NEW n \in 1..Len(diff),
           InFile(diff, s, n) \/ InHunk(diff, s, n),
           n = Len(diff) \/ diff[n + 1].kind = "old"
    PROVE  Flush(s).hunks = <<>> /\ Means(Flush(s).patches) = Closed(diff, n)
<1>1. CASE InFile(diff, s, n)
  <2>1. PICK c \in 1..n : Reading(diff, s, c, n) /\ No("hunk", diff, c, n)
    BY <1>1 DEF InFile
  <2>2. Section(diff, c) = c..n
    BY <2>1, SectionEnds DEF Reading
  <2>3. HunksOf(diff, c) = {}
    BY <2>1, <2>2 DEF HunksOf, No
  <2>4. \A i \in c..n : i = c \/ i \in (c + 1)..n
    OBVIOUS
  <2>5. \A i \in c..n : diff[i].kind # "old" \/ HunksOf(diff, i) = {}
    BY <2>1, <2>3, <2>4 DEF Reading, No
  <2>6. Closed(diff, n) = Closed(diff, c - 1)
    <3>1. n \in 0..Len(diff) /\ c \in 1..(n + 1)
      OBVIOUS
    <3> QED BY <2>5, <3>1, NothingToClose
  <2>7. Flush(s) = s /\ s.hunks = <<>>
    BY <1>1 DEF InFile, Flush
  <2> QED BY <2>1, <2>6, <2>7 DEF Reading
<1>2. CASE InHunk(diff, s, n)
  <2>1. PICK c \in 1..n : \E h \in (c + 1)..n :
          /\ Reading(diff, s, c, n)
          /\ diff[h].kind = "hunk" /\ No("hunk", diff, h + 1, n)
          /\ FrontSets(s.hunks) =
                {HunkLines(diff, j) : j \in {j \in c..(h - 1) : diff[j].kind = "hunk"}}
          /\ ToSet(s.hunks[Len(s.hunks)]) = (h + 1)..n
    BY <1>2 DEF InHunk
  <2>2. PICK h \in (c + 1)..n :
          /\ Reading(diff, s, c, n)
          /\ diff[h].kind = "hunk" /\ No("hunk", diff, h + 1, n)
          /\ FrontSets(s.hunks) =
                {HunkLines(diff, j) : j \in {j \in c..(h - 1) : diff[j].kind = "hunk"}}
          /\ ToSet(s.hunks[Len(s.hunks)]) = (h + 1)..n
    BY <2>1
  <2> DEFINE Earlier == {j \in c..(h - 1) : diff[j].kind = "hunk"}
             patch == [path |-> s.target, hunks |-> s.hunks]
  <2>3. Section(diff, c) = c..n
    BY <2>2, SectionEnds DEF Reading
  <2>4. HunksOf(diff, c) = Earlier \cup {h}
    <3>1. \A j \in c..n : j \in c..(h - 1) \/ j = h \/ j \in (h + 1)..n
      OBVIOUS
    <3>2. h \in c..n /\ \A j \in c..(h - 1) : j \in c..n
      OBVIOUS
    <3> QED BY <2>2, <2>3, <3>1, <3>2 DEF HunksOf, No
  <2>5. HunkLines(diff, h) = (h + 1)..n
    <3>1. h \in 1..n /\ \A k \in (h + 1)..n : k \in (c + 1)..n
      OBVIOUS
    <3>2. No("old", diff, h + 1, n)
      BY <2>2, <3>1 DEF Reading, No
    <3> QED BY <2>2, <3>1, <3>2, LinesEnd
  <2>6. s.hunks \in Hunks /\ s.hunks # <<>> /\ s.target # NoFile
    BY <1>2 DEF InHunk, ParserStates
  <2>7. {ToSet(hunk) : hunk \in ToSet(s.hunks)} =
          {HunkLines(diff, j) : j \in HunksOf(diff, c)}
    <3>1. {ToSet(hunk) : hunk \in ToSet(s.hunks)} =
            {HunkLines(diff, j) : j \in Earlier} \cup {HunkLines(diff, h)}
      BY <2>2, <2>5, <2>6, FrontAndLast
    <3> HIDE DEF Earlier
    <3> QED BY <2>4, <3>1
  <2>8. Meaning(patch) = CutFile(diff, c)
    BY <2>2, <2>7 DEF Meaning, CutFile, Reading
  <2>9. Flush(s).patches = Append(s.patches, patch) /\ Flush(s).hunks = <<>>
    BY <2>6 DEF Flush, ParserStates
  <2>10. ToSet(Flush(s).patches) = ToSet(s.patches) \cup {patch}
    <3> DEFINE T == [path : HeaderFiles(diff), hunks : Hunks]
    <3>1. patch \in T
      BY <2>6 DEF ParserStates
    <3>2. s.patches \in Seq(T)
      BY DEF ParserStates, Patches
    <3> HIDE DEF patch, T
    <3> QED BY <2>9, <3>1, <3>2, ToSetOfAppend
  <2>11. Means(Flush(s).patches) = Closed(diff, c - 1) \cup {CutFile(diff, c)}
    <3>1. Means(s.patches) = Closed(diff, c - 1)
      BY <2>2 DEF Reading
    <3> HIDE DEF patch
    <3> QED BY <2>8, <2>10, <3>1 DEF Means
  <2>12. Closed(diff, n) = Closed(diff, c - 1) \cup {CutFile(diff, c)}
    <3>1. \A i \in 1..n : i \in 1..(c - 1) \/ i = c \/ i \in (c + 1)..n
      OBVIOUS
    <3>2. \A i \in 1..(c - 1) : i \in 1..n
      OBVIOUS
    <3>3. HunksOf(diff, c) # {} /\ diff[c].kind = "old"
      BY <2>2, <2>4 DEF Reading
    <3>4. \A i \in (c + 1)..n : diff[i].kind # "old"
      BY <2>2 DEF Reading, No
    <3> QED BY <3>1, <3>2, <3>3, <3>4 DEF Closed
  <2> QED BY <2>9, <2>11, <2>12
<1> QED BY <1>1, <1>2

(* The state after a line that starts a file, by the state before it.        *)
LEMMA FollowsHeader ==
    ASSUME NEW diff, Len(diff) \in Nat, NEW n \in 0..(Len(diff) - 1),
           NEW s \in ParserStates(diff), ~s.broken, Follows(diff, s, n),
           diff[n + 1].kind = "old"
    PROVE  Follows(diff, ParseLine(s, diff[n + 1], n + 1), n + 1)
<1> DEFINE m == n + 1
           line == diff[m]
           t == ParseLine(s, line, m)
<1> SUFFICES Follows(diff, t, m)
  OBVIOUS
<1>1. m \in 1..Len(diff) /\ m - 1 = n /\ m \in 1..m
  OBVIOUS
<1>2. t = [Flush(s) EXCEPT !.broken = @ \/ s.mode = "header", !.mode = "header",
                           !.old = line.path, !.oldMarked = line.marked]
  BY DEF ParseLine
<1>3. Flush(s) = [s EXCEPT !.patches = Flush(s).patches, !.hunks = Flush(s).hunks]
  BY FlushTyped
<1>4. /\ t.mode = "header" /\ t.old = line.path /\ t.oldMarked = line.marked
      /\ t.hunks = Flush(s).hunks /\ t.patches = Flush(s).patches
      /\ t.broken <=> s.mode = "header"
  <2> DEFINE flushed == [s EXCEPT !.patches = Flush(s).patches, !.hunks = Flush(s).hunks]
  <2>1. t = [flushed EXCEPT !.broken = @ \/ s.mode = "header", !.mode = "header",
                            !.old = line.path, !.oldMarked = line.marked]
    BY <1>2, <1>3
  <2> HIDE DEF t
  <2> QED BY <2>1 DEF ParserStates
<1>5. ASSUME t.hunks = <<>>, Means(t.patches) = Closed(diff, n)
      PROVE  Follows(diff, t, m)
  <2> HIDE DEF t
  <2> QED BY <1>1, <1>4, <1>5 DEF Follows, AtHeader
<1>6. CASE AtTop(diff, s, n)
  <2>1. Flush(s) = s /\ s.hunks = <<>> /\ s.patches = <<>>
    BY <1>6 DEF AtTop, Flush
  <2>2. Means(s.patches) = {}
    BY <2>1 DEF Means, ToSet
  <2>3. Closed(diff, n) = {}
    BY <1>6 DEF AtTop, No, Closed
  <2> HIDE DEF t, m
  <2> QED BY <1>4, <1>5, <2>1, <2>2, <2>3
<1>7. CASE AtHeader(diff, s, n)
  <2> HIDE DEF t
  <2> QED BY <1>4, <1>7 DEF AtHeader, Follows
<1>8. CASE InFile(diff, s, n) \/ InHunk(diff, s, n)
  <2>1. n \in 1..Len(diff)
    BY <1>8 DEF InFile, InHunk
  <2>2. Flush(s).hunks = <<>> /\ Means(Flush(s).patches) = Closed(diff, n)
    BY <1>8, <2>1, FileCloses
  <2> HIDE DEF t, m
  <2> QED BY <1>4, <1>5, <2>2
<1> QED BY <1>6, <1>7, <1>8 DEF Follows

(* A file is being read once its two header lines are.                       *)
LEMMA FollowsNew ==
    ASSUME NEW diff, Len(diff) \in Nat, NEW n \in 0..(Len(diff) - 1),
           NEW s \in ParserStates(diff), AtHeader(diff, s, n),
           diff[n + 1].kind = "new"
    PROVE  Follows(diff, ParseLine(s, diff[n + 1], n + 1), n + 1)
<1> DEFINE m == n + 1
           line == diff[m]
           t == ParseLine(s, line, m)
<1> SUFFICES Follows(diff, t, m)
  OBVIOUS
<1>1. n \in 1..m /\ n \in 1..n /\ m \in Nat
  BY DEF AtHeader
<1>2. t = [s EXCEPT !.mode = "top", !.target = TargetOf(s.old, s.oldMarked, line)]
  BY DEF ParseLine, AtHeader
<1>3. /\ t.mode = "top" /\ t.target = TargetOf(diff[n].path, diff[n].marked, line)
      /\ t.hunks = <<>> /\ t.patches = s.patches
  <2> HIDE DEF t
  <2> QED BY <1>2 DEF AtHeader, ParserStates
<1>4. \A k \in (n + 1)..m : k = m
  OBVIOUS
<1>5. \A k \in n..m : k = n \/ k = m
  OBVIOUS
<1>6. No("old", diff, n + 1, m) /\ No("hunk", diff, n, m)
  BY <1>4, <1>5 DEF No, AtHeader
<1>7. Reading(diff, t, n, m)
  <2> HIDE DEF t
  <2> QED BY <1>3, <1>6 DEF Reading, AtHeader
<1> HIDE DEF t, m
<1> QED BY <1>1, <1>3, <1>6, <1>7 DEF Follows, InFile

(* The hunks before a new one are those there were.                          *)
LEMMA FrontOfOpened ==
    ASSUME NEW hunks \in Hunks, NEW new, new = Append(hunks, <<>>)
    PROVE  /\ hunks = <<>> => FrontSets(new) = {}
           /\ hunks # <<>> =>
                FrontSets(new) = FrontSets(hunks) \cup {ToSet(hunks[Len(hunks)])}
           /\ ToSet(new[Len(new)]) = {}
<1>1. /\ Len(new) = Len(hunks) + 1
      /\ \A k \in 1..Len(hunks) : new[k] = hunks[k]
      /\ new[Len(hunks) + 1] = <<>>
  BY HunkOpened
<1>2. Len(hunks) \in Nat /\ DOMAIN hunks = 1..Len(hunks)
  BY DEF Hunks
<1>3. Len(new) - 1 = Len(hunks)
  BY <1>1, <1>2
<1>4. FrontSets(new) = {ToSet(hunks[k]) : k \in 1..Len(hunks)}
  <2>1. FrontSets(new) = {ToSet(new[k]) : k \in 1..Len(hunks)}
    BY <1>3 DEF FrontSets
  <2> QED BY <1>1, <2>1
<1>5. {ToSet(h) : h \in ToSet(hunks)} = {ToSet(hunks[k]) : k \in 1..Len(hunks)}
  <2>1. ToSet(hunks) = {hunks[k] : k \in 1..Len(hunks)}
    BY <1>2 DEF ToSet
  <2> QED BY <2>1
<1>6. hunks = <<>> => FrontSets(new) = {}
  <2>1. hunks = <<>> => 1..Len(hunks) = {}
    OBVIOUS
  <2> QED BY <1>4, <2>1
<1>7. ToSet(new[Len(new)]) = {}
  BY <1>1 DEF ToSet
<1> QED BY <1>4, <1>5, <1>6, <1>7, FrontAndLast

(* The state after the header of a hunk.                                     *)
LEMMA FollowsHunk ==
    ASSUME NEW diff, Len(diff) \in Nat, NEW n \in 0..(Len(diff) - 1),
           NEW s \in ParserStates(diff), InFile(diff, s, n) \/ InHunk(diff, s, n),
           diff[n + 1].kind = "hunk"
    PROVE  Follows(diff, ParseLine(s, diff[n + 1], n + 1), n + 1)
<1> DEFINE m == n + 1
           line == diff[m]
           t == ParseLine(s, line, m)
           new == Append(s.hunks, <<>>)
<1> SUFFICES Follows(diff, t, m)
  OBVIOUS
<1>1. t = PlainLine(s, line, m)
  BY DEF ParseLine, InFile, InHunk
<1>2. CASE s.target = NoFile
  <2>1. t = Broken(s)
    BY <1>1, <1>2 DEF PlainLine
  <2> HIDE DEF t
  <2> QED BY <2>1 DEF Broken, Follows, ParserStates
<1>3. CASE s.target # NoFile
  <2>1. t = [s EXCEPT !.mode = "hunk", !.hunks = new]
    BY <1>1, <1>3 DEF PlainLine, OpenHunk, ParserStates
  <2>2. /\ t.mode = "hunk" /\ t.hunks = new
        /\ t.target = s.target /\ t.patches = s.patches
    <3> HIDE DEF t, new
    <3> QED BY <2>1 DEF ParserStates
  <2> HIDE DEF t
  <2>3. s.hunks \in Hunks
    BY DEF ParserStates
  <2>4. m \in Nat /\ n \in 0..Len(diff) /\ (m + 1)..m = {} /\ m - 1 = n
    OBVIOUS
  <2>5. ToSet(new[Len(new)]) = (m + 1)..m
    BY <2>3, <2>4, FrontOfOpened
  <2>6. No("hunk", diff, m + 1, m)
    BY DEF No
  <2>7. ASSUME NEW c \in 1..n, Reading(diff, s, c, n)
        PROVE  Reading(diff, t, c, m) /\ c \in 1..m /\ m \in (c + 1)..m
    <3>1. \A k \in (c + 1)..m : k \in (c + 1)..n \/ k = m
      OBVIOUS
    <3>2. c \in 1..m /\ m \in (c + 1)..m
      OBVIOUS
    <3> QED BY <2>2, <2>7, <3>1, <3>2 DEF Reading, No
  <2>8. CASE InFile(diff, s, n)
    <3>1. PICK c \in 1..n : Reading(diff, s, c, n) /\ No("hunk", diff, c, n)
      BY <2>8 DEF InFile
    <3>2. FrontSets(new) = {}
      BY <2>3, <2>8, FrontOfOpened DEF InFile
    <3>3. {j \in c..(m - 1) : diff[j].kind = "hunk"} = {}
      BY <2>4, <3>1 DEF No
    <3>4. Reading(diff, t, c, m) /\ c \in 1..m /\ m \in (c + 1)..m
      BY <2>7, <3>1
    <3>5. FrontSets(t.hunks) =
            {HunkLines(diff, j) : j \in {j \in c..(m - 1) : diff[j].kind = "hunk"}}
      BY <2>2, <3>2, <3>3
    <3> HIDE DEF m, new
    <3>6. InHunk(diff, t, m)
      BY <1>3, <2>2, <2>5, <2>6, <3>4, <3>5 DEF InHunk, m
    <3> QED BY <3>6 DEF Follows
  <2>9. CASE InHunk(diff, s, n)
    <3>1. PICK c \in 1..n : \E h \in (c + 1)..n :
            /\ Reading(diff, s, c, n)
            /\ diff[h].kind = "hunk" /\ No("hunk", diff, h + 1, n)
            /\ FrontSets(s.hunks) =
                  {HunkLines(diff, j) : j \in {j \in c..(h - 1) : diff[j].kind = "hunk"}}
            /\ ToSet(s.hunks[Len(s.hunks)]) = (h + 1)..n
      BY <2>9 DEF InHunk
    <3>2. PICK h \in (c + 1)..n :
            /\ Reading(diff, s, c, n)
            /\ diff[h].kind = "hunk" /\ No("hunk", diff, h + 1, n)
            /\ FrontSets(s.hunks) =
                  {HunkLines(diff, j) : j \in {j \in c..(h - 1) : diff[j].kind = "hunk"}}
            /\ ToSet(s.hunks[Len(s.hunks)]) = (h + 1)..n
      BY <3>1
    <3> DEFINE Earlier == {j \in c..(h - 1) : diff[j].kind = "hunk"}
    <3>3. HunkLines(diff, h) = (h + 1)..n
      <4>1. n \in 1..Len(diff) /\ h \in 1..n /\ \A k \in (h + 1)..n : k \in (c + 1)..n
        OBVIOUS
      <4>2. No("old", diff, h + 1, n)
        BY <3>2, <4>1 DEF Reading, No
      <4> QED BY <3>2, <4>1, <4>2, LinesEnd
    <3>4. {j \in c..(m - 1) : diff[j].kind = "hunk"} = Earlier \cup {h}
      <4>1. \A j \in c..(m - 1) : j \in c..(h - 1) \/ j = h \/ j \in (h + 1)..n
        OBVIOUS
      <4>2. h \in c..(m - 1) /\ \A j \in c..(h - 1) : j \in c..(m - 1)
        OBVIOUS
      <4> QED BY <3>2, <4>1, <4>2 DEF No
    <3>5. FrontSets(new) = FrontSets(s.hunks) \cup {ToSet(s.hunks[Len(s.hunks)])}
      BY <2>3, <2>9, FrontOfOpened DEF InHunk, ParserStates
    <3>6. FrontSets(t.hunks) =
            {HunkLines(diff, j) : j \in {j \in c..(m - 1) : diff[j].kind = "hunk"}}
      <4>1. FrontSets(t.hunks) = {HunkLines(diff, j) : j \in Earlier} \cup {HunkLines(diff, h)}
        BY <2>2, <3>2, <3>3, <3>5
      <4> HIDE DEF Earlier
      <4> QED BY <3>4, <4>1
    <3>7. Reading(diff, t, c, m) /\ c \in 1..m /\ m \in (c + 1)..m
      BY <2>7, <3>2
    <3> HIDE DEF new
    <3>8. InHunk(diff, t, m)
      BY <1>3, <2>2, <2>5, <2>6, <3>6, <3>7 DEF InHunk
    <3> QED BY <3>8 DEF Follows
  <2> QED BY <2>8, <2>9
<1> QED BY <1>2, <1>3

(* The state after a line of text.                                           *)
LEMMA FollowsText ==
    ASSUME NEW diff, Len(diff) \in Nat, NEW n \in 0..(Len(diff) - 1),
           NEW s \in ParserStates(diff), ~s.broken,
           AtTop(diff, s, n) \/ InFile(diff, s, n) \/ InHunk(diff, s, n),
           diff[n + 1].kind \notin {"old", "hunk"}
    PROVE  Follows(diff, ParseLine(s, diff[n + 1], n + 1), n + 1)
<1> DEFINE m == n + 1
           line == diff[m]
           t == ParseLine(s, line, m)
<1> SUFFICES Follows(diff, t, m)
  OBVIOUS
<1>1. t = PlainLine(s, line, m)
  BY DEF ParseLine, AtTop, InFile, InHunk
<1>2. m \in Nat /\ n \in 0..m
  OBVIOUS
<1>3. ASSUME NEW c \in 1..n, Reading(diff, s, c, n), t.target = s.target, t.patches = s.patches
      PROVE  Reading(diff, t, c, m) /\ c \in 1..m
  <2>1. \A k \in (c + 1)..m : k \in (c + 1)..n \/ k = m
    OBVIOUS
  <2>2. c \in 1..m
    OBVIOUS
  <2> HIDE DEF t
  <2> QED BY <1>3, <2>1, <2>2 DEF Reading, No
<1>4. CASE line.kind = "bad_hunk"
  <2>1. t = Broken(s)
    BY <1>1, <1>4 DEF PlainLine
  <2> HIDE DEF t
  <2> QED BY <2>1 DEF Broken, Follows, ParserStates
<1>5. CASE line.kind # "bad_hunk" /\ AtTop(diff, s, n)
  <2>1. t = s
    BY <1>1, <1>5 DEF PlainLine, AtTop
  <2>2. \A k \in 1..m : k \in 1..n \/ k = m
    OBVIOUS
  <2>3. No("old", diff, 1, m)
    BY <1>5, <2>2 DEF AtTop, No
  <2> HIDE DEF t
  <2> QED BY <1>5, <2>1, <2>3 DEF AtTop, Follows
<1>6. CASE line.kind # "bad_hunk" /\ InFile(diff, s, n)
  <2>1. t = s
    BY <1>1, <1>6 DEF PlainLine, InFile
  <2>2. PICK c \in 1..n : Reading(diff, s, c, n) /\ No("hunk", diff, c, n)
    BY <1>6 DEF InFile
  <2>3. \A k \in c..m : k \in c..n \/ k = m
    OBVIOUS
  <2>4. No("hunk", diff, c, m)
    BY <2>2, <2>3 DEF No
  <2>5. Reading(diff, t, c, m) /\ c \in 1..m
    BY <1>3, <2>1, <2>2
  <2> HIDE DEF t, m
  <2>6. InFile(diff, t, m)
    BY <1>6, <2>1, <2>4, <2>5 DEF InFile
  <2> QED BY <2>6 DEF Follows
<1>7. CASE line.kind # "bad_hunk" /\ InHunk(diff, s, n)
  <2>1. CASE line.kind = "junk"
    <3>1. t = [s EXCEPT !.broken = TRUE]
      BY <1>1, <1>7, <2>1 DEF PlainLine, InHunk
    <3> HIDE DEF t
    <3> QED BY <3>1 DEF Follows, ParserStates
  <2>2. CASE line.kind # "junk"
    <3> DEFINE new == WithLine(s.hunks, m)
    <3>1. t = [s EXCEPT !.hunks = new]
      BY <1>1, <1>7, <2>2 DEF PlainLine, AddLine, InHunk, WithLine
    <3>2. s.hunks \in Hunks /\ s.hunks # <<>>
      BY <1>7 DEF ParserStates, InHunk
    <3>3. /\ new \in Hunks
          /\ Len(new) = Len(s.hunks)
          /\ \A k \in 1..(Len(s.hunks) - 1) : new[k] = s.hunks[k]
          /\ ToSet(new[Len(s.hunks)]) = ToSet(s.hunks[Len(s.hunks)]) \cup {m}
      <4> HIDE DEF m
      <4> QED BY <1>2, <3>2, LineAdded
    <3> HIDE DEF new, t
    <3>4. t.hunks = new /\ t.mode = s.mode /\ t.target = s.target /\ t.patches = s.patches
      BY <3>1 DEF ParserStates
    <3>5. FrontSets(new) = FrontSets(s.hunks)
      BY <3>3 DEF FrontSets
    <3>6. PICK c \in 1..n : \E h \in (c + 1)..n :
            /\ Reading(diff, s, c, n)
            /\ diff[h].kind = "hunk" /\ No("hunk", diff, h + 1, n)
            /\ FrontSets(s.hunks) =
                  {HunkLines(diff, j) : j \in {j \in c..(h - 1) : diff[j].kind = "hunk"}}
            /\ ToSet(s.hunks[Len(s.hunks)]) = (h + 1)..n
      BY <1>7 DEF InHunk
    <3>7. PICK h \in (c + 1)..n :
            /\ Reading(diff, s, c, n)
            /\ diff[h].kind = "hunk" /\ No("hunk", diff, h + 1, n)
            /\ FrontSets(s.hunks) =
                  {HunkLines(diff, j) : j \in {j \in c..(h - 1) : diff[j].kind = "hunk"}}
            /\ ToSet(s.hunks[Len(s.hunks)]) = (h + 1)..n
      BY <3>6
    <3>8. /\ \A k \in (h + 1)..m : k \in (h + 1)..n \/ k = m
          /\ (h + 1)..m = ((h + 1)..n) \cup {m}
          /\ h \in (c + 1)..m
      OBVIOUS
    <3>9. No("hunk", diff, h + 1, m)
      BY <3>7, <3>8 DEF No
    <3>10. ToSet(t.hunks[Len(t.hunks)]) = (h + 1)..m
      BY <3>3, <3>4, <3>7, <3>8
    <3>11. Reading(diff, t, c, m) /\ c \in 1..m
      BY <1>3, <3>4, <3>7
    <3> HIDE DEF m
    <3>12. InHunk(diff, t, m)
      BY <1>7, <3>4, <3>5, <3>7, <3>8, <3>9, <3>10, <3>11 DEF InHunk
    <3> QED BY <3>12 DEF Follows
  <2> QED BY <2>1, <2>2
<1> QED BY <1>4, <1>5, <1>6, <1>7

(* Every line keeps the invariant of the loop.                               *)
LEMMA FollowsStep ==
    ASSUME NEW Line, NEW diff \in Seq(Line), NEW n \in 0..(Len(diff) - 1),
           NEW s \in ParserStates(diff), Follows(diff, s, n)
    PROVE  Follows(diff, ParseLine(s, diff[n + 1], n + 1), n + 1)
<1> DEFINE line == diff[n + 1]
           t == ParseLine(s, line, n + 1)
<1>1. Len(diff) \in Nat
  OBVIOUS
<1>2. n + 1 \in DOMAIN diff /\ n + 1 \in Nat
  OBVIOUS
<1>3. /\ s.broken => t.broken
      /\ s.mode = "header" /\ line.kind # "new" => t.broken
  BY <1>2, ParseLineTyped
<1> SUFFICES Follows(diff, t, n + 1)
  OBVIOUS
<1>4. CASE s.broken
  <2> HIDE DEF t
  <2> QED BY <1>3, <1>4 DEF Follows
<1>5. CASE ~s.broken /\ line.kind = "old"
  BY <1>1, <1>5, FollowsHeader
<1>6. CASE ~s.broken /\ line.kind # "old" /\ AtHeader(diff, s, n)
  <2>1. CASE line.kind = "new"
    BY <1>1, <1>6, <2>1, FollowsNew
  <2>2. CASE line.kind # "new"
    <3>1. s.mode = "header"
      BY <1>6 DEF AtHeader
    <3> HIDE DEF t
    <3> QED BY <1>3, <2>2, <3>1 DEF Follows
  <2> QED BY <2>1, <2>2
<1>7. CASE /\ ~s.broken /\ line.kind = "hunk"
           /\ InFile(diff, s, n) \/ InHunk(diff, s, n)
  BY <1>1, <1>7, FollowsHunk
<1>8. CASE /\ ~s.broken /\ line.kind \notin {"old", "hunk"}
           /\ AtTop(diff, s, n) \/ InFile(diff, s, n) \/ InHunk(diff, s, n)
  BY <1>1, <1>8, FollowsText
<1>9. CASE ~s.broken /\ line.kind = "hunk" /\ AtTop(diff, s, n)
  <2>1. t = Broken(s)
    BY <1>9 DEF ParseLine, PlainLine, AtTop
  <2> HIDE DEF t
  <2> QED BY <2>1 DEF Broken, Follows, ParserStates
<1> QED BY <1>4, <1>5, <1>6, <1>7, <1>8, <1>9 DEF Follows

(* The invariant holds after every line of every diff.                       *)
LEMMA ParserFollows ==
    ASSUME NEW Line, NEW diff \in Seq(Line)
    PROVE  \A n \in 0..Len(diff) :
              /\ ParserAfter(diff)[n] \in ParserStates(diff)
              /\ Follows(diff, ParserAfter(diff)[n], n)
<1> DEFINE after == ParserAfter(diff)
           S == {n \in 0..Len(diff) : after[n] \in ParserStates(diff) /\ Follows(diff, after[n], n)}
<1>1. Len(diff) \in Nat /\ DOMAIN diff = 1..Len(diff)
  OBVIOUS
<1>2. 0 \in S
  <2>1. after[0] = ParserStart
    BY ParserAfterUnfolds
  <2>2. AtTop(diff, ParserStart, 0)
    BY DEF AtTop, ParserStart, No
  <2>3. Follows(diff, ParserStart, 0)
    BY <2>2 DEF Follows
  <2> HIDE DEF after
  <2> QED BY <1>1, <2>1, <2>3, ParserStartTyped
<1>3. ASSUME NEW n \in 0..Len(diff), n \in S /\ n < Len(diff) PROVE n + 1 \in S
  <2>1. /\ n + 1 \in 1..Len(diff) /\ n + 1 \in 0..Len(diff)
        /\ n \in 0..(Len(diff) - 1)
        /\ (n + 1) - 1 = n
    BY <1>1, <1>3
  <2>2. after[n + 1] = ParseLine(after[n], diff[n + 1], n + 1)
    BY <2>1, ParserAfterUnfolds
  <2>3. after[n] \in ParserStates(diff) /\ Follows(diff, after[n], n)
    BY <1>3
  <2> HIDE DEF after
  <2>4. after[n + 1] \in ParserStates(diff)
    BY <1>1, <2>1, <2>2, <2>3, ParseLineTyped
  <2>5. Follows(diff, after[n + 1], n + 1)
    BY <2>1, <2>2, <2>3, FollowsStep
  <2> QED BY <2>1, <2>4, <2>5
<1>4. 0..Len(diff) \subseteq S
  <2> HIDE DEF S
  <2> QED BY <1>1, <1>2, <1>3, LoopInduction
<1> QED BY <1>4

(* What the parser returns is well formed: every patch is of a file that a   *)
(* header of the diff names.                                                 *)
LEMMA ParseTyped ==
    ASSUME NEW Line, NEW diff \in Seq(Line)
    PROVE  Parse(diff).patches \in Patches(diff) /\ Parse(diff).broken \in BOOLEAN
<1> DEFINE end == ParserAfter(diff)[Len(diff)]
           s == [end EXCEPT !.broken = @ \/ end.mode = "header"]
<1>1. end \in ParserStates(diff)
  BY ParserFollows
<1>2. s \in ParserStates(diff)
  <2> HIDE DEF end
  <2> QED BY <1>1 DEF ParserStates
<1>3. Parse(diff) = Flush(s)
  BY DEF Parse, ParserEnd
<1> HIDE DEF s
<1>4. Flush(s).patches \in Patches(diff)
  BY <1>2, FlushTyped
<1>5. Flush(s).broken = s.broken
  BY <1>2, FlushTyped DEF ParserStates
<1> QED BY <1>2, <1>3, <1>4, <1>5 DEF ParserStates

(* Each of its patches is of a file that a header of the diff names.         *)
LEMMA PatchOfHeader ==
    ASSUME NEW Line, NEW diff \in Seq(Line), NEW i \in DOMAIN Parse(diff).patches
    PROVE  Parse(diff).patches[i].path \in HeaderFiles(diff)
<1> DEFINE T == [path : HeaderFiles(diff), hunks : Hunks]
           patches == Parse(diff).patches
<1>1. patches \in Seq(T)
  BY ParseTyped DEF Patches
<1>2. patches[i] \in T
  <2> HIDE DEF T, patches
  <2>1. i \in DOMAIN patches
    BY DEF patches
  <2> QED BY <1>1, <2>1
<1> QED BY <1>2

(* A parser that has no complaint in the end never had one.                  *)
LEMMA NeverBroken ==
    ASSUME NEW Line, NEW diff \in Seq(Line), ~Parse(diff).broken
    PROVE  /\ ParserAfter(diff)[Len(diff)].mode # "header"
           /\ \A n \in 0..Len(diff) : ~ParserAfter(diff)[n].broken
<1> DEFINE N == Len(diff)
           after == ParserAfter(diff)
           s == [after[N] EXCEPT !.broken = @ \/ after[N].mode = "header"]
<1>1. N \in Nat /\ DOMAIN diff = 1..N /\ N \in 0..N
  OBVIOUS
<1>2. \A n \in 0..N : after[n] \in ParserStates(diff)
  BY <1>1, ParserFollows
<1>3. s \in ParserStates(diff) /\ (s.broken <=> after[N].broken \/ after[N].mode = "header")
  <2>1. after[N] \in ParserStates(diff)
    BY <1>1, <1>2
  <2> HIDE DEF after
  <2> QED BY <2>1 DEF ParserStates
<1>4. Flush(s).broken = s.broken
  <2> HIDE DEF s
  <2> QED BY <1>3, FlushTyped DEF ParserStates
<1>5. Parse(diff) = Flush(s)
  BY DEF Parse, ParserEnd
<1>6. ~after[N].broken /\ after[N].mode # "header"
  <2> HIDE DEF s, after
  <2> QED BY <1>3, <1>4, <1>5
<1>7. ASSUME NEW m \in 0..N, after[m].broken PROVE FALSE
  <2> DEFINE S == {n \in 0..N : n >= m => after[n].broken}
  <2>1. 0 \in S
    BY <1>1, <1>7
  <2>2. ASSUME NEW n \in 0..N, n \in S /\ n < N PROVE n + 1 \in S
    <3>1. n + 1 \in 1..N /\ n + 1 \in 0..N /\ (n + 1) - 1 = n /\ n + 1 \in Nat
      BY <1>1, <2>2
    <3>2. after[n + 1] = ParseLine(after[n], diff[n + 1], n + 1)
      BY <3>1, ParserAfterUnfolds
    <3>3. after[n] \in ParserStates(diff)
      BY <1>2
    <3> HIDE DEF after
    <3>4. after[n].broken => after[n + 1].broken
      BY <1>1, <3>1, <3>2, <3>3, ParseLineTyped
    <3>5. n + 1 >= m => n >= m \/ n + 1 = m
      BY <1>1
    <3> QED BY <1>7, <2>2, <3>1, <3>4, <3>5
  <2>3. 0..N \subseteq S
    <3> HIDE DEF S, N
    <3> QED BY <1>1, <2>1, <2>2, LoopInduction
  <2>4. N \in S
    BY <1>1, <2>3
  <2> QED BY <1>1, <1>6, <2>4
<1> QED BY <1>6, <1>7

(* A diff of any length that the parser has no complaint about becomes a     *)
(* patch for each of its sections.                                           *)
LEMMA ParserCutsAtHeaders ==
    ASSUME NEW Line, NEW diff \in Seq(Line), ~Parse(diff).broken
    PROVE  Means(Parse(diff).patches) = Cut(diff)
<1> DEFINE N == Len(diff)
           end == ParserAfter(diff)[N]
           s == [end EXCEPT !.broken = @ \/ end.mode = "header"]
<1>1. N \in Nat /\ DOMAIN diff = 1..N /\ N \in 0..N
  OBVIOUS
<1>2. end \in ParserStates(diff) /\ Follows(diff, end, N)
  BY <1>1, ParserFollows
<1>3. Parse(diff) = Flush(s)
  BY DEF Parse, ParserEnd
<1>6. ~end.broken /\ end.mode # "header"
  BY <1>1, NeverBroken
<1>7. s = end
  <2> HIDE DEF end
  <2> QED BY <1>2, <1>6 DEF ParserStates
<1>8. Cut(diff) = Closed(diff, N)
  BY <1>1 DEF Cut, Closed
<1> HIDE DEF end, s
<1>9. CASE AtTop(diff, end, N)
  <2>1. Flush(end) = end /\ end.patches = <<>>
    BY <1>9 DEF AtTop, Flush
  <2>2. Means(end.patches) = {}
    BY <2>1 DEF Means, ToSet
  <2>3. Closed(diff, N) = {}
    BY <1>9 DEF AtTop, No, Closed
  <2> QED BY <1>3, <1>7, <1>8, <2>1, <2>2, <2>3
<1>10. CASE InFile(diff, end, N) \/ InHunk(diff, end, N)
  <2>1. N \in 1..N
    BY <1>10 DEF InFile, InHunk
  <2> HIDE DEF N
  <2>2. Means(Flush(end).patches) = Closed(diff, N)
    BY <1>1, <1>2, <1>10, <2>1, FileCloses DEF N
  <2> QED BY <1>3, <1>7, <1>8, <2>2
<1> QED BY <1>2, <1>6, <1>9, <1>10 DEF Follows, AtHeader

(* Every line "---" is followed by a line "+++" then.                        *)
LEMMA OldThenNew ==
    ASSUME NEW Line, NEW diff \in Seq(Line), ~Parse(diff).broken,
           NEW i \in DOMAIN diff, diff[i].kind = "old"
    PROVE  i < Len(diff) /\ diff[i + 1].kind = "new"
<1> DEFINE N == Len(diff)
           after == ParserAfter(diff)
<1>1. /\ N \in Nat /\ DOMAIN diff = 1..N
      /\ i \in 1..N /\ i \in 0..N /\ i - 1 \in 0..N /\ i \in Nat
  OBVIOUS
<1>2. after[N].mode # "header" /\ \A n \in 0..N : ~after[n].broken
  BY NeverBroken
<1>3. \A n \in 0..N : after[n] \in ParserStates(diff)
  BY ParserFollows
<1>4. \A n \in 1..N : after[n] = ParseLine(after[n - 1], diff[n], n)
  BY ParserAfterUnfolds
<1> HIDE DEF after
<1>5. after[i].mode = "header"
  <2> DEFINE s == after[i - 1]
             flushed == [s EXCEPT !.patches = Flush(s).patches, !.hunks = Flush(s).hunks]
  <2>1. s \in ParserStates(diff)
    BY <1>1, <1>3
  <2>2. Flush(s) = flushed
    BY <2>1, FlushTyped
  <2>3. after[i] = [Flush(s) EXCEPT !.broken = @ \/ s.mode = "header", !.mode = "header",
                                    !.old = diff[i].path, !.oldMarked = diff[i].marked]
    BY <1>1, <1>4 DEF ParseLine
  <2>4. after[i] = [flushed EXCEPT !.broken = @ \/ s.mode = "header", !.mode = "header",
                                   !.old = diff[i].path, !.oldMarked = diff[i].marked]
    BY <2>2, <2>3
  <2> HIDE DEF s
  <2> QED BY <2>1, <2>4 DEF ParserStates
<1>6. i < N
  BY <1>1, <1>2, <1>5
<1>7. diff[i + 1].kind = "new"
  <2>1. i + 1 \in DOMAIN diff /\ i + 1 \in 1..N /\ i + 1 \in 0..N /\ i + 1 \in Nat /\ (i + 1) - 1 = i
    BY <1>1, <1>6
  <2>2. after[i + 1] = ParseLine(after[i], diff[i + 1], i + 1)
    BY <1>4, <2>1
  <2>3. after[i] \in ParserStates(diff)
    BY <1>1, <1>3
  <2>4. ~after[i + 1].broken
    BY <1>2, <2>1
  <2> QED BY <1>5, <2>1, <2>2, <2>3, <2>4, ParseLineTyped
<1> QED BY <1>6, <1>7

(* Then no line of a hunk that git reads is a header to the parser.          *)
LEMMA NoHeaderInBody ==
    ASSUME NEW Line, NEW diff \in Seq(Line), ~Parse(diff).broken, Canonical(diff),
           NEW k \in Bodies(diff)
    PROVE  diff[k].kind \notin {"old", "hunk"}
<1>0. PICK j \in HunkStarts(diff) : \E e \in Ends(diff, j) : k \in (j + 1)..e
  BY DEF Bodies, Body
<1>1. PICK e \in Ends(diff, j) : k \in (j + 1)..e
  BY <1>0
<1>2. /\ Len(diff) \in Nat /\ DOMAIN diff = 1..Len(diff)
      /\ j \in 1..Len(diff) /\ e \in j..Len(diff) /\ k \in 1..Len(diff)
  BY <1>1 DEF HunkStarts, Ends
<1>3. diff[k].kind \in OldSide \cup NewSide \cup {"note"}
  BY <1>1 DEF Ends
<1>4. diff[k].kind # "hunk"
  BY <1>3 DEF OldSide, NewSide
<1>5. ASSUME diff[k].kind = "old" PROVE FALSE
  <2>1. k < Len(diff) /\ diff[k + 1].kind = "new"
    BY <1>2, <1>5, OldThenNew
  <2>2. CASE k = e
    BY <1>1, <2>1, <2>2 DEF Canonical, TextAfterHunk
  <2>3. CASE k # e
    <3>1. k + 1 \in (j + 1)..e
      BY <1>1, <1>2, <2>3
    <3>2. k + 1 \in Bodies(diff)
      BY <1>1, <3>1 DEF Bodies, Body
    <3> QED BY <1>5, <2>1, <3>2 DEF Canonical, Lookalike
  <2> QED BY <2>2, <2>3
<1> QED BY <1>4, <1>5

(* The counts of a hunk and the parser end it at the same line.              *)
LEMMA SameBody ==
    ASSUME NEW Line, NEW diff \in Seq(Line), ~Parse(diff).broken, Canonical(diff),
           GitAccepts(diff), NEW j \in HunkStarts(diff)
    PROVE  Body(diff, j) = HunkLines(diff, j)
<1>1. Len(diff) \in Nat /\ DOMAIN diff = 1..Len(diff) /\ j \in 1..Len(diff)
  BY DEF HunkStarts
<1>2. ASSUME NEW e \in Ends(diff, j) PROVE HunkLines(diff, j) = (j + 1)..e
  <2>1. e \in 1..Len(diff) /\ j \in 1..e
    BY <1>1 DEF Ends
  <2>2. \A k \in (j + 1)..e : k \in Bodies(diff)
    BY DEF Bodies, Body
  <2>3. No("old", diff, j + 1, e) /\ No("hunk", diff, j + 1, e)
    BY <2>2, NoHeaderInBody DEF No
  <2>4. e = Len(diff) \/ diff[e + 1].kind \in {"old", "hunk"}
    <3>1. ~(e < Len(diff) /\ diff[e + 1].kind \notin {"hunk", "old"})
      BY Zenon DEF Canonical, TextAfterHunk
    <3>2. e < Len(diff) \/ e = Len(diff)
      <4>1. Len(diff) \in Int /\ e \in Int /\ e <= Len(diff)
        BY <1>1, <2>1
      <4> QED BY <4>1
    <3> QED BY <3>1, <3>2
  <2> QED BY <1>1, <2>1, <2>3, <2>4, LinesEnd
<1>3. Ends(diff, j) # {}
  BY DEF GitAccepts
<1> QED BY <1>2, <1>3 DEF Body

(* A hunk that git reads for a file stands in the file's section.            *)
LEMMA GitHunkInSection ==
    ASSUME NEW Line, NEW diff \in Seq(Line), ~Parse(diff).broken, Canonical(diff),
           NEW i \in FileStarts(diff), NEW j \in HunksAfter(diff, i)
    PROVE  j \in HunksOf(diff, i) /\ No("old", diff, i + 1, j)
<1>1. /\ Len(diff) \in Nat /\ i \in 1..Len(diff) /\ j \in 1..Len(diff) /\ i + 2 <= j
      /\ diff[i + 1].kind = "new" /\ diff[j].kind = "hunk"
      /\ (i + 2)..(j - 1) \subseteq HunkStarts(diff) \cup Bodies(diff)
  BY DEF FileStarts, HunksAfter, HunkStarts
<1>2. ASSUME NEW k \in (i + 1)..j PROVE diff[k].kind # "old"
  <2>1. k = i + 1 \/ k = j \/ k \in (i + 2)..(j - 1)
    BY <1>1
  <2>2. ASSUME k \in Bodies(diff) PROVE diff[k].kind # "old"
    BY <2>2, NoHeaderInBody
  <2>3. ASSUME k \in HunkStarts(diff) PROVE diff[k].kind # "old"
    BY <2>3 DEF HunkStarts
  <2> QED BY <1>1, <2>1, <2>2, <2>3
<1>3. j \in i..Len(diff)
  BY <1>1
<1> QED BY <1>1, <1>2, <1>3 DEF HunksOf, Section, No

(* A header starts a file for git, with the hunks of the header's section.   *)
LEMMA SameHunks ==
    ASSUME NEW Line, NEW diff \in Seq(Line), ~Parse(diff).broken, Canonical(diff),
           GitAccepts(diff), NEW i \in DOMAIN diff, diff[i].kind = "old"
    PROVE  i \in FileStarts(diff) /\ HunksAfter(diff, i) = HunksOf(diff, i)
<1>1. Len(diff) \in Nat /\ DOMAIN diff = 1..Len(diff) /\ i \in 1..Len(diff)
  OBVIOUS
<1>2. i \in FileStarts(diff)
  <2>1. i \notin Bodies(diff)
    BY NoHeaderInBody
  <2>2. i < Len(diff) /\ diff[i + 1].kind = "new"
    BY OldThenNew
  <2> QED BY <2>1, <2>2 DEF FileStarts
<1>3. \A j \in HunksAfter(diff, i) : j \in HunksOf(diff, i)
  BY <1>2, GitHunkInSection
<1>4. ASSUME NEW j \in HunksOf(diff, i) PROVE j \in HunksAfter(diff, i)
  <2>1. /\ j \in i..Len(diff) /\ diff[j].kind = "hunk"
        /\ \A k \in (i + 1)..j : diff[k].kind # "old"
    BY DEF HunksOf, Section
  <2>2. j \in HunkStarts(diff)
    BY <1>1, <2>1 DEF HunkStarts
  <2>3. PICK f \in FileStarts(diff) : j \in HunksAfter(diff, f)
    BY <2>2 DEF GitAccepts
  <2>4. /\ f \in 1..Len(diff) /\ f + 2 <= j /\ diff[f].kind = "old"
        /\ \A k \in (f + 1)..j : diff[k].kind # "old"
    BY <2>3, GitHunkInSection DEF FileStarts, HunksAfter, No
  <2>5. ~(i < f)
    <3>1. i < f => f \in (i + 1)..j
      BY <1>1, <2>1, <2>4
    <3> QED BY <2>1, <2>4, <3>1
  <2>6. ~(f < i)
    <3>1. f < i => i \in (f + 1)..j
      BY <1>1, <2>1, <2>4
    <3> QED BY <2>4, <3>1
  <2>7. i = f
    BY <1>1, <2>4, <2>5, <2>6
  <2> QED BY <2>3, <2>7
<1> QED BY <1>2, <1>3, <1>4

(* PatchValidator._parse_unified_diff cuts a diff at its headers and never   *)
(* looks at what a hunk counts.  Of a diff of any length that git apply      *)
(* accepts and that is canonical, it either complains or reads what git      *)
(* reads: the same files, each with the same hunks of the same lines.        *)
THEOREM ParserIsFaithful ==
    ASSUME NEW Line, NEW diff \in Seq(Line), ~Parse(diff).broken,
           GitAccepts(diff), Canonical(diff)
    PROVE  Means(Parse(diff).patches) = GitReads(diff)
<1>1. Means(Parse(diff).patches) = Cut(diff)
  BY ParserCutsAtHeaders
<1>2. ASSUME NEW i \in DOMAIN diff, diff[i].kind = "old"
      PROVE  /\ i \in FileStarts(diff) /\ HunksAfter(diff, i) = HunksOf(diff, i)
             /\ FileRead(diff, i) = CutFile(diff, i)
  <2>1. i \in FileStarts(diff) /\ HunksAfter(diff, i) = HunksOf(diff, i)
    BY <1>2, SameHunks
  <2>2. \A j \in HunksAfter(diff, i) : Body(diff, j) = HunkLines(diff, j)
    BY SameBody DEF HunksAfter
  <2>3. NameRead(diff[i], diff[i + 1]) =
          (IF ~diff[i + 1].marked /\ diff[i].marked THEN diff[i].path ELSE diff[i + 1].path)
    <3>1. (IF Deletes(diff[i + 1]) THEN diff[i] ELSE diff[i + 1]).marked
      BY <2>1 DEF Canonical, BareName
    <3> QED BY <3>1 DEF NameRead, Stripped, Deletes
  <2>4. FileRead(diff, i).hunks = CutFile(diff, i).hunks
    BY <2>1, <2>2 DEF FileRead, CutFile
  <2> QED BY <2>1, <2>2, <2>3 DEF FileRead, CutFile, TargetOf
<1>3. ASSUME NEW i \in FileStarts(diff) PROVE i \in DOMAIN diff /\ diff[i].kind = "old"
  BY DEF FileStarts
<1> QED BY <1>1, <1>2, <1>3 DEF Cut, GitReads
=============================================================================
