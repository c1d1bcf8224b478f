-------------------------- MODULE Proposal_proofs --------------------------
(***************************************************************************)
(* Proofs about Proposal for every set of logs, every tree and every set   *)
(* of answers of the language model.                                       *)
(*                                                                         *)
(* Sequences built by folding (the candidates) or by the parser stay       *)
(* untyped: nothing that is proved here depends on their elements.         *)
(***************************************************************************)
EXTENDS Proposal, PatchReview_proofs, SequenceTheorems, FiniteSetTheorems

-----------------------------------------------------------------------------
(* Minimum and maximum, which the library defines by CHOOSE.                 *)
LEMMA MaxOfTwo ==
  ASSUME NEW a \in Int, NEW b \in Int
  PROVE  /\ Max({a, b}) \in Int
         /\ Max({a, b}) >= a /\ Max({a, b}) >= b
         /\ \A c \in Int : a <= c /\ b <= c => Max({a, b}) <= c
<1>1. \E x \in {a, b} : \A y \in {a, b} : x >= y
  OBVIOUS
<1>2. Max({a, b}) \in {a, b} /\ \A y \in {a, b} : Max({a, b}) >= y
  BY <1>1 DEF Max
<1>3. \A m : m \in {a, b} /\ (\A y \in {a, b} : m >= y) =>
         /\ m \in Int /\ m >= a /\ m >= b
         /\ \A c \in Int : a <= c /\ b <= c => m <= c
  OBVIOUS
<1> QED
  BY <1>2, <1>3

LEMMA MinOfTwo ==
  ASSUME NEW a \in Int, NEW b \in Int
  PROVE  /\ Min({a, b}) \in Int
         /\ Min({a, b}) <= a /\ Min({a, b}) <= b
         /\ \A c \in Int : a >= c /\ b >= c => Min({a, b}) >= c
<1>1. \E x \in {a, b} : \A y \in {a, b} : x =< y
  OBVIOUS
<1>2. Min({a, b}) \in {a, b} /\ \A y \in {a, b} : Min({a, b}) =< y
  BY <1>1 DEF Min
<1>3. \A m : m \in {a, b} /\ (\A y \in {a, b} : m =< y) =>
         /\ m \in Int /\ m <= a /\ m <= b
         /\ \A c \in Int : a >= c /\ b >= c => m >= c
  OBVIOUS
<1> QED
  BY <1>2, <1>3

LEMMA MinIsLeast ==
  ASSUME NEW S \in SUBSET Nat, S # {}
  PROVE  Min(S) \in S /\ \A y \in S : Min(S) <= y
<1> DEFINE R == {ss \in Nat \X Nat : ss[1] < ss[2]}
<1>1. IsWellFoundedOn(R, Nat)
  BY NatLessThanWellFounded DEF OpToRel
<1>2. \A x, y \in Nat : <<y, x>> \in R <=> y < x
  OBVIOUS
<1>3. \E x \in S : \A y \in S : ~(<<y, x>> \in R)
  <2> HIDE DEF R
  <2> QED
    BY <1>1, WFMin
<1>4. PICK x \in S : \A y \in S : ~(<<y, x>> \in R)
  BY <1>3
<1>5. ASSUME NEW y \in S PROVE x =< y
  <2>1. ~(y < x)
    <3>1. <<y, x>> \in R <=> y < x
      BY <1>2
    <3> HIDE DEF R
    <3> QED
      BY <3>1, <1>4
  <2> QED
    BY <2>1
<1> QED
  BY <1>5 DEF Min

LEMMA MinIsOne ==
  ASSUME NEW S \in SUBSET Nat, 1 \in S, 0 \notin S
  PROVE  Min(S) = 1
<1>1. Min(S) \in S /\ Min(S) <= 1
  BY MinIsLeast
<1>2. \A m : m \in S /\ m <= 1 => m = 1
  OBVIOUS
<1> QED
  BY <1>1, <1>2

-----------------------------------------------------------------------------
(* Paths.  What stands after the repository's folder is the file.            *)
LEMMA Singleton ==
  ASSUME NEW T, NEW r \in T
  PROVE  <<r>> \in Seq(T) /\ Len(<<r>>) = 1 /\ <<r>>[1] = r
  OBVIOUS

LEMMA DropFirstSegment ==
  ASSUME NEW T, NEW s \in Seq(T), s # <<>>, NEW r \in T
  PROVE  /\ Len(<<r>> \o s) > 1
         /\ (<<r>> \o s)[1] = r
         /\ Tail(<<r>> \o s) = s
<1> DEFINE path == <<r>> \o s
<1>1. <<r>> \in Seq(T) /\ Len(<<r>>) = 1 /\ <<r>>[1] = r
  BY Singleton
<1>2. /\ path \in Seq(T)
      /\ Len(path) = 1 + Len(s)
      /\ \A i \in 1..(1 + Len(s)) : path[i] = IF i <= 1 THEN r ELSE s[i - 1]
  <2>1. \A i \in 1..(1 + Len(s)) : i <= 1 => <<r>>[i] = r
    BY <1>1
  <2> QED
    BY <1>1, <2>1, ConcatProperties
<1>3. Len(s) \in Nat \ {0}
  BY EmptySeq
<1>4. /\ Tail(path) \in Seq(T) /\ Len(Tail(path)) = Len(s)
      /\ \A i \in 1..Len(s) : Tail(path)[i] = s[i]
  <2>1. path # <<>>
    BY <1>2, <1>3
  <2>2. /\ Tail(path) \in Seq(T) /\ Len(Tail(path)) = Len(s)
        /\ \A i \in 1..Len(s) : Tail(path)[i] = path[i + 1]
    <3> HIDE DEF path
    <3> QED
      BY <1>2, <1>3, <2>1, HeadTailProperties
  <2>3. \A i \in 1..Len(s) : path[i + 1] = s[i]
    <3> HIDE DEF path
    <3> QED
      BY <1>2, <1>3
  <2> QED
    BY <2>2, <2>3
<1>5. Tail(path) = s
  <2> HIDE DEF path
  <2> QED
    BY <1>4, SeqEqual
<1> QED
  BY <1>2, <1>3, <1>5

(* The runner's folders come first, so no other prefix is looked at; of the *)
(* two folders named after the repository the first is always dropped, the  *)
(* second unless it looks like a file.                                      *)
LEMMA RunnerPathStripped ==
  ASSUME NEW Name, {"home", "runner", "work"} \subseteq Name,
         NEW repo \in Name, repo # NoRepo,
         NEW file \in Seq(Name), file # <<>>
  PROVE  Normalize(OnRunner(repo, file), repo) =
            IF repo \in FileName THEN <<repo>> \o file ELSE file
<1> DEFINE path == OnRunner(repo, file)
           work == <<"home", "runner", "work">>
           folders == <<"home", "runner", "work", repo, repo>>
           inside == <<repo>> \o file
<1>1. Len(file) \in Nat \ {0}
  BY EmptySeq
<1>2. /\ path.rooted = TRUE
      /\ path.parts = folders \o file
  BY DEF OnRunner, Written
<1>3. /\ path.parts \in Seq(Name)
      /\ Len(path.parts) = 5 + Len(file)
      /\ \A i \in 1..5 : path.parts[i] = folders[i]
      /\ \A i \in 1..Len(file) : path.parts[i + 5] = file[i]
  <2>1. folders \in Seq(Name) /\ Len(folders) = 5
    OBVIOUS
  <2>2. /\ folders \o file \in Seq(Name)
        /\ Len(folders \o file) = 5 + Len(file)
        /\ \A i \in 1..(5 + Len(file)) :
              (folders \o file)[i] = IF i <= 5 THEN folders[i] ELSE file[i - 5]
    <3> HIDE DEF folders
    <3>1. /\ folders \o file \in Seq(Name)
          /\ Len(folders \o file) = Len(folders) + Len(file)
          /\ \A i \in 1..(Len(folders) + Len(file)) : (folders \o file)[i] =
                IF i <= Len(folders) THEN folders[i] ELSE file[i - Len(folders)]
      BY <2>1, ConcatProperties
    <3> QED
      BY <2>1, <3>1
  <2> HIDE DEF folders, path
  <2>3. \A i \in 1..Len(file) : (folders \o file)[i + 5] = file[i]
    BY <1>1, <2>2
  <2>4. \A i \in 1..5 : (folders \o file)[i] = folders[i]
    BY <1>1, <2>2
  <2> QED
    BY <1>2, <2>2, <2>3, <2>4
<1>4. Occurrences(work, path) # {} /\ Min(Occurrences(work, path)) = 1
  <2>1. Occurrences(work, path) \in SUBSET Nat /\ 0 \notin Occurrences(work, path)
    BY <1>1, <1>3 DEF Occurrences
  <2>2. 1 \in Occurrences(work, path)
    <3>1. 1 \in 1..(Len(path.parts) - Len(work))
      BY <1>1, <1>3
    <3>2. \A k \in DOMAIN work : path.parts[1 + k - 1] = work[k]
      <4>1. \A k \in 1..3 : folders[k] = work[k]
        OBVIOUS
      <4>2. DOMAIN work = 1..3
        OBVIOUS
      <4> HIDE DEF path, work, folders
      <4> QED
        BY <1>3, <4>1, <4>2
    <3> HIDE DEF path, work
    <3> QED
      BY <1>2, <3>1, <3>2 DEF Occurrences
  <2> QED
    BY <2>1, <2>2, MinIsOne
<1>5. AfterPrefix(path, COMMON_RUNNER_PREFIXES) = SubSeq(path.parts, 4, 5 + Len(file))
  <2> DEFINE prefixes == COMMON_RUNNER_PREFIXES
             found == {k \in DOMAIN prefixes : Occurrences(prefixes[k], path) # {}}
  <2>1. prefixes[1] = work /\ DOMAIN prefixes = 1..5
    BY DEF COMMON_RUNNER_PREFIXES
  <2>2. 1 \in found
    <3> HIDE DEF prefixes, path, work
    <3> QED
      BY <1>4, <2>1
  <2>3. Min(found) = 1
    <3>1. found \in SUBSET Nat /\ 0 \notin found
      <4> HIDE DEF prefixes, path
      <4> QED
        BY <2>1
    <3> HIDE DEF found
    <3> QED
      BY <2>2, <3>1, MinIsOne
  <2>4. AfterPrefix(path, prefixes) =
          SubSeq(path.parts, Min(Occurrences(work, path)) + Len(work), Len(path.parts))
    <3> HIDE DEF path, work
    <3> QED
      BY <2>1, <2>2, <2>3 DEF AfterPrefix
  <2>5. Len(work) = 3
    OBVIOUS
  <2> HIDE DEF path, work
  <2> QED
    BY <1>3, <1>4, <2>4, <2>5
<1>6. inside \in Seq(Name) /\ inside # <<>> /\ Len(inside) = 1 + Len(file)
  <2>1. Len(inside) > 1
    BY <1>1, DropFirstSegment
  <2>2. inside \in Seq(Name) /\ Len(inside) = 1 + Len(file)
    BY <1>1, ConcatProperties
  <2> QED
    BY <2>1, <2>2
<1>7. SubSeq(path.parts, 4, 5 + Len(file)) = <<repo>> \o inside
  <2> DEFINE after == SubSeq(path.parts, 4, 5 + Len(file))
             both == <<repo>> \o inside
  <2>1. /\ after \in Seq(Name)
        /\ Len(after) = 2 + Len(file)
        /\ \A i \in 1..(2 + Len(file)) : after[i] = path.parts[4 + i - 1]
    <3>1. \A i \in 4..(5 + Len(file)) : path.parts[i] \in Name
      <4> HIDE DEF path
      <4> QED
        BY <1>1, <1>3, ElementOfSeq
    <3> HIDE DEF path
    <3> QED
      BY <1>1, <3>1, SubSeqProperties
  <2>2. /\ both \in Seq(Name) /\ Len(both) = 2 + Len(file)
        /\ \A i \in 1..(2 + Len(file)) :
              both[i] = IF i <= 1 THEN repo ELSE inside[i - 1]
    <3>1. <<repo>> \in Seq(Name) /\ Len(<<repo>>) = 1
          /\ \A i \in 1..1 : <<repo>>[i] = repo
      BY Singleton
    <3> HIDE DEF inside
    <3> QED
      BY <1>1, <1>6, <3>1, ConcatProperties
  <2>3. \A i \in 1..(1 + Len(file)) : inside[i] = IF i <= 1 THEN repo ELSE file[i - 1]
    <3>1. <<repo>> \in Seq(Name) /\ Len(<<repo>>) = 1
          /\ \A i \in 1..1 : <<repo>>[i] = repo
      BY Singleton
    <3> QED
      BY <1>1, <3>1, ConcatProperties
  <2>4. folders[4] = repo /\ folders[5] = repo
    OBVIOUS
  <2>5. ASSUME NEW i \in 1..(2 + Len(file)) PROVE after[i] = both[i]
    <3> HIDE DEF path, inside, folders, after, both
    <3>1. CASE i <= 2
      <4>1. after[i] = path.parts[i + 3] /\ path.parts[i + 3] = folders[i + 3]
        BY <1>3, <2>1, <3>1
      <4>2. folders[i + 3] = repo
        BY <2>4, <3>1
      <4>3. both[i] = repo
        BY <1>1, <2>2, <2>3, <3>1
      <4> QED
        BY <4>1, <4>2, <4>3
    <3>2. CASE i > 2
      <4>1. i - 2 \in 1..Len(file) /\ i - 1 \in 1..(1 + Len(file)) /\ (i - 1) - 1 = i - 2
        BY <1>1, <3>2
      <4>2. both[i] = file[i - 2]
        BY <2>2, <2>3, <3>2, <4>1
      <4>3. after[i] = path.parts[(i - 2) + 5]
        BY <2>1, <4>1
      <4> QED
        BY <1>3, <4>1, <4>2, <4>3
    <3> QED
      BY <1>1, <3>1, <3>2
  <2> HIDE DEF after, both
  <2> QED
    BY <1>1, <2>1, <2>2, <2>5, SeqEqual
<1>8. /\ Len(<<repo>> \o inside) > 1
      /\ (<<repo>> \o inside)[1] = repo
      /\ Tail(<<repo>> \o inside) = inside
      /\ <<repo>> \o inside # <<>>
  <2> HIDE DEF inside
  <2> QED
    BY <1>1, <1>6, DropFirstSegment, EmptySeq
<1>9. Len(inside) > 1 /\ inside[1] = repo /\ Tail(inside) = file
  BY <1>1, DropFirstSegment
<1>10. Normalize(path, repo) = DropFirst(inside, LAMBDA s : s \notin FileName)
  <2> HIDE DEF path, inside
  <2> QED
    BY <1>1, <1>5, <1>7, <1>8 DEF Normalize, StripWith, DropFirst
<1>11. DropFirst(inside, LAMBDA s : s \notin FileName) =
          IF repo \in FileName THEN inside ELSE file
  <2> HIDE DEF inside
  <2> QED
    BY <1>9 DEF DropFirst
<1> QED
  BY <1>10, <1>11

LEMMA RunnerPathResolves ==
  ASSUME NEW file \in DOMAIN Tree
  PROVE  Normalize(OnRunner(RepoName, file), RepoName) =
            IF RepoName \in FileName THEN <<RepoName>> \o file ELSE file
<1> DEFINE Name == STRING \cup {"home", "runner", "work"}
<1>1. {"home", "runner", "work"} \subseteq Name /\ STRING \subseteq Name
  OBVIOUS
<1>2. RepoName \in Name /\ RepoName # NoRepo
  BY RepoAssumption
<1>3. file \in Seq(Name) /\ file # <<>>
  <2>1. file \in Seq(STRING) /\ file # <<>>
    BY TreeAssumption
  <2> HIDE DEF Name
  <2> QED
    BY <1>1, <2>1, SeqMonotonic
<1> HIDE DEF Name
<1> QED
  BY <1>1, <1>2, <1>3, RunnerPathStripped

(* RunnerPathsResolve: the file a runner's path means does not depend on     *)
(* the state, so this holds of every queue.                                  *)
THEOREM ProposalRunnerPaths == Spec => []RunnerPathsResolve
<1>1. RunnerPathsResolve
  BY RunnerPathResolves DEF RunnerPathsResolve, FileAt
<1> QED
  BY <1>1, PTL

-----------------------------------------------------------------------------
(* The excerpt of a log.                                                     *)
LEMMA BetweenBounds ==
  ASSUME NEW log, Len(log) \in Nat, NEW first \in Int, NEW last \in Int,
         NEW i \in 1..Len(log), first <= i, i <= last
  PROVE  i \in Between(log, first, last).from..Between(log, first, last).to
<1>1. 1 \in Int /\ Len(log) \in Int /\ i \in Int /\ 1 <= i /\ Len(log) >= i /\ last >= i
  OBVIOUS
<1>2. Max({1, first}) \in Int /\ Max({1, first}) <= i
  BY <1>1, MaxOfTwo, Zenon
<1>3. Min({Len(log), last}) \in Int /\ Min({Len(log), last}) >= i
  BY <1>1, MinOfTwo, Zenon
<1> QED
  BY <1>2, <1>3 DEF Between, Lines

(* The match is a line further down than LineAt says at the most.            *)
LEMMA SurroundingHasLine ==
  ASSUME NEW log, Len(log) \in Nat, NEW i \in 1..Len(log), NEW window \in Nat \ {0}
  PROVE  i \in Surrounding(log, i, window).from..Surrounding(log, i, window).to
<1>1. LineAt(log, i) \in Int /\ LineAt(log, i) <= i /\ i <= LineAt(log, i) + 1
  BY DEF LineAt
<1> QED
  BY <1>1, BetweenBounds DEF Surrounding

LEMMA RuleApplies ==
  ASSUME NEW log, RuleFor(log) # 0
  PROVE  RuleFor(log) \in 1..6 /\ Starts(log, Rules[RuleFor(log)]) # {}
<1> DEFINE I == {k \in 1..Len(Rules) : Starts(log, Rules[k]) # {}}
<1>1. Len(Rules) = 6
  BY DEF Rules
<1>2. RuleFor(log) = IF I # {} THEN Min(I) ELSE 0
  BY DEF RuleFor, SelectInSeq
<1>3. I \in SUBSET Nat
  BY <1>1
<1>4. Min(I) \in I
  <2> HIDE DEF I
  <2> QED
    BY <1>2, <1>3, MinIsLeast
<1>5. RuleFor(log) \in I
  <2> HIDE DEF I
  <2> QED
    BY <1>2, <1>4
<1> QED
  BY <1>1, <1>5

LEMMA RuleValues ==
  ASSUME NEW k \in 1..6, NEW log, NEW i
  PROVE  WindowOf[Rules[k]] \in Nat \ {0} /\ Category(log, Rules[k], i) \in FailureCategory
<1>1. Rules[k] \in {"module_missing", "traceback", "pytest", "ruff", "mypy", "pip"}
  BY DEF Rules
<1>2. WindowOf[Rules[k]] \in Nat \ {0}
  BY <1>1 DEF WindowOf
<1>3. Category(log, Rules[k], i) \in FailureCategory
  BY <1>1 DEF Category, FailureCategory
<1> QED
  BY <1>2, <1>3

HasMatch(s) == s.at \in s.excerpt.from..s.excerpt.to

LEMMA SignalHasMatch ==
  ASSUME NEW log \in Logs
  PROVE  HasMatch(Signal(log)) /\ Signal(log).category \in FailureCategory
<1>1. Len(log) \in Nat \ {0} /\ DOMAIN log = 1..Len(log)
  BY LogAssumption, EmptySeq, LenProperties
<1>2. CASE RuleFor(log) = 0
  <2> DEFINE marked == LinesOf(log, Markers)
  <2>1. marked \in SUBSET Nat /\ marked \subseteq 1..Len(log)
    BY <1>1 DEF LinesOf
  <2>2. CASE marked = {}
    <3>1. Len(log) \in Between(log, Len(log) - 14, Len(log)).from
                        ..Between(log, Len(log) - 14, Len(log)).to
      BY <1>1, BetweenBounds
    <3> QED
      BY <1>2, <2>2, <3>1 DEF Signal, Unclassified, HasMatch, FailureCategory
  <2>3. CASE marked # {}
    <3> DEFINE i == Min(marked)
    <3>1. i \in 1..Len(log)
      <4> HIDE DEF marked
      <4> QED
        BY <2>1, <2>3, MinIsLeast
    <3>2. i \in Between(log, i - 3, i + 7).from..Between(log, i - 3, i + 7).to
      <4> HIDE DEF i
      <4> QED
        BY <1>1, <3>1, BetweenBounds
    <3> QED
      BY <1>2, <2>3, <3>2 DEF Signal, Unclassified, HasMatch, FailureCategory
  <2> QED
    BY <2>2, <2>3
<1>3. CASE RuleFor(log) # 0
  <2> DEFINE rule == Rules[RuleFor(log)]
             i == Min(Starts(log, rule))
  <2>1. RuleFor(log) \in 1..6 /\ Starts(log, rule) # {}
    BY <1>3, RuleApplies
  <2>2. Starts(log, rule) \in SUBSET Nat /\ Starts(log, rule) \subseteq 1..Len(log)
    BY <1>1 DEF Starts, LinesOf
  <2>3. i \in 1..Len(log)
    <3> HIDE DEF rule
    <3> QED
      BY <2>1, <2>2, MinIsLeast
  <2>4. WindowOf[rule] \in Nat \ {0} /\ Category(log, rule, i) \in FailureCategory
    BY <2>1, RuleValues
  <2>5. i \in Surrounding(log, i, WindowOf[rule]).from
                ..Surrounding(log, i, WindowOf[rule]).to
    <3> HIDE DEF i, rule
    <3> QED
      BY <1>1, <2>3, <2>4, SurroundingHasLine
  <2> HIDE DEF rule
  <2>6. Signal(log) = Classified(log, rule)
    BY <1>3 DEF Signal, rule
  <2> QED
    BY <2>4, <2>5, <2>6 DEF Classified, HasMatch
<1> QED
  BY <1>2, <1>3

-----------------------------------------------------------------------------
(* The window around a line.                                                 *)
Shows(w, line, total) ==
    /\ w.from \in Int /\ w.to \in Int
    /\ 1 <= w.from /\ w.from <= w.to /\ w.to <= total
    /\ w.to - w.from <= MaxWindow
    /\ line \in 1..total => w.from <= line /\ line <= w.to

LEMMA WindowShows ==
  ASSUME NEW line, NEW total \in Nat \ {0}
  PROVE  Shows(Window(line, total), line, total)
<1> DEFINE half == MaxWindow \div 2
<1>1. MaxWindow \in Int /\ MaxWindow >= 1 /\ half \in Int /\ half >= 0 /\ 2 * half <= MaxWindow
  BY LimitAssumption
<1>2. total \in Int /\ total >= 1 /\ 1 \in Int
  OBVIOUS
<1> HIDE DEF half
<1>3. CASE line \in 1..total
  <2> DEFINE from == Max({1, line - half})
             to == Min({total, line + half})
  <2>1. /\ line \in Int /\ 1 <= line /\ total >= line
        /\ line - half \in Int /\ line - half <= line
        /\ line + half \in Int /\ line + half >= line
    BY <1>1, <1>3
  <2>2. from \in Int /\ from >= 1 /\ from >= line - half /\ from <= line
    BY <1>2, <2>1, MaxOfTwo, Zenon
  <2>3. to \in Int /\ to <= total /\ to <= line + half /\ to >= line
    BY <1>2, <2>1, MinOfTwo, Zenon
  <2>4. Window(line, total) = [from |-> from, to |-> to]
    BY <1>3 DEF Window, Lines, half
  <2> HIDE DEF from, to
  <2> QED
    BY <1>1, <1>2, <2>1, <2>2, <2>3, <2>4 DEF Shows
<1>4. CASE line \notin 1..total
  <2> DEFINE to == Min({total, MaxWindow})
  <2>1. total >= 1
    BY <1>2
  <2>2. to \in Int /\ to <= total /\ to <= MaxWindow /\ to >= 1
    BY <1>1, <1>2, MinOfTwo, Zenon
  <2>3. Window(line, total) = [from |-> 1, to |-> to]
    BY <1>4 DEF Window, Lines
  <2> HIDE DEF to
  <2> QED
    BY <1>1, <1>2, <1>4, <2>2, <2>3 DEF Shows
<1> QED
  BY <1>3, <1>4

-----------------------------------------------------------------------------
(* The evidence.  What an item may be, and a sequence of such items.         *)
Fits(e) ==
    /\ e.path \in DOMAIN Tree
    /\ Shows(e, e.line, Tree[e.path].lines)

Gathered ==
    /\ \E S : evidence \in Seq(S)
    /\ \A i \in 1..Len(evidence) : Fits(evidence[i])
    /\ Len(evidence) <= MaxEvidenceFiles
    /\ used \in Nat /\ used <= MaxChars

LEMMA ProductIsNat ==
  ASSUME NEW a \in Nat, NEW b \in Nat
  PROVE  a * b \in Nat
  OBVIOUS

LEMMA ExcerptFits ==
  ASSUME NEW i, Readable(FileAt(i))
  PROVE  Fits(Excerpted(i)) /\ Excerpted(i).chars \in Nat
<1> DEFINE file == FileAt(i)
           total == Tree[file].lines
           w == Window(queue[i].line, total)
<1>1. file \in DOMAIN Tree /\ total \in Nat \ {0} /\ Tree[file].width \in Nat
  BY TreeAssumption DEF Readable
<1>2. Shows(w, queue[i].line, total)
  <2> HIDE DEF total
  <2> QED
    BY <1>1, WindowShows
<1>3. (w.to - w.from + 1) * Tree[file].width \in Nat
  <2>1. w.to - w.from + 1 \in Nat
    BY <1>2 DEF Shows
  <2> HIDE DEF w, file
  <2> QED
    BY <1>1, <2>1, ProductIsNat
<1>4. Excerpted(i) = [path |-> file, line |-> queue[i].line, from |-> w.from, to |-> w.to,
                      chars |-> (w.to - w.from + 1) * Tree[file].width]
  BY DEF Excerpted
<1> HIDE DEF file, w
<1> QED
  BY <1>1, <1>2, <1>3, <1>4 DEF Fits, Shows

LEMMA AppendFits ==
  ASSUME NEW S, NEW s \in Seq(S), NEW e, Fits(e),
         \A i \in 1..Len(s) : Fits(s[i])
  PROVE  /\ Append(s, e) \in Seq(S \cup {e})
         /\ Len(Append(s, e)) = Len(s) + 1
         /\ \A i \in 1..Len(Append(s, e)) : Fits(Append(s, e)[i])
<1> DEFINE T == S \cup {e}
           t == Append(s, e)
<1>1. s \in Seq(T) /\ e \in T
  <2>1. S \subseteq T /\ e \in T
    OBVIOUS
  <2> HIDE DEF T
  <2> QED
    BY <2>1, SeqMonotonic
<1> HIDE DEF T
<1>2. t \in Seq(T) /\ Len(t) = Len(s) + 1
  BY <1>1, AppendProperties
<1>3. Len(s) \in Nat /\ \A i \in 1..Len(s) : t[i] = s[i]
  BY <1>1, AppendProperties, LenProperties
<1>4. t[Len(s) + 1] = e
  BY <1>1, AppendProperties
<1>5. ASSUME NEW i \in 1..Len(t) PROVE Fits(t[i])
  <2> HIDE DEF t
  <2>1. i \in 1..Len(s) \/ i = Len(s) + 1
    BY <1>2, <1>3
  <2> QED
    BY <1>3, <1>4, <2>1
<1> QED
  BY <1>2, <1>5 DEF T

-----------------------------------------------------------------------------
(* A patch that is given no reason against it.                               *)
LEMMA ReviewIsSound ==
  ASSUME NEW ans, NEW ev, NEW named
  PROVE  LET v == Review(ans, ev, named) IN
         /\ v.reasons \subseteq Reasons
         /\ v.risk \in {"low", "medium", "high"}
         /\ v.reasons = {} =>
               /\ v.patches # <<>>
               /\ \A f \in v.targets : Judged(f) \in Grounded(ev, named) \ ProtectedFiles
               /\ v.targets \subseteq TestFiles => v.targets = {}
               /\ ~ \/ Cardinality(v.targets) > MaxTargetFiles
                    \/ Len(ans.diff) > MaxPatchLines
                    \/ ans.chars > MaxPatchChars
<1> DEFINE parsed == Parse(ans.diff)
           targets == Targets(parsed, ans.claimed)
           size == SizeReasons(ans, parsed)
           file == FileReasons(targets, Grounded(ev, named))
           risk == Risk(targets, ans.diff)
<1>1. CASE IsEmpty(ans.diff)
  BY <1>1 DEF Review, Verdict, Reasons
<1>2. CASE ~IsEmpty(ans.diff)
  <2>1. Review(ans, ev, named) =
          [reasons |-> size \cup file, patches |-> parsed.patches, targets |-> targets,
           risk |-> risk]
    BY <1>2 DEF Review, Verdict
  <2> HIDE DEF parsed, targets
  <2>2. risk \in {"low", "medium", "high"}
    BY DEF Risk
  <2>3. size \cup file \subseteq Reasons
    BY DEF SizeReasons, FileReasons
  <2>4. size = {} =>
          /\ parsed.patches # <<>>
          /\ ~(Len(ans.diff) > MaxPatchLines) /\ ~(ans.chars > MaxPatchChars)
    <3>1. {"chars", "lines", "syntax", "no_block"} \subseteq Reasons
      BY DEF Reasons
    <3> QED
      BY <3>1 DEF SizeReasons
  <2>5. file = {} =>
          /\ \A f \in targets : Judged(f) \in Grounded(ev, named) \ ProtectedFiles
          /\ targets \subseteq TestFiles => targets = {}
          /\ ~(Cardinality(targets) > MaxTargetFiles)
    <3>1. {"too_many", "protected", "ungrounded", "tests_only"} \subseteq Reasons
      BY DEF Reasons
    <3> QED
      BY <3>1 DEF FileReasons
  <2> HIDE DEF size, file, risk
  <2>6. size \cup file = {} => size = {} /\ file = {}
    OBVIOUS
  <2> QED
    BY <2>1, <2>2, <2>3, <2>4, <2>5, <2>6
<1> QED
  BY <1>1, <1>2

(* A path without a runner's folders is the file it spells.                  *)
LEMMA PlainPathStays ==
  ASSUME NEW file, ~HasRunnerFolder(Relative(file))
  PROVE  Normalize(Relative(file), NoRepo) = file
<1> DEFINE path == Relative(file)
           found == {k \in DOMAIN COMMON_RUNNER_PREFIXES :
                        Occurrences(COMMON_RUNNER_PREFIXES[k], path) # {}}
<1>1. found = {}
  BY DEF HasRunnerFolder
<1>2. AfterPrefix(path, COMMON_RUNNER_PREFIXES) = <<>>
  BY <1>1 DEF AfterPrefix
<1>3. path.parts = file
  BY DEF Relative, Written
<1> QED
  BY <1>2, <1>3 DEF Normalize, StripWith

(* What a review without a complaint about syntax took from a diff that git  *)
(* accepts.                                                                  *)
LEMMA ReviewIsFaithful ==
  ASSUME NEW ans \in Answers, NEW ev, NEW named,
         {"syntax", "empty"} \cap Review(ans, ev, named).reasons = {},
         GitAccepts(ans.diff), Canonical(ans.diff)
  PROVE  Means(Review(ans, ev, named).patches) = GitReads(ans.diff)
<1> DEFINE parsed == Parse(ans.diff)
           size == SizeReasons(ans, parsed)
           file == FileReasons(Targets(parsed, ans.claimed), Grounded(ev, named))
<1>1. ~IsEmpty(ans.diff)
  BY DEF Review, Verdict
<1>2. /\ Review(ans, ev, named).reasons = size \cup file
      /\ Review(ans, ev, named).patches = parsed.patches
  BY <1>1 DEF Review, Verdict
<1>3. "syntax" \notin size
  <2> HIDE DEF size, file
  <2> QED
    BY <1>2
<1>4. ~parsed.broken
  BY <1>3 DEF SizeReasons, Reasons
<1> DEFINE Line == [kind : STRING, marked : BOOLEAN, was : Nat, now : Nat,
                    path : [rooted : BOOLEAN, parts : Seq(STRING)]]
<1>5. ans.diff \in Seq(Line)
  BY AnswerAssumption
<1>6. Means(parsed.patches) = GitReads(ans.diff)
  <2> HIDE DEF Line
  <2> QED
    BY <1>4, <1>5, ParserIsFaithful
<1> QED
  BY <1>2, <1>6

(* A patch of files that were shown, none of them in a runner's folder.      *)
LEMMA ReviewAcceptsShown ==
  ASSUME answer \in Answers, NEW named,
         PathsOfAnswer \subseteq
            {path \in {Relative(e.path) : e \in ToSet(evidence)} : ~HasRunnerFolder(path)}
  PROVE  "ungrounded" \notin Review(answer, evidence, named).reasons
<1> DEFINE parsed == Parse(answer.diff)
           targets == Targets(parsed, answer.claimed)
           grounded == Grounded(evidence, named)
<1>1. ASSUME NEW path \in PathsOfAnswer
      PROVE  Judged(Normalize(path, NoRepo)) \in grounded
  <2>1. PICK i \in DOMAIN evidence :
          path = Relative(evidence[i].path) /\ ~HasRunnerFolder(path)
    BY DEF ToSet
  <2>2. Normalize(path, NoRepo) = evidence[i].path
    BY <2>1, PlainPathStays
  <2>3. Judged(evidence[i].path) = evidence[i].path
    BY <2>1, PlainPathStays DEF Judged
  <2> QED
    BY <2>2, <2>3 DEF Grounded
<1>2. HeaderPaths(answer.diff) \subseteq PathsOfAnswer
  BY DEF HeaderPaths, PathsOfAnswer, ToSet
<1>3. \A i \in DOMAIN answer.claimed : answer.claimed[i] \in PathsOfAnswer
  BY DEF PathsOfAnswer, ToSet
<1>4. \A i \in DOMAIN parsed.patches : parsed.patches[i].path \in HeaderFiles(answer.diff)
  <2> DEFINE Line == [kind : STRING, marked : BOOLEAN, was : Nat, now : Nat,
                      path : [rooted : BOOLEAN, parts : Seq(STRING)]]
  <2>1. answer.diff \in Seq(Line)
    BY AnswerAssumption
  <2> HIDE DEF Line
  <2> QED
    BY <2>1, PatchOfHeader
<1>5. \A f \in targets : \E path \in PathsOfAnswer : f = Normalize(path, NoRepo)
  <2> HIDE DEF parsed
  <2> QED
    BY <1>2, <1>3, <1>4 DEF Targets, HeaderFiles
<1>6. "ungrounded" \notin FileReasons(targets, grounded)
  <2> HIDE DEF targets, grounded
  <2> QED
    BY <1>1, <1>5 DEF FileReasons
<1>7. "ungrounded" \notin SizeReasons(answer, parsed)
  BY DEF SizeReasons
<1> HIDE DEF parsed, targets, grounded
<1>8. CASE IsEmpty(answer.diff)
  BY <1>8 DEF Review, Verdict
<1>9. CASE ~IsEmpty(answer.diff)
  BY <1>6, <1>7, <1>9 DEF Review, Verdict, parsed, targets, grounded
<1> QED
  BY <1>8, <1>9

-----------------------------------------------------------------------------
(* The three loops that build lists.                                         *)
Distinct(q) == \A i, j \in DOMAIN q : q[i] = q[j] => i = j

LEMMA AppendDistinct ==
  ASSUME NEW S, NEW q \in Seq(S), NEW e \in S, Distinct(q),
         \A i \in 1..Len(q) : q[i] # e
  PROVE  Append(q, e) \in Seq(S) /\ Distinct(Append(q, e))
<1> DEFINE r == Append(q, e)
<1>1. /\ r \in Seq(S) /\ Len(r) = Len(q) + 1 /\ Len(q) \in Nat
      /\ \A i \in 1..Len(q) : r[i] = q[i]
      /\ r[Len(q) + 1] = e
  BY AppendProperties, LenProperties
<1>2. DOMAIN r = 1..(Len(q) + 1) /\ DOMAIN q = 1..Len(q)
  BY <1>1, LenProperties
<1> HIDE DEF r
<1>3. ASSUME NEW i \in 1..(Len(q) + 1), NEW j \in 1..(Len(q) + 1), r[i] = r[j] PROVE i = j
  <2>1. i \in 1..Len(q) \/ i = Len(q) + 1
    BY <1>1
  <2>2. j \in 1..Len(q) \/ j = Len(q) + 1
    BY <1>1
  <2> QED
    BY <1>1, <1>2, <1>3, <2>1, <2>2 DEF Distinct
<1> QED
  BY <1>1, <1>2, <1>3 DEF Distinct, r

(* _extract_traceback_frames returns a list of frames.                       *)
LEMMA FramesAreSequence ==
  ASSUME NEW log \in Logs
  PROVE  \E S : FramesOf(log) \in Seq(S)
<1> DEFINE N == Len(log)
           S == {Frame(log[i].path, log[i].line) : i \in 1..N}
           State == Seq(S)
           turn == [n \in 1..N |-> [s \in State |->
                       IF log[n].kind = "frame"
                       THEN Append(s, Frame(log[n].path, log[n].line)) ELSE s]]
           Loop(a) == [i \in 0..N |->
                          IF i = 0 THEN <<>>
                          ELSE IF log[i].kind = "frame"
                               THEN Append(a[i - 1], Frame(log[i].path, log[i].line))
                               ELSE a[i - 1]]
           chosen == CHOOSE a : a = Loop(a)
<1>1. N \in Nat
  BY LogAssumption, LenProperties
<1>2. ASSUME NEW n \in 1..N, NEW s \in State
      PROVE  (IF log[n].kind = "frame"
              THEN Append(s, Frame(log[n].path, log[n].line)) ELSE s) \in State
  <2>1. Frame(log[n].path, log[n].line) \in S
    OBVIOUS
  <2> HIDE DEF S
  <2> QED
    BY <2>1, AppendProperties
<1>3. PICK f \in [0..N -> State] :
        f[0] = <<>> /\ \A n \in 1..N : f[n] = turn[n][f[n - 1]]
  <2>1. turn \in [1..N -> [State -> State]]
    <3> HIDE DEF State
    <3> QED
      BY <1>2
  <2>2. <<>> \in State
    OBVIOUS
  <2>3. LoopStates(N, State, <<>>, turn) # {}
    <3> HIDE DEF turn, N, State
    <3> QED
      BY <1>1, <2>1, <2>2, LoopStatesExist
  <2> HIDE DEF turn, N, State
  <2> QED
    BY <2>3 DEF LoopStates
<1>4. f = Loop(f)
  <2>1. \A n \in 1..N : n - 1 \in 0..N
    BY <1>1
  <2>2. \A n \in 1..N : f[n - 1] \in State
    BY <1>3, <2>1
  <2>3. \A n \in 0..N : f[n] = Loop(f)[n]
    <3>1. \A n \in 1..N : f[n] = IF log[n].kind = "frame"
                                 THEN Append(f[n - 1], Frame(log[n].path, log[n].line))
                                 ELSE f[n - 1]
      <4> HIDE DEF State
      <4> QED
        BY <1>3, <2>2
    <3>2. \A n \in 0..N : n = 0 \/ n \in 1..N
      BY <1>1
    <3> QED
      BY <1>3, <3>1, <3>2
  <2>4. f = [n \in 0..N |-> f[n]]
    BY <1>3
  <2> QED
    BY <2>3, <2>4
<1>5. chosen = Loop(chosen)
  <2> HIDE DEF Loop
  <2> QED
    BY <1>4
<1>6. FramesOf(log) = chosen[N]
  BY DEF FramesOf
<1> HIDE DEF chosen
<1> DEFINE Good == {n \in 0..N : chosen[n] \in State}
<1>7. 0 \in Good
  BY <1>1, <1>5
<1>8. ASSUME NEW n \in 0..N, n \in Good /\ n < N PROVE n + 1 \in Good
  <2>1. n + 1 \in 1..N /\ n + 1 \in 0..N /\ (n + 1) - 1 = n
    BY <1>1, <1>8
  <2>2. chosen[n + 1] = IF log[n + 1].kind = "frame"
                        THEN Append(chosen[n], Frame(log[n + 1].path, log[n + 1].line))
                        ELSE chosen[n]
    <3>1. chosen[n + 1] = Loop(chosen)[n + 1]
      BY <1>5
    <3>2. n + 1 # 0
      BY <1>1
    <3> QED
      BY <2>1, <3>1, <3>2
  <2>3. chosen[n] \in State
    BY <1>8
  <2> HIDE DEF State
  <2> QED
    BY <1>2, <2>1, <2>2, <2>3
<1>9. 0..N \subseteq Good
  <2> HIDE DEF Good, N
  <2> QED
    BY <1>1, <1>7, <1>8, LoopInduction
<1> QED
  BY <1>1, <1>6, <1>9

(* However a failure is recognised, its frames are a list.                   *)
LEMMA SignalFramesAreSequence ==
  ASSUME NEW log \in Logs
  PROVE  \E S : Signal(log).frames \in Seq(S)
<1>1. \E S : <<>> \in Seq(S)
  BY EmptySeq
<1>2. CASE RuleFor(log) = 0
  BY <1>1, <1>2 DEF Signal, Unclassified
<1>3. CASE RuleFor(log) # 0
  <2> DEFINE rule == Rules[RuleFor(log)]
             i == Min(Starts(log, rule))
  <2>1. RuleFor(log) \in 1..6
    BY <1>3, RuleApplies
  <2>2. rule \in {"module_missing", "traceback", "pytest", "ruff", "mypy", "pip"}
    BY <2>1 DEF Rules
  <2> HIDE DEF rule, i
  <2>3. Signal(log).frames = Location(log, rule, i).frames
    BY <1>3 DEF Signal, Classified, rule, i
  <2>4. CASE rule \in {"module_missing", "traceback"}
    <3>1. Location(log, rule, i) = TracebackLocation(log)
      BY <2>4 DEF Location
    <3>2. TracebackLocation(log).frames = FramesOf(log)
      BY DEF TracebackLocation
    <3> QED
      BY <2>3, <3>1, <3>2, FramesAreSequence
  <2>5. CASE rule = "pytest"
    <3> DEFINE target == Frame(log[i].path, LineReference(log, log[i].path))
    <3>1. Location(log, rule, i) = PytestLocation(log, log[i].path)
      BY <2>5 DEF Location
    <3>2. \/ PytestLocation(log, log[i].path).frames = <<>>
          \/ PytestLocation(log, log[i].path).frames = <<target>>
      BY DEF PytestLocation
    <3> HIDE DEF target
    <3>3. <<target>> \in Seq({target})
      OBVIOUS
    <3> QED
      BY <1>1, <2>3, <3>1, <3>2, <3>3
  <2>6. CASE rule \in {"ruff", "mypy", "pip"}
    <3>1. Location(log, rule, i).frames = <<>>
      BY <2>6 DEF Location
    <3> QED
      BY <1>1, <2>3, <3>1
  <2> QED
    BY <2>2, <2>4, <2>5, <2>6
<1> QED
  BY <1>2, <1>3

(* The candidates that a signal names are listed once each.                  *)
LEMMA CandidatesDistinct ==
  ASSUME NEW s, NEW F, s.frames \in Seq(F)
  PROVE  (\E S : Candidates(s) \in Seq(S)) /\ Distinct(Candidates(s))
<1> DEFINE N == Len(s.frames)
           S == F \cup {s.target}
           State == {q \in Seq(S) : Distinct(q)}
           start == IF s.target.path = NoPath THEN <<>> ELSE <<s.target>>
           Listed(q, frame) == IF frame \in ToSet(q) THEN q ELSE Append(q, frame)
           turn == [n \in 1..N |-> [q \in State |-> Listed(q, s.frames[n])]]
           Loop(a) == [n \in 0..N |->
                          IF n = 0 THEN start
                          ELSE IF s.frames[n] \in ToSet(a[n - 1]) THEN a[n - 1]
                          ELSE Append(a[n - 1], s.frames[n])]
           chosen == CHOOSE a : a = Loop(a)
<1>1. N \in Nat /\ \A n \in 1..N : s.frames[n] \in S
  BY LenProperties, ElementOfSeq
<1>2. ASSUME NEW q \in State, NEW e \in S PROVE Listed(q, e) \in State
  <2>1. CASE e \in ToSet(q)
    BY <2>1
  <2>2. CASE e \notin ToSet(q)
    <3>1. \A i \in 1..Len(q) : q[i] # e
      <4>1. DOMAIN q = 1..Len(q)
        BY LenProperties
      <4> QED
        BY <2>2, <4>1 DEF ToSet
    <3> HIDE DEF S
    <3> QED
      BY <2>2, <3>1, AppendDistinct
  <2> QED
    BY <2>1, <2>2
<1>3. start \in State
  <2>1. <<>> \in State
    BY DEF Distinct
  <2>2. <<s.target>> \in State
    <3>1. s.target \in S
      OBVIOUS
    <3> HIDE DEF S
    <3>2. <<s.target>> \in Seq(S) /\ DOMAIN <<s.target>> = 1..1
      BY <3>1
    <3> QED
      BY <3>2 DEF Distinct
  <2> QED
    BY <2>1, <2>2
<1>4. PICK f \in [0..N -> State] :
        f[0] = start /\ \A n \in 1..N : f[n] = turn[n][f[n - 1]]
  <2>1. turn \in [1..N -> [State -> State]]
    <3> HIDE DEF State, S, Listed
    <3> QED
      BY <1>1, <1>2
  <2>2. LoopStates(N, State, start, turn) # {}
    <3> HIDE DEF turn, N, State, start
    <3> QED
      BY <1>1, <1>3, <2>1, LoopStatesExist
  <2> HIDE DEF turn, N, State, start
  <2> QED
    BY <2>2 DEF LoopStates
<1>5. f = Loop(f)
  <2>1. \A n \in 1..N : n - 1 \in 0..N
    BY <1>1
  <2>2. \A n \in 1..N : f[n - 1] \in State
    BY <1>4, <2>1
  <2>3. \A n \in 1..N : f[n] = Listed(f[n - 1], s.frames[n])
    <3> HIDE DEF State, Listed
    <3> QED
      BY <1>4, <2>2
  <2>4. \A n \in 0..N : n = 0 \/ n \in 1..N
    BY <1>1
  <2>5. \A n \in 0..N : f[n] = Loop(f)[n]
    <3> HIDE DEF start, State
    <3> QED
      BY <1>4, <2>3, <2>4
  <2>6. f = [n \in 0..N |-> f[n]]
    BY <1>4
  <2> QED
    BY <2>5, <2>6
<1>6. chosen = Loop(chosen)
  <2> HIDE DEF Loop
  <2> QED
    BY <1>5
<1>7. Candidates(s) = chosen[N]
  BY DEF Candidates
<1> HIDE DEF chosen
<1> DEFINE Good == {n \in 0..N : chosen[n] \in State}
<1>8. 0 \in Good
  <2>1. chosen[0] = start
    BY <1>1, <1>6
  <2> HIDE DEF start, State
  <2> QED
    BY <1>1, <1>3, <2>1
<1>9. ASSUME NEW n \in 0..N, n \in Good /\ n < N PROVE n + 1 \in Good
  <2>1. n + 1 \in 1..N /\ n + 1 \in 0..N /\ (n + 1) - 1 = n /\ n + 1 # 0
    BY <1>1, <1>9
  <2>2. chosen[n + 1] = Listed(chosen[n], s.frames[n + 1])
    <3>1. chosen[n + 1] = Loop(chosen)[n + 1]
      BY <1>6
    <3> HIDE DEF start
    <3> QED
      BY <2>1, <3>1
  <2>3. chosen[n] \in State
    BY <1>9
  <2> HIDE DEF State, Listed, S
  <2> QED
    BY <1>1, <1>2, <2>1, <2>2, <2>3
<1>10. 0..N \subseteq Good
  <2> HIDE DEF Good, N
  <2> QED
    BY <1>1, <1>8, <1>9, LoopInduction
<1>11. chosen[N] \in State
  <2> HIDE DEF State
  <2> QED
    BY <1>1, <1>10
<1> QED
  BY <1>7, <1>11

IsImport(candidate) == \E file \in DOMAIN Tree : candidate = Frame(Relative(file), 0)

\* r is q and, after it, imported files.
Extends(q, r) ==
    /\ Distinct(r)
    /\ Len(q) <= Len(r)
    /\ \A i \in 1..Len(q) : r[i] = q[i]
    /\ \A i \in (Len(q) + 1)..Len(r) : IsImport(r[i])

(* The imports of a file come after the candidates there are, each a file of *)
(* the checkout that is none of them.                                        *)
LEMMA ImportsExtend ==
  ASSUME NEW Q, NEW q \in Seq(Q), Distinct(q), NEW M, NEW imports \in Seq(M)
  PROVE  (\E S : WithImports(q, imports) \in Seq(S)) /\ Extends(q, WithImports(q, imports))
<1> DEFINE N == Len(imports)
           S == Q \cup {Frame(Relative(imports[n]), 0) : n \in 1..N}
           State == {r \in Seq(S) : Extends(q, r)}
           Found(r, module) ==
              IF /\ ~IsCandidate(Relative(module), r)
                 /\ Inside(module) /\ module \in DOMAIN Tree
              THEN Append(r, Frame(Relative(module), 0)) ELSE r
           turn == [n \in 1..N |-> [r \in State |-> Found(r, imports[n])]]
           Loop(a) == [n \in 0..N |->
                          IF n = 0 THEN q
                          ELSE IF /\ ~IsCandidate(Relative(imports[n]), a[n - 1])
                                  /\ Inside(imports[n]) /\ imports[n] \in DOMAIN Tree
                               THEN Append(a[n - 1], Frame(Relative(imports[n]), 0))
                               ELSE a[n - 1]]
           chosen == CHOOSE a : a = Loop(a)
<1>1. N \in Nat
  BY LenProperties
<1>2. ASSUME NEW n \in 1..N, NEW r \in State PROVE Found(r, imports[n]) \in State
  <2> DEFINE module == imports[n]
             e == Frame(Relative(module), 0)
  <2>1. CASE /\ ~IsCandidate(Relative(module), r)
             /\ Inside(module) /\ module \in DOMAIN Tree
    <3>1. e \in S /\ r \in Seq(S) /\ Extends(q, r)
      OBVIOUS
    <3>2. e.path = Relative(module) /\ IsImport(e)
      BY <2>1 DEF Frame, IsImport
    <3>3. DOMAIN r = 1..Len(r) /\ Len(r) \in Nat /\ Len(q) \in Nat
      BY <3>1, LenProperties
    <3>4. \A i \in 1..Len(r) : r[i] # e
      BY <2>1, <3>2, <3>3 DEF IsCandidate
    <3>5. Found(r, module) = Append(r, e)
      BY <2>1
    <3> HIDE DEF S, e, Found
    <3>6. Append(r, e) \in Seq(S) /\ Distinct(Append(r, e))
      BY <3>1, <3>4, AppendDistinct DEF Extends
    <3>7. /\ Len(Append(r, e)) = Len(r) + 1
          /\ \A i \in 1..Len(r) : Append(r, e)[i] = r[i]
          /\ Append(r, e)[Len(r) + 1] = e
      BY <3>1, AppendProperties
    <3>8. \A i \in (Len(q) + 1)..(Len(r) + 1) : i \in (Len(q) + 1)..Len(r) \/ i = Len(r) + 1
      BY <3>3
    <3>9. \A i \in (Len(q) + 1)..Len(r) : i \in 1..Len(r)
      BY <3>3
    <3>10. \A i \in (Len(q) + 1)..(Len(r) + 1) : IsImport(Append(r, e)[i])
      BY <3>1, <3>2, <3>7, <3>8, <3>9 DEF Extends
    <3>11. Len(q) <= Len(r) + 1 /\ \A i \in 1..Len(q) : i \in 1..Len(r)
      BY <3>1, <3>3 DEF Extends
    <3>12. \A i \in 1..Len(q) : Append(r, e)[i] = q[i]
      BY <3>1, <3>7, <3>11 DEF Extends
    <3>13. Extends(q, Append(r, e))
      BY <3>6, <3>7, <3>10, <3>11, <3>12 DEF Extends
    <3> QED
      BY <3>5, <3>6, <3>13
  <2>2. CASE ~(/\ ~IsCandidate(Relative(module), r)
               /\ Inside(module) /\ module \in DOMAIN Tree)
    BY <2>2
  <2> QED
    BY <2>1, <2>2
<1>3. q \in State
  <2>1. q \in Seq(S) /\ Len(q) \in Nat
    BY SeqMonotonic, LenProperties
  <2>2. (Len(q) + 1)..Len(q) = {} /\ Len(q) <= Len(q)
    BY <2>1
  <2> QED
    BY <2>1, <2>2 DEF Extends
<1>4. PICK f \in [0..N -> State] :
        f[0] = q /\ \A n \in 1..N : f[n] = turn[n][f[n - 1]]
  <2>1. turn \in [1..N -> [State -> State]]
    <3> HIDE DEF State, Found
    <3> QED
      BY <1>2
  <2>2. LoopStates(N, State, q, turn) # {}
    <3> HIDE DEF turn, N, State
    <3> QED
      BY <1>1, <1>3, <2>1, LoopStatesExist
  <2> HIDE DEF turn, N, State
  <2> QED
    BY <2>2 DEF LoopStates
<1>5. f = Loop(f)
  <2>1. \A n \in 1..N : n - 1 \in 0..N
    BY <1>1
  <2>2. \A n \in 1..N : f[n - 1] \in State
    BY <1>4, <2>1
  <2>3. \A n \in 1..N : f[n] = Found(f[n - 1], imports[n])
    <3> HIDE DEF State, Found
    <3> QED
      BY <1>4, <2>2
  <2>4. \A n \in 0..N : n = 0 \/ n \in 1..N
    BY <1>1
  <2>5. \A n \in 0..N : f[n] = Loop(f)[n]
    <3> HIDE DEF State
    <3> QED
      BY <1>4, <2>3, <2>4
  <2>6. f = [n \in 0..N |-> f[n]]
    BY <1>4
  <2> QED
    BY <2>5, <2>6
<1>6. chosen = Loop(chosen)
  <2> HIDE DEF Loop
  <2> QED
    BY <1>5
<1>7. WithImports(q, imports) = chosen[N]
  BY DEF WithImports
<1> HIDE DEF chosen
<1> DEFINE Good == {n \in 0..N : chosen[n] \in State}
<1>8. 0 \in Good
  <2>1. chosen[0] = q
    BY <1>1, <1>6
  <2> HIDE DEF State
  <2> QED
    BY <1>1, <1>3, <2>1
<1>9. ASSUME NEW n \in 0..N, n \in Good /\ n < N PROVE n + 1 \in Good
  <2>1. n + 1 \in 1..N /\ n + 1 \in 0..N /\ (n + 1) - 1 = n /\ n + 1 # 0
    BY <1>1, <1>9
  <2>2. chosen[n + 1] = Found(chosen[n], imports[n + 1])
    <3>1. chosen[n + 1] = Loop(chosen)[n + 1]
      BY <1>6
    <3> QED
      BY <2>1, <3>1
  <2>3. chosen[n] \in State
    BY <1>9
  <2> HIDE DEF State, Found
  <2> QED
    BY <1>2, <2>1, <2>2, <2>3
<1>10. 0..N \subseteq Good
  <2> HIDE DEF Good, N
  <2> QED
    BY <1>1, <1>8, <1>9, LoopInduction
<1>11. chosen[N] \in State
  <2> HIDE DEF State
  <2> QED
    BY <1>1, <1>10
<1> QED
  BY <1>7, <1>11

(* Distinct imports are no more than the files of the checkout.              *)
LEMMA ImportsAreBounded ==
  ASSUME NEW S, NEW q \in Seq(S), Distinct(q), NEW k \in Nat,
         \A i \in (k + 1)..Len(q) : IsImport(q[i])
  PROVE  Len(q) <= k + Cardinality(DOMAIN Tree)
<1> DEFINE tail == (k + 1)..Len(q)
           f == [i \in tail |-> q[i].path.parts]
<1>1. Len(q) \in Nat /\ DOMAIN q = 1..Len(q)
  BY LenProperties
<1>2. \A i \in tail : f[i] \in DOMAIN Tree /\ q[i] = Frame(Relative(f[i]), 0)
  <2>1. TAKE i \in tail
  <2>2. PICK file \in DOMAIN Tree : q[i] = Frame(Relative(file), 0)
    BY DEF IsImport
  <2>3. q[i].path.parts = file
    BY <2>2 DEF Frame, Relative, Written
  <2> QED
    BY <2>2, <2>3
<1>3. \A i, j \in tail : f[i] = f[j] => i = j
  <2>1. \A i \in tail : i \in DOMAIN q
    BY <1>1
  <2> HIDE DEF tail, f
  <2> QED
    BY <1>2, <2>1 DEF Distinct
<1>4. f \in Injection(tail, DOMAIN Tree)
  <2> HIDE DEF tail
  <2>1. f \in [tail -> DOMAIN Tree]
    BY <1>2
  <2> HIDE DEF f
  <2> QED
    BY <1>3, <2>1 DEF Injection, IsInjective
<1>5. Cardinality(tail) <= Cardinality(DOMAIN Tree) /\ Cardinality(DOMAIN Tree) \in Nat
  <2> HIDE DEF tail, f
  <2> QED
    BY <1>4, FS_Injection, FS_CardinalityType, TreeAssumption
<1>6. Cardinality(tail) = IF k + 1 > Len(q) THEN 0 ELSE Len(q) - (k + 1) + 1
  <2>1. k + 1 \in Int /\ Len(q) \in Int
    BY <1>1
  <2> DEFINE a == k + 1
             b == Len(q)
  <2>2. a \in Int /\ b \in Int
    BY <2>1
  <2>3. SUFFICES Cardinality(a..b) = IF a > b THEN 0 ELSE b - a + 1
    OBVIOUS
  <2> HIDE DEF a, b
  <2> QED
    BY <2>2, FS_Interval, Zenon
<1> HIDE DEF tail
<1> QED
  BY <1>1, <1>5, <1>6

-----------------------------------------------------------------------------
(* The inductive invariant.                                                  *)
Controlled ==
    /\ pc \in {"parse", "checkout", "collect", "diagnose", "screen", "ask", "review", "done"}
    /\ purpose \in {"diagnosis", "fix"}
    /\ next \in Nat \ {0}
    /\ retrieval \in Retrievals
    /\ pc = "screen" => retrieval # "none"
    /\ diagnosis.fixable \in BOOLEAN /\ diagnosis.confidence \in Confidence
    /\ answer \in Answers \cup {NoAnswer}

Recognised ==
    /\ signal.category \in FailureCategory
    /\ pc # "parse" => HasMatch(signal)

(* The model is only asked when there is evidence and a confident diagnosis, *)
(* and both are what they were when its answer is reviewed.                  *)
Warranted ==
    pc \in {"ask", "review"} =>
        Eligible /\ retrieval \in {"success", "partial"} /\ evidence # <<>>

Concluded ==
    /\ proposal.status \in {"none", "ineligible", "rejected", "proposed"}
    /\ proposal.reasons \subseteq Reasons
    /\ proposal.risk \in {"low", "medium", "high"}
    /\ proposal.status # "none" => pc = "done"

(* Nothing is concluded before the end; what is reviewed came from the model,*)
(* and what was not reviewed has no patches, like no answer.                 *)
Reviewed ==
    /\ pc # "done" => proposal = NoProposal
    /\ pc \notin {"review", "done"} => answer = NoAnswer
    /\ pc = "review" => answer \in Answers
    /\ ParseIsFaithful /\ ShownIsGrounded

(* The candidates in hand are those of the signal and, after them, imports.  *)
Listed ==
    /\ \E S : queue \in Seq(S)
    /\ \E S : signal.frames \in Seq(S)
    /\ Distinct(queue)
    /\ \A i \in (Len(Candidates(signal)) + 1)..Len(queue) : IsImport(queue[i])
    /\ next <= Len(queue) + 1
    /\ pc = "parse" => queue = <<>> /\ next = 1

ProposalInv ==
    /\ Controlled /\ Recognised /\ Gathered /\ Warranted /\ Concluded /\ ProposedIsGrounded
    /\ Reviewed /\ Listed

LEMMA InitProposalInv == Init => ProposalInv
<1> SUFFICES ASSUME Init PROVE ProposalInv
  OBVIOUS
<1>1. Controlled
  BY LimitAssumption DEF Init, Controlled, Retrievals, NoDiagnosis
<1>2. Recognised
  BY DEF Init, Recognised, NoSignal, FailureCategory
<1>3. Gathered
  <2>1. <<>> \in Seq({}) /\ Len(<<>>) = 0
    BY EmptySeq
  <2> QED
    BY <2>1, LimitAssumption DEF Init, Gathered
<1>4. Warranted /\ Concluded /\ ProposedIsGrounded
  BY DEF Init, Warranted, Concluded, ProposedIsGrounded, NoProposal, Unreviewed, Proposed,
         Verdict
<1>5. Reviewed
  BY DEF Init, Reviewed, ParseIsFaithful, ShownIsGrounded
<1>6. Listed
  <2>1. Len(<<>>) = 0 /\ DOMAIN <<>> = {} /\ <<>> \in Seq({})
    BY EmptySeq
  <2>2. signal.frames = <<>> /\ queue = <<>> /\ next = 1
    BY DEF Init, NoSignal
  <2>3. Len(Candidates(signal)) \in Nat
    <3>1. \E S : Candidates(signal) \in Seq(S)
      BY <2>1, <2>2, CandidatesDistinct
    <3> QED
      BY <3>1, LenProperties
  <2>4. (Len(Candidates(signal)) + 1)..Len(queue) = {}
    BY <2>1, <2>2, <2>3
  <2> QED
    BY <2>1, <2>2, <2>4 DEF Listed, Distinct
<1> QED
  BY <1>1, <1>2, <1>3, <1>4, <1>5, <1>6 DEF ProposalInv

-----------------------------------------------------------------------------
(* One lemma per part of the invariant, with a case for every action.        *)
LEMMA ControlledStep == ProposalInv /\ [Next]_vars => Controlled'
<1> SUFFICES ASSUME ProposalInv, [Next]_vars PROVE Controlled'
  OBVIOUS
<1> USE DEF ProposalInv, Controlled, Retrievals
<1>1. CASE ParseLog
  BY <1>1 DEF ParseLog, contextVars, modelVars
<1>2. CASE Checkout
  BY <1>2 DEF Checkout, Resolved, modelVars
<1>3. CASE Collect
  BY <1>3 DEF Collect, Finish, Skip, Extract, Resolved, modelVars
<1>4. CASE Diagnose
  <2>1. diagnosis'.fixable \in BOOLEAN /\ diagnosis'.confidence \in Confidence
    <3>1. \A fixable \in BOOLEAN, confidence \in Confidence, target \in DiagnosisTargets :
            diagnosis' = [fixable |-> fixable, confidence |-> confidence, target |-> target]
            => diagnosis'.fixable = fixable /\ diagnosis'.confidence = confidence
      OBVIOUS
    <3>2. diagnosis' = [NoDiagnosis EXCEPT !.target = signal.target.path] =>
            diagnosis'.fixable = FALSE /\ diagnosis'.confidence = 0
      BY DEF NoDiagnosis
    <3> QED
      BY <1>4, <3>1, <3>2, LimitAssumption, Zenon DEF Diagnose
  <2> QED
    BY <1>4, <2>1 DEF Diagnose
<1>5. CASE Screen
  BY <1>5 DEF Screen, Conclude, contextVars, modelVars
<1>6. CASE AskModel
  BY <1>6 DEF AskModel, Conclude, contextVars
<1>7. CASE ReviewAnswer
  BY <1>7 DEF ReviewAnswer, Conclude, contextVars, modelVars
<1>8. CASE UNCHANGED vars
  BY <1>8 DEF vars, contextVars, modelVars
<1> QED
  BY <1>1, <1>2, <1>3, <1>4, <1>5, <1>6, <1>7, <1>8 DEF Next

LEMMA RecognisedStep == ProposalInv /\ [Next]_vars => Recognised'
<1> SUFFICES ASSUME ProposalInv, [Next]_vars PROVE Recognised'
  OBVIOUS
<1> USE DEF ProposalInv, Recognised
<1>1. CASE ParseLog
  <2>1. PICK log \in Logs : signal' = Signal(log)
    BY <1>1 DEF ParseLog
  <2>2. HasMatch(Signal(log)) /\ Signal(log).category \in FailureCategory
    BY SignalHasMatch
  <2> QED
    BY <2>1, <2>2 DEF HasMatch
<1>2. pc # "parse" /\ UNCHANGED signal => Recognised'
  BY DEF HasMatch
<1>3. CASE Checkout \/ Collect
  BY <1>2, <1>3 DEF Checkout, Collect
<1>4. CASE Diagnose \/ Screen \/ AskModel \/ ReviewAnswer
  BY <1>2, <1>4 DEF Diagnose, Screen, AskModel, ReviewAnswer
<1>5. CASE UNCHANGED vars
  BY <1>5 DEF vars, HasMatch
<1> QED
  BY <1>1, <1>3, <1>4, <1>5 DEF Next

(* Only two actions touch the evidence: a checkout discards it, an extract   *)
(* within the budget adds an item that fits.                                 *)
LEMMA GatheredStep == ProposalInv /\ [Next]_vars => Gathered'
<1> SUFFICES ASSUME ProposalInv, [Next]_vars PROVE Gathered'
  OBVIOUS
<1>1. Gathered
  BY DEF ProposalInv
<1>2. UNCHANGED <<evidence, used>> => Gathered'
  BY <1>1 DEF Gathered, Fits, Shows
<1>3. CASE Checkout
  <2>1. evidence' = <<>> /\ used' = 0
    BY <1>3 DEF Checkout
  <2>2. <<>> \in Seq({}) /\ Len(<<>>) = 0
    BY EmptySeq
  <2> QED
    BY <2>1, <2>2, LimitAssumption DEF Gathered
<1>4. CASE Collect
  <2>1. CASE Finish \/ Skip
    BY <1>2, <2>1 DEF Finish, Skip
  <2>2. CASE ~(Finish \/ Skip)
    <3> DEFINE item == Excerpted(next)
    <3>1. Extract(item) /\ Readable(FileAt(next)) /\ ~(Len(evidence) >= MaxEvidenceFiles)
      BY <1>4, <2>2 DEF Collect
    <3>2. PICK S : evidence \in Seq(S)
      BY <1>1 DEF Gathered
    <3>3. Fits(item) /\ item.chars \in Nat
      BY <3>1, ExcerptFits
    <3> HIDE DEF item
    <3>4. Len(evidence) \in Nat /\ \A i \in 1..Len(evidence) : Fits(evidence[i])
      BY <1>1, <3>2, LenProperties DEF Gathered
    <3>5. /\ Append(evidence, item) \in Seq(S \cup {item})
          /\ Len(Append(evidence, item)) = Len(evidence) + 1
          /\ \A i \in 1..Len(Append(evidence, item)) : Fits(Append(evidence, item)[i])
      BY <3>2, <3>3, <3>4, AppendFits
    <3>6. evidence' = Append(evidence, item) /\ used' = used + item.chars
          /\ used + item.chars <= MaxChars
      BY <3>1 DEF Extract
    <3>7. Len(Append(evidence, item)) <= MaxEvidenceFiles
      BY <3>1, <3>4, <3>5, LimitAssumption
    <3>8. used' \in Nat /\ used' <= MaxChars
      BY <1>1, <3>3, <3>6 DEF Gathered
    <3>9. \A i \in 1..Len(evidence') : Fits(evidence[i])'
      BY <3>5, <3>6 DEF Fits, Shows
    <3> QED
      BY <3>5, <3>6, <3>7, <3>8, <3>9 DEF Gathered
  <2> QED
    BY <2>1, <2>2
<1>5. CASE ParseLog \/ Diagnose
  BY <1>2, <1>5 DEF ParseLog, Diagnose, contextVars
<1>6. CASE Screen \/ AskModel \/ ReviewAnswer
  BY <1>2, <1>6 DEF Screen, AskModel, ReviewAnswer, contextVars
<1>7. CASE UNCHANGED vars
  BY <1>2, <1>7 DEF vars, contextVars
<1> QED
  BY <1>3, <1>4, <1>5, <1>6, <1>7 DEF Next

LEMMA WarrantedStep == ProposalInv /\ [Next]_vars => Warranted'
<1> SUFFICES ASSUME ProposalInv, [Next]_vars PROVE Warranted'
  OBVIOUS
<1> USE DEF ProposalInv, Warranted, Controlled, Retrievals, Eligible
<1>1. CASE ParseLog \/ Checkout
  BY <1>1 DEF ParseLog, Checkout, Resolved
<1>2. CASE Collect
  BY <1>2 DEF Collect, Finish, Skip, Extract, Resolved
<1>3. CASE Diagnose
  BY <1>3 DEF Diagnose
<1>4. CASE Screen
  BY <1>4 DEF Screen, Conclude, contextVars, modelVars
<1>5. CASE AskModel
  BY <1>5 DEF AskModel, Conclude, contextVars
<1>6. CASE ReviewAnswer
  BY <1>6 DEF ReviewAnswer, Conclude
<1>7. CASE UNCHANGED vars
  BY <1>7 DEF vars, contextVars, modelVars
<1> QED
  BY <1>1, <1>2, <1>3, <1>4, <1>5, <1>6, <1>7 DEF Next

(* What a review concludes from a patch and what was known then.             *)
LEMMA ReviewConcludes ==
  ASSUME ProposalInv, ReviewAnswer
  PROVE  Concluded' /\ ProposedIsGrounded'
<1> DEFINE v == Review(answer, evidence, Named)
<1>1. /\ proposal' = [status |-> IF v.reasons = {} THEN "proposed" ELSE "rejected",
                      reasons |-> v.reasons, patches |-> v.patches, targets |-> v.targets,
                      risk |-> v.risk]
      /\ pc' = "done"
      /\ UNCHANGED <<signal, evidence, retrieval, diagnosis, answer>>
  BY DEF ReviewAnswer, Conclude, Proposed, contextVars, modelVars
<1>2. Named' = Named
  BY <1>1 DEF Named
<1>3. /\ v.reasons \subseteq Reasons
      /\ v.risk \in {"low", "medium", "high"}
      /\ v.reasons = {} =>
            /\ v.patches # <<>>
            /\ \A f \in v.targets : Judged(f) \in Grounded(evidence, Named) \ ProtectedFiles
            /\ v.targets \subseteq TestFiles => v.targets = {}
            /\ ~ \/ Cardinality(v.targets) > MaxTargetFiles
                 \/ Len(answer.diff) > MaxPatchLines
                 \/ answer.chars > MaxPatchChars
  BY ReviewIsSound
<1>4. Eligible /\ retrieval \in {"success", "partial"} /\ evidence # <<>>
  BY DEF ReviewAnswer, ProposalInv, Warranted
<1> HIDE DEF v
<1>5. Concluded'
  BY <1>1, <1>3 DEF Concluded
<1>6. ProposedIsGrounded'
  <2>1. proposal'.status = "proposed" => v.reasons = {}
    BY <1>1
  <2>2. proposal'.targets = v.targets /\ proposal'.patches = v.patches
    BY <1>1
  <2> QED
    BY <1>1, <1>2, <1>3, <1>4, <2>1, <2>2 DEF ProposedIsGrounded, Eligible, Grounded
<1> QED
  BY <1>5, <1>6

LEMMA ConcludedStep == ProposalInv /\ [Next]_vars => Concluded' /\ ProposedIsGrounded'
<1> SUFFICES ASSUME ProposalInv, [Next]_vars PROVE Concluded' /\ ProposedIsGrounded'
  OBVIOUS
<1>1. Concluded /\ ProposedIsGrounded
  BY DEF ProposalInv
<1>2. pc # "done" /\ UNCHANGED proposal => Concluded' /\ ProposedIsGrounded'
  BY <1>1 DEF Concluded, ProposedIsGrounded
<1>3. CASE ParseLog \/ Checkout \/ Collect \/ Diagnose
  BY <1>2, <1>3 DEF ParseLog, Checkout, Collect, Diagnose
<1>4. CASE Screen
  BY <1>1, <1>2, <1>4 DEF Screen, Conclude, Unreviewed, Proposed, Verdict, Concluded,
                          ProposedIsGrounded
<1>5. CASE AskModel
  BY <1>1, <1>2, <1>5 DEF AskModel, Conclude, Unreviewed, Proposed, Verdict, Concluded,
                          ProposedIsGrounded
<1>6. CASE ReviewAnswer
  BY <1>6, ReviewConcludes
<1>7. CASE UNCHANGED vars
  BY <1>1, <1>7 DEF vars, contextVars, modelVars, Concluded, ProposedIsGrounded, Named
<1> QED
  BY <1>3, <1>4, <1>5, <1>6, <1>7 DEF Next

(* A proposal that was not reviewed has nothing to be unfaithful to.         *)
LEMMA UnreviewedIsFaithful ==
  ASSUME answer' = NoAnswer, proposal'.patches = <<>>, proposal'.reasons = {}
  PROVE  ParseIsFaithful' /\ ShownIsGrounded'
<1>1. GitReads(NoAnswer.diff) = {} /\ {Meaning(p) : p \in ToSet(<<>>)} = {}
  BY DEF NoAnswer, GitReads, FileStarts, ToSet
<1> QED
  BY <1>1 DEF ParseIsFaithful, ShownIsGrounded

LEMMA ReviewedStep == ProposalInv /\ [Next]_vars => Reviewed'
<1> SUFFICES ASSUME ProposalInv, [Next]_vars PROVE Reviewed'
  OBVIOUS
<1>1. Reviewed
  BY DEF ProposalInv
<1>2. pc' # "done" => ParseIsFaithful' /\ ShownIsGrounded'
  BY DEF ParseIsFaithful, ShownIsGrounded
<1>3. NoProposal.patches = <<>> /\ NoProposal.reasons = {}
  BY DEF NoProposal, Unreviewed, Proposed, Verdict
<1>4. CASE ParseLog \/ Checkout \/ Collect
  BY <1>1, <1>2, <1>4
  DEF ParseLog, Checkout, Collect, Resolved, Finish, Skip, Extract, modelVars, Reviewed
<1>5. CASE Diagnose
  <2>1. answer' = NoAnswer /\ proposal' = NoProposal /\ pc' \in {"checkout", "done"}
    BY <1>1, <1>5 DEF Diagnose, Reviewed
  <2> QED
    BY <1>3, <2>1, UnreviewedIsFaithful DEF Reviewed
<1>6. CASE Screen
  <2>1. answer' = NoAnswer /\ pc' \in {"ask", "done"}
    BY <1>1, <1>6 DEF Screen, Conclude, Reviewed, modelVars
  <2>2. \/ proposal' = NoProposal
        \/ proposal' = Unreviewed("ineligible", "low") /\ pc' = "done"
    BY <1>1, <1>6 DEF Screen, Conclude, Reviewed
  <2>3. proposal'.patches = <<>> /\ proposal'.reasons = {}
    BY <1>3, <2>2 DEF Unreviewed, Proposed, Verdict
  <2> QED
    BY <2>1, <2>2, <2>3, UnreviewedIsFaithful DEF Reviewed
<1>7. CASE AskModel
  <2>1. CASE answer' \in Answers /\ pc' = "review" /\ UNCHANGED proposal
    BY <1>1, <1>2, <1>7, <2>1 DEF AskModel, Reviewed
  <2>2. CASE Conclude(Unreviewed("rejected", "high")) /\ UNCHANGED answer
    <3>1. answer' = NoAnswer /\ pc' = "done"
      BY <1>1, <1>7, <2>2 DEF AskModel, Conclude, Reviewed
    <3>2. proposal'.patches = <<>> /\ proposal'.reasons = {}
      BY <2>2 DEF Conclude, Unreviewed, Proposed, Verdict
    <3> QED
      BY <3>1, <3>2, UnreviewedIsFaithful DEF Reviewed
  <2> QED
    BY <1>7, <2>1, <2>2 DEF AskModel
<1>8. CASE ReviewAnswer
  <2> DEFINE v == Review(answer, evidence, Named)
  <2>1. /\ proposal'.reasons = v.reasons /\ proposal'.patches = v.patches
        /\ pc' = "done" /\ UNCHANGED <<answer, evidence>>
    BY <1>8 DEF ReviewAnswer, Conclude, Proposed, contextVars, modelVars
  <2>2. answer \in Answers
    BY <1>1, <1>8 DEF ReviewAnswer, Reviewed
  <2>3. ParseIsFaithful'
    <3>1. /\ {"syntax", "empty"} \cap v.reasons = {}
          /\ GitAccepts(answer.diff) /\ Canonical(answer.diff)
          => Means(v.patches) = GitReads(answer.diff)
      BY <2>2, ReviewIsFaithful
    <3> HIDE DEF v
    <3> QED
      BY <2>1, <3>1 DEF ParseIsFaithful, Means
  <2>4. ShownIsGrounded'
    <3>1. PathsOfAnswer \subseteq
            {path \in {Relative(e.path) : e \in ToSet(evidence)} : ~HasRunnerFolder(path)}
          => "ungrounded" \notin v.reasons
      BY <2>2, ReviewAcceptsShown
    <3> HIDE DEF v
    <3>2. PathsOfAnswer' = PathsOfAnswer
      BY <2>1 DEF PathsOfAnswer
    <3> QED
      BY <2>1, <3>1, <3>2 DEF ShownIsGrounded
  <2> QED
    BY <2>1, <2>3, <2>4 DEF Reviewed
<1>9. CASE UNCHANGED vars
  BY <1>1, <1>9
  DEF vars, contextVars, modelVars, Reviewed, ParseIsFaithful, ShownIsGrounded, PathsOfAnswer
<1> QED
  BY <1>4, <1>5, <1>6, <1>7, <1>8, <1>9 DEF Next

(* A checkout lists the candidates of the signal anew, a turn of the loop    *)
(* adds the imports of the file it has read.                                 *)
LEMMA ListedStep == ProposalInv /\ [Next]_vars => Listed'
<1> SUFFICES ASSUME ProposalInv, [Next]_vars PROVE Listed'
  OBVIOUS
<1>1. Listed /\ next \in Nat \ {0}
  BY DEF ProposalInv, Controlled
<1>2. ASSUME NEW s, NEW F, s.frames \in Seq(F) PROVE Len(Candidates(s)) \in Nat
  BY <1>2, CandidatesDistinct, LenProperties
<1>3. Len(<<>>) = 0 /\ DOMAIN <<>> = {} /\ <<>> \in Seq({})
  BY EmptySeq
<1>4. ASSUME \E S : signal'.frames \in Seq(S), queue' = <<>>, next' = 1 PROVE Listed'
  <2>1. Len(Candidates(signal')) \in Nat
    BY <1>2, <1>4
  <2>2. (Len(Candidates(signal')) + 1)..Len(queue') = {}
    BY <1>3, <1>4, <2>1
  <2>3. Candidates(signal)' = Candidates(signal')
    OBVIOUS
  <2> QED
    BY <1>3, <1>4, <2>2, <2>3 DEF Listed, Distinct
<1>5. UNCHANGED <<signal, queue, next>> /\ pc' # "parse" => Listed'
  BY <1>1 DEF Listed, Distinct, IsImport
<1>6. CASE ParseLog
  <2>1. PICK log \in Logs : signal' = Signal(log)
    BY <1>6 DEF ParseLog
  <2>2. \E S : signal'.frames \in Seq(S)
    BY <2>1, SignalFramesAreSequence
  <2>3. queue' = <<>> /\ next' = 1
    BY <1>1, <1>6 DEF ParseLog, contextVars, Listed
  <2> QED
    BY <1>4, <2>2, <2>3
<1>7. CASE Checkout
  <2>1. UNCHANGED signal /\ next' = 1 /\ pc' # "parse"
    BY <1>7 DEF Checkout, Resolved
  <2>2. \E S : signal'.frames \in Seq(S)
    BY <1>1, <2>1 DEF Listed
  <2>3. CASE queue' = <<>>
    BY <1>4, <2>1, <2>2, <2>3
  <2>4. CASE queue' = Candidates(signal)
    <3>1. Candidates(signal)' = Candidates(signal)
      BY <2>1
    <3>2. (\E S : queue' \in Seq(S)) /\ Distinct(queue')
      BY <1>1, <2>4, CandidatesDistinct DEF Listed
    <3>3. Len(queue') \in Nat
      BY <3>2, LenProperties
    <3>4. (Len(queue') + 1)..Len(queue') = {}
      BY <3>3
    <3>5. next' <= Len(queue') + 1
      BY <2>1, <3>3
    <3> QED
      BY <2>1, <2>2, <2>4, <3>1, <3>2, <3>4, <3>5 DEF Listed, Distinct
  <2> QED
    BY <1>7, <2>3, <2>4 DEF Checkout
<1>8. CASE Collect
  <2>1. UNCHANGED signal
    BY <1>8 DEF Collect
  <2>2. PICK S : queue \in Seq(S)
    BY <1>1 DEF Listed
  <2>3. Len(queue) \in Nat /\ DOMAIN queue = 1..Len(queue)
    BY <2>2, LenProperties
  <2>4. CASE Finish
    <3>1. UNCHANGED <<signal, queue, next>> /\ pc' # "parse"
      BY <2>1, <2>4 DEF Finish, Resolved
    <3> QED
      BY <1>5, <3>1
  <2>5. CASE ~Finish
    <3>1. ~(next > Len(queue)) /\ pc' # "parse" /\ next' = next + 1
      BY <1>8, <2>5 DEF Collect, Skip, Extract
    <3>2. next' <= Len(queue) + 1
      BY <1>1, <2>3, <3>1
    <3>3. CASE Skip
      <4>1. UNCHANGED queue
        BY <3>3 DEF Skip
      <4> QED
        BY <1>1, <2>1, <3>1, <3>2, <4>1 DEF Listed, Distinct, IsImport
    <3>4. CASE ~Skip
      <4> DEFINE item == Excerpted(next)
                 imports == Tree[item.path].imports
      <4>1. Extract(item) /\ Readable(FileAt(next))
        BY <1>8, <2>5, <3>4 DEF Collect
      <4>2. item.path \in DOMAIN Tree
        BY <4>1 DEF Readable, Excerpted
      <4>3. imports \in Seq(Seq(STRING))
        BY <4>2, TreeAssumption
      <4> HIDE DEF imports
      <4>4. queue' = WithImports(queue, imports)
        BY <4>1 DEF Extract, imports
      <4>5. (\E R : queue' \in Seq(R)) /\ Extends(queue, queue')
        BY <1>1, <2>2, <4>3, <4>4, ImportsExtend DEF Listed
      <4> DEFINE k == Len(Candidates(signal))
      <4>6. k \in Nat /\ Candidates(signal)' = Candidates(signal)
        BY <1>1, <1>2, <2>1 DEF Listed
      <4>7. Len(queue') \in Nat
        BY <4>5, LenProperties
      <4>8. \A i \in (k + 1)..Len(queue) : IsImport(queue[i])
        BY <1>1 DEF Listed
      <4>9. next' <= Len(queue') + 1
        BY <2>3, <3>1, <3>2, <4>5, <4>7, <1>1 DEF Extends
      <4> HIDE DEF k
      <4>10. \A i \in (k + 1)..Len(queue') : IsImport(queue'[i])
        <5>1. TAKE i \in (k + 1)..Len(queue')
        <5>2. i \in 1..Len(queue') /\ i \in Nat
          BY <4>6, <4>7
        <5>3. CASE i <= Len(queue)
          <6>1. i \in 1..Len(queue) /\ i \in (k + 1)..Len(queue)
            BY <2>3, <4>6, <4>7, <5>1, <5>2, <5>3
          <6> QED
            BY <4>5, <4>8, <6>1 DEF Extends
        <5>4. CASE ~(i <= Len(queue))
          <6>1. i \in (Len(queue) + 1)..Len(queue')
            BY <2>3, <4>6, <4>7, <5>1, <5>2, <5>4
          <6> QED
            BY <4>5, <6>1 DEF Extends
        <5> QED
          BY <5>3, <5>4
      <4>11. \A i \in (k + 1)..Len(queue') : IsImport(queue[i])'
        BY <4>10 DEF IsImport
      <4>12. Distinct(queue)'
        BY <4>5 DEF Extends, Distinct
      <4>13. \E R : signal'.frames \in Seq(R)
        BY <1>1, <2>1 DEF Listed
      <4> QED
        BY <3>1, <4>5, <4>6, <4>9, <4>11, <4>12, <4>13 DEF Listed, k
    <3> QED
      BY <3>3, <3>4
  <2> QED
    BY <2>4, <2>5
<1>9. CASE Diagnose \/ Screen \/ AskModel \/ ReviewAnswer
  <2>1. UNCHANGED <<signal, queue, next>> /\ pc' # "parse"
    BY <1>9 DEF Diagnose, Screen, AskModel, ReviewAnswer, Conclude, contextVars
  <2> QED
    BY <1>5, <2>1
<1>10. CASE UNCHANGED vars
  BY <1>1, <1>10 DEF vars, contextVars, Listed, Distinct, IsImport
<1> QED
  BY <1>6, <1>7, <1>8, <1>9, <1>10 DEF Next

LEMMA ProposalInvariant == Spec => []ProposalInv
<1>1. ProposalInv /\ [Next]_vars => ProposalInv'
  BY ControlledStep, RecognisedStep, GatheredStep, WarrantedStep, ConcludedStep, ReviewedStep,
     ListedStep
  DEF ProposalInv
<1> QED
  BY <1>1, InitProposalInv, PTL DEF Spec

-----------------------------------------------------------------------------
(* TypeOK, for any logs, tree, answers and limits.                           *)
THEOREM ProposalTyped == Spec => []TypeOK
<1>1. ProposalInv => TypeOK
  <2> SUFFICES ASSUME ProposalInv PROVE TypeOK
    OBVIOUS
  <2>1. PICK S : evidence \in Seq(S)
    BY DEF ProposalInv, Gathered
  <2>2. Len(evidence) \in Nat /\ DOMAIN evidence = 1..Len(evidence)
    BY <2>1, LenProperties
  <2>3. Len(evidence) \in 0..MaxEvidenceFiles
    BY <2>2, LimitAssumption DEF ProposalInv, Gathered
  <2>4. \A i \in DOMAIN evidence : evidence[i].path \in DOMAIN Tree
    BY <2>2 DEF ProposalInv, Gathered, Fits
  <2>5. used \in 0..MaxChars
    BY LimitAssumption DEF ProposalInv, Gathered
  <2> QED
    BY <2>3, <2>4, <2>5 DEF ProposalInv, Controlled, Recognised, Concluded, TypeOK
<1> QED
  BY <1>1, ProposalInvariant, PTL

(* ExcerptHasMatch: the lines kept of a log hold the one it was recognised by.*)
THEOREM ProposalExcerpt == Spec => []ExcerptHasMatch
<1>1. ProposalInv => ExcerptHasMatch
  BY DEF ProposalInv, Recognised, HasMatch, ExcerptHasMatch
<1> QED
  BY <1>1, ProposalInvariant, PTL

(* EvidenceIsBounded: what the model is shown stays within its budgets, and  *)
(* each snippet lies in its file and shows its line.                         *)
THEOREM ProposalEvidenceBounded == Spec => []EvidenceIsBounded
<1>1. ProposalInv => EvidenceIsBounded
  <2> SUFFICES ASSUME ProposalInv PROVE EvidenceIsBounded
    OBVIOUS
  <2>1. PICK S : evidence \in Seq(S)
    BY DEF ProposalInv, Gathered
  <2>2. DOMAIN evidence = 1..Len(evidence)
    BY <2>1, LenProperties
  <2> QED
    BY <2>2 DEF ProposalInv, Gathered, Fits, Shows, EvidenceIsBounded
<1> QED
  BY <1>1, ProposalInvariant, PTL

(* ProposedIsGrounded: whatever the model answers, a patch that goes on to   *)
(* the sandbox is about files the failure, the diagnosis or the evidence     *)
(* names, and rests on evidence.                                             *)
THEOREM ProposalGrounded == Spec => []ProposedIsGrounded
<1>1. ProposalInv => ProposedIsGrounded
  BY DEF ProposalInv
<1> QED
  BY <1>1, ProposalInvariant, PTL

(* ParseIsFaithful: whatever canonical diff that git apply accepts the model *)
(* answers with, of any length, it is either complained about or taken for   *)
(* what git will make of it.                                                 *)
THEOREM ProposalParseIsFaithful == Spec => []ParseIsFaithful
<1>1. ProposalInv => ParseIsFaithful
  BY DEF ProposalInv, Reviewed
<1> QED
  BY <1>1, ProposalInvariant, PTL

(* ShownIsGrounded: a patch of files that were read is not turned down as    *)
(* ungrounded, but for the folders that are named like a runner's.           *)
THEOREM ProposalShownIsGrounded == Spec => []ShownIsGrounded
<1>1. ProposalInv => ShownIsGrounded
  BY DEF ProposalInv, Reviewed
<1> QED
  BY <1>1, ProposalInvariant, PTL

(* CandidatesAreBounded: the list that grows while it is worked through has  *)
(* room for the candidates of the log and once for each file, never more.    *)
THEOREM ProposalCandidatesBounded == Spec => []CandidatesAreBounded
<1>1. ProposalInv => CandidatesAreBounded
  <2> SUFFICES ASSUME ProposalInv PROVE CandidatesAreBounded
    OBVIOUS
  <2>1. Listed
    BY DEF ProposalInv
  <2>2. PICK S : queue \in Seq(S)
    BY <2>1 DEF Listed
  <2>3. Len(Candidates(signal)) \in Nat
    <3>1. \E F : Candidates(signal) \in Seq(F)
      BY <2>1, CandidatesDistinct DEF Listed
    <3> QED
      BY <3>1, LenProperties
  <2>4. Len(queue) <= Len(Candidates(signal)) + Cardinality(DOMAIN Tree)
    BY <2>1, <2>2, <2>3, ImportsAreBounded DEF Listed
  <2> QED
    BY <2>1, <2>4 DEF Listed, Distinct, CandidatesAreBounded
<1> QED
  BY <1>1, ProposalInvariant, PTL

(* ... and every turn of the loop takes up the next of them: with their      *)
(* bound, no more turns than candidates and files.  What is left of          *)
(* CollectionEnds is that a turn is taken.                                   *)
THEOREM ProposalCollectionProceeds ==
    Spec => [][pc = "collect" /\ pc' = "collect" =>
                   next' = next + 1 /\ next <= Len(queue)]_vars
<1>1. ProposalInv /\ [Next]_vars =>
        [pc = "collect" /\ pc' = "collect" => next' = next + 1 /\ next <= Len(queue)]_vars
  <2> SUFFICES ASSUME ProposalInv, Next, pc = "collect", pc' = "collect"
               PROVE  next' = next + 1 /\ next <= Len(queue)
    OBVIOUS
  <2>1. Collect
    BY DEF Next, ParseLog, Checkout, Diagnose, Screen, AskModel, ReviewAnswer
  <2>2. ~Finish
    BY DEF Finish, Resolved
  <2>3. next' = next + 1 /\ ~(next > Len(queue))
    BY <2>1, <2>2 DEF Collect, Skip, Extract
  <2>4. Len(queue) \in Nat /\ next \in Nat
    BY LenProperties DEF ProposalInv, Listed, Controlled
  <2> QED
    BY <2>3, <2>4
<1> QED
  BY <1>1, ProposalInvariant, PTL DEF Spec
=============================================================================
