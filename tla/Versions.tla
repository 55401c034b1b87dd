------------------------------ MODULE Versions ------------------------------
(***************************************************************************)
(* The tables of LevelDB (version_set.cc) as values: how a version is read *)
(* and what a compaction takes from it and makes of it.                    *)
(*                                                                         *)
(* A file is [num, entries]: a table with its number.  A version maps a    *)
(* level to its set of files.                                              *)
(* Sizes in bytes are left out: where the code compares one with a limit,  *)
(* either outcome is possible.                                             *)
(***************************************************************************)
EXTENDS Entries, FiniteSets, FiniteSetsExt

CONSTANTS
  NumLevels,          \* kNumLevels
  MaxMemCompactLevel  \* kMaxMemCompactLevel

ASSUME LevelsAssumption ==
  /\ NumLevels \in Nat /\ NumLevels >= 2
  /\ MaxMemCompactLevel \in 0 .. NumLevels - 1

Levels == 0 .. NumLevels - 1

smallest(f) == CHOOSE e \in f.entries : \A x \in f.entries \ {e} : Before(e, x)
largest(f)  == CHOOSE e \in f.entries : \A x \in f.entries \ {e} : Before(x, e)

minKey(files) == Min({smallest(f).key : f \in files})
maxKey(files) == Max({largest(f).key : f \in files})

Overlaps(f, lo, hi) == smallest(f).key <= hi /\ lo <= largest(f).key

(***************************************************************************)
(* Reading                                                                 *)
(***************************************************************************)

\* The one file of a level above 0 a lookup opens: the first whose largest
\* entry does not come before the target.
FindFile(files, k, s) ==
  LET reaching == {f \in files : LET e == largest(f)
                                 IN  e.key > k \/ (e.key = k /\ e.seq <= s)}
  IN  {f \in reaching : \A g \in reaching \ {f} :
                          Before(smallest(f), smallest(g))}

\* What one level answers: level 0 asks its newest file first.
LevelGet(v, level, k, s) ==
  LET hits == {f \in v[level] : Newest(f.entries, k, s) # {}}
      file == IF level = 0
              THEN {f \in hits : \A g \in hits : g.num <= f.num}
              ELSE FindFile(v[level], k, s)
  IN  UNION {Newest(f.entries, k, s) : f \in file}

\* Version::Get: the first level with an answer has the last word.
VersionGet(v, k, s) ==
  LET hits == {l \in Levels : LevelGet(v, l, k, s) # {}}
  IN  IF hits = {} THEN {} ELSE LevelGet(v, Min(hits), k, s)

(***************************************************************************)
(* Where a flushed memtable goes                                           *)
(***************************************************************************)

OverlapInLevel(v, level, lo, hi) == \E f \in v[level] : Overlaps(f, lo, hi)

\* Fault injection: only level 0 is looked at.
PickDeepestLevel(v, lo, hi) ==
  IF OverlapInLevel(v, 0, lo, hi) THEN {0} ELSE {MaxMemCompactLevel}

\* The levels PickLevelForMemTableOutput may answer.  It goes down past
\* levels without overlap, and stops early only when the level after the
\* next holds much data in the range.
PickLevelForMemTableOutput(v, lo, hi) ==
  LET free(l) == ~OverlapInLevel(v, l, lo, hi)
      mayStop(l) == \/ l = MaxMemCompactLevel
                    \/ ~free(l + 1)
                    \/ l + 2 < NumLevels /\ ~free(l + 2)
  IN  IF free(0)
      THEN {l \in 0 .. MaxMemCompactLevel :
              (\A j \in 1 .. l : free(j)) /\ mayStop(l)}
      ELSE {0}

(***************************************************************************)
(* Compactions                                                             *)
(***************************************************************************)

\* The files of a level that overlap a range; in level 0 also those that
\* overlap one of them, and so on.
GetOverlappingInputs(v, level, lo, hi) ==
  LET closed(S) == \A g \in v[0] :
        Overlaps(g, lo, hi) \/ (\E h \in S : Overlaps(g, smallest(h).key,
                                                      largest(h).key))
        => g \in S
  IN  IF level = 0
      THEN {f \in v[0] : \A S \in SUBSET v[0] : closed(S) => f \in S}
      ELSE {f \in v[level] : Overlaps(f, lo, hi)}

\* PickCompaction and SetupOtherInputs for a picked file: the pairs of
\* inputs (of its level, of the next) the compaction may have.  It takes
\* more files of its level if that needs no more of the next.
CompactionInputs(v, level, f) ==
  LET over(l, files) == GetOverlappingInputs(v, l, minKey(files),
                                             maxKey(files))
      in0 == IF level = 0 THEN over(0, {f}) ELSE {f}
      in1 == over(level + 1, in0)
      wider == over(level, in0 \cup in1)
      grows == /\ in1 # {} /\ Cardinality(wider) > Cardinality(in0)
               /\ Cardinality(over(level + 1, wider)) = Cardinality(in1)
  IN  {<<in0, in1>>} \cup
      IF grows THEN {<<wider, over(level + 1, wider)>>} ELSE {}

Grandparents(v, level, in) ==
  IF level + 2 < NumLevels
  THEN GetOverlappingInputs(v, level + 2, minKey(in), maxKey(in))
  ELSE {}

\* Fault injection: the first level below the outputs is not looked at.
IsBaseLevelOffByOne(v, level, k) ==
  \A l \in level + 3 .. NumLevels - 1 : ~OverlapInLevel(v, l, k, k)

\* No level below the outputs may hold the key.
IsBaseLevelForKey(v, level, k) ==
  \A l \in level + 2 .. NumLevels - 1 : ~OverlapInLevel(v, l, k, k)

\* The entries a compaction into level + 1 keeps: not those a newer one
\* hides from every snapshot, and no deletion marker that hides nothing.
Kept(v, level, E, smallestSnapshot) ==
  LET hidden(e) == \E x \in E : /\ x.key = e.key /\ x.seq > e.seq
                                /\ x.seq <= smallestSnapshot
      obsolete(e) == /\ e.del /\ e.seq <= smallestSnapshot
                     /\ IsBaseLevelForKey(v, level, e.key)
  IN  {e \in E : ~hidden(e) /\ ~obsolete(e)}

\* The ways to cut the kept entries into output files: one may end after
\* any entry, when it is big enough or overlaps too much below.
Outputs(E) ==
  LET cutsBefore(C, e) == {c \in C : Before(c, e)}
      last == {e \in E : \A x \in E \ {e} : Before(x, e)}
  IN  {{{x \in E : cutsBefore(C, x) = cutsBefore(C, e)} : e \in E} :
         C \in SUBSET (E \ last)}

=============================================================================
