---------------------------- MODULE LevelDBProofs ----------------------------
(***************************************************************************)
(* The safety properties of LevelDB.  Each part of the invariant is kept   *)
(* by every step, and rests on the parts before it:                        *)
(*   Base      - the types, the phases of the threads, what MANIFEST says; *)
(*   FilesInv  - the files in use are on the disk, under their numbers;    *)
(*   SyncInv   - what was promised is in the tables or in the logs;        *)
(*   LevelsInv - what a compaction is making fits into its level;          *)
(*   ReadsInv  - a lookup meets the entries of a key from the newest on,   *)
(*               and what a version lacks no reader misses.                *)
(***************************************************************************)
EXTENDS LevelDB, FiniteSetTheorems, FunctionTheorems, SequenceTheorems,
        WellFoundedInduction, TLAPS

-----------------------------------------------------------------------------
(* Induction, recursion and order *)

\* A set of numbers has a least one.
LEMMA LeastOf ==
  ASSUME NEW T \in SUBSET Nat, T # {}
  PROVE  \E n \in T : \A m \in T : n <= m
<1> DEFINE R == OpToRel(<, Nat)
<1>1. IsWellFoundedOn(R, Nat)
  BY NatLessThanWellFounded
<1>2. \A x, y \in Nat : x < y => <<x, y>> \in R
  BY DEF OpToRel
<1> HIDE DEF R
<1>3. \E x \in T : \A y \in T : ~ (<<y, x>> \in R)
  BY <1>1, WFMin
<1>4. \A x, y \in T : x \in Nat /\ y \in Nat /\ (<<y, x>> \notin R => x <= y)
  BY <1>2
<1> QED
  BY <1>3, <1>4

\* Induction over the numbers, for a set.
LEMMA Induction ==
  ASSUME NEW T, 0 \in T, \A n \in Nat : n \in T => n + 1 \in T
  PROVE  Nat \subseteq T
<1> DEFINE U == Nat \ T
<1> SUFFICES ASSUME U # {}
             PROVE FALSE
  OBVIOUS
<1>1. PICK n \in U : \A m \in U : n <= m
  BY LeastOf
<1>2. n - 1 \in Nat /\ n - 1 \notin U
  BY <1>1
<1> QED BY <1>2

\* A function on 0 .. n may be defined by recursion.
LEMMA Recursion ==
  ASSUME NEW S, NEW b \in S, NEW n \in Nat,
         NEW step \in [1 .. n -> [S -> S]]
  PROVE  \E f \in [0 .. n -> S] :
           f[0] = b /\ \A i \in 1 .. n : f[i] = step[i][f[i - 1]]
<1> DEFINE good(k) == \E f \in [0 .. k -> S] :
             f[0] = b /\ \A i \in 1 .. k : f[i] = step[i][f[i - 1]]
           T == {k \in Nat : k <= n => good(k)}
<1>1. 0 \in T
  <2> DEFINE f == [i \in 0 .. 0 |-> b]
  <2>1. f \in [0 .. 0 -> S] /\ f[0] = b /\ \A i \in 1 .. 0 : f[i] = step[i][f[i - 1]]
    OBVIOUS
  <2> QED
    BY <2>1
<1>2. ASSUME NEW k \in Nat, k \in T
      PROVE  k + 1 \in T
  <2> SUFFICES ASSUME k + 1 <= n
               PROVE  good(k + 1)
    OBVIOUS
  <2>1. PICK f \in [0 .. k -> S] : f[0] = b /\ \A i \in 1 .. k : f[i] = step[i][f[i - 1]]
    BY <1>2
  <2> DEFINE g == [i \in 0 .. k + 1 |-> IF i = k + 1 THEN step[k + 1][f[k]] ELSE f[i]]
  <2>2. \A i \in 0 .. k : i \in 0 .. k + 1 /\ i # k + 1
    OBVIOUS
  <2>3. g[k + 1] = step[k + 1][f[k]] /\ \A i \in 0 .. k : g[i] = f[i]
    BY <2>2
  <2>4. g \in [0 .. k + 1 -> S]
    <3>1. step[k + 1][f[k]] \in S
      OBVIOUS
    <3> QED
      BY <3>1
  <2>5. \A i \in 1 .. k + 1 : (i = k + 1 \/ i \in 1 .. k) /\ i - 1 \in 0 .. k
    OBVIOUS
  <2> HIDE DEF g
  <2>6. \A i \in 1 .. k + 1 : g[i] = step[i][g[i - 1]]
    <3>1. (k + 1) - 1 = k /\ k \in 0 .. k
      OBVIOUS
    <3>2. g[k + 1] = step[k + 1][g[(k + 1) - 1]]
      BY <2>3, <3>1
    <3>3. ASSUME NEW i \in 1 .. k
          PROVE  g[i] = step[i][g[i - 1]]
      <4>1. i \in 0 .. k /\ i - 1 \in 0 .. k
        OBVIOUS
      <4> QED
        BY <2>1, <2>3, <4>1
    <3> QED
      BY <2>5, <3>2, <3>3
  <2>7. g[0] = b
    BY <2>1, <2>3
  <2> QED
    BY <2>4, <2>6, <2>7
<1> HIDE DEF good
<1>3. Nat \subseteq T
  <2> HIDE DEF T
  <2> QED
    BY <1>1, <1>2, Induction
<1> QED
  BY <1>3 DEF good

\* A finite set with a total order has a first element.
LEMMA FirstOf ==
  ASSUME NEW S, IsFiniteSet(S), S # {}, NEW R,
         \A a, b \in S : a # b => b \in R[a] \/ a \in R[b],
         \A a, b, c \in S : b \in R[a] /\ c \in R[b] => c \in R[a]
  PROVE  \E a \in S : \A b \in S \ {a} : b \in R[a]
<1> DEFINE good(X) == \E a \in X : \A b \in X \ {a} : b \in R[a]
           T == {k \in Nat : \A X \in SUBSET S : X # {} /\ Cardinality(X) = k => good(X)}
<1>1. \A X \in SUBSET S : IsFiniteSet(X) /\ Cardinality(X) \in Nat
  BY FS_Subset, FS_CardinalityType
<1>2. 0 \in T
  BY <1>1, FS_EmptySet
<1>3. ASSUME NEW k \in Nat, k \in T
      PROVE  k + 1 \in T
  <2> SUFFICES ASSUME NEW X \in SUBSET S, X # {}, Cardinality(X) = k + 1
               PROVE  good(X)
    OBVIOUS
  <2>1. PICK x \in X : TRUE
    OBVIOUS
  <2>2. Cardinality(X \ {x}) = k /\ X \ {x} \in SUBSET S
    <3>1. IsFiniteSet(X)
      BY <1>1
    <3>2. Cardinality(X \ {x}) = Cardinality(X) - 1
      BY <2>1, <3>1, FS_RemoveElement
    <3> QED
      BY <3>2
  <2>3. CASE X \ {x} = {}
    BY <2>3
  <2>4. CASE X \ {x} # {}
    <3>1. PICK a \in X \ {x} : \A b \in (X \ {x}) \ {a} : b \in R[a]
      BY <1>3, <2>2, <2>4
    <3>2. CASE x \in R[a]
      BY <3>1, <3>2
    <3>3. CASE a \in R[x]
      <4>1. \A b \in X \ {x} : b \in R[x]
        BY <3>1, <3>3
      <4> QED
        BY <4>1
    <3> QED
      BY <3>1, <3>2, <3>3
  <2> QED
    BY <2>3, <2>4
<1> HIDE DEF good
<1>4. Nat \subseteq T
  <2> HIDE DEF T
  <2> QED
    BY <1>2, <1>3, Induction
<1> QED
  BY <1>1, <1>4 DEF good

\* Induction over a finite set, for a set of its subsets.
LEMMA FiniteInduction ==
  ASSUME NEW S, IsFiniteSet(S), NEW T, {} \in T,
         \A X \in SUBSET S, x \in S : X \in T => X \cup {x} \in T
  PROVE  S \in T
<1> DEFINE U == {k \in Nat : \A X \in SUBSET S : Cardinality(X) = k => X \in T}
<1>1. \A X \in SUBSET S : IsFiniteSet(X) /\ Cardinality(X) \in Nat
  BY FS_Subset, FS_CardinalityType
<1>2. 0 \in U
  BY <1>1, FS_EmptySet
<1>3. ASSUME NEW k \in Nat, k \in U
      PROVE  k + 1 \in U
  <2> SUFFICES ASSUME NEW X \in SUBSET S, Cardinality(X) = k + 1
               PROVE  X \in T
    OBVIOUS
  <2>1. X # {}
    <3>1. Cardinality({}) = 0 /\ k + 1 # 0
      BY FS_EmptySet
    <3> QED
      BY <3>1
  <2>2. PICK x \in X : TRUE
    BY <2>1
  <2>3. IsFiniteSet(X)
    BY <1>1
  <2>4. Cardinality(X \ {x}) = k
    <3>1. Cardinality(X \ {x}) = Cardinality(X) - 1
      BY <2>2, <2>3, FS_RemoveElement
    <3> QED
      BY <3>1
  <2>5. X \ {x} \in T
    BY <1>3, <2>4
  <2>6. (X \ {x}) \cup {x} = X
    BY <2>2
  <2> QED
    BY <2>5, <2>6
<1>4. Nat \subseteq U
  <2> HIDE DEF U
  <2> QED
    BY <1>2, <1>3, Induction
<1> QED
  BY <1>1, <1>4

\* The image of a finite set is finite.
LEMMA ImageFinite ==
  ASSUME NEW S, IsFiniteSet(S), NEW f
  PROVE  IsFiniteSet({f[x] : x \in S})
<1> DEFINE T == {f[x] : x \in S}
           g == [x \in S |-> f[x]]
<1>1. g \in Surjection(S, T)
  BY DEF Surjection
<1> QED
  BY <1>1, FS_Surjection

\* So is the union of finitely many finite sets.
LEMMA UnionFinite ==
  ASSUME NEW S, IsFiniteSet(S), \A x \in S : IsFiniteSet(x)
  PROVE  IsFiniteSet(UNION S)
<1> DEFINE T == {X \in SUBSET S : IsFiniteSet(UNION X)}
<1>1. {} \in T
  <2>1. UNION {} = {}
    OBVIOUS
  <2> QED
    BY <2>1, FS_EmptySet
<1>2. ASSUME NEW X \in SUBSET S, NEW x \in S, X \in T
      PROVE  X \cup {x} \in T
  <2>1. UNION (X \cup {x}) = (UNION X) \cup x
    OBVIOUS
  <2>2. IsFiniteSet((UNION X) \cup x)
    BY <1>2, FS_Union
  <2> QED
    BY <2>1, <2>2
<1>3. S \in T
  <2> HIDE DEF T
  <2> QED
    BY <1>1, <1>2, FiniteInduction
<1> QED
  BY <1>3

\* A finite set of numbers that is not empty has a Min and a Max.
LEMMA MinMax ==
  ASSUME NEW S \in SUBSET Nat, IsFiniteSet(S), S # {}
  PROVE  /\ Min(S) \in S /\ \A x \in S : Min(S) <= x
         /\ Max(S) \in S /\ \A x \in S : x <= Max(S)
<1> DEFINE T == {X \in SUBSET S : X # {} => \E a \in X : \A b \in X : b <= a}
<1>1. {} \in T
  OBVIOUS
<1>2. ASSUME NEW X \in SUBSET S, NEW x \in S, X \in T
      PROVE  X \cup {x} \in T
  <2>1. CASE X = {}
    BY <2>1
  <2>2. CASE X # {}
    <3>1. PICK a \in X : \A b \in X : b <= a
      BY <1>2, <2>2
    <3>2. CASE a <= x
      BY <3>1, <3>2
    <3>3. CASE x <= a
      BY <3>1, <3>3
    <3> QED
      BY <3>2, <3>3
  <2> QED
    BY <2>1, <2>2
<1>3. S \in T
  <2> HIDE DEF T
  <2> QED
    BY <1>1, <1>2, FiniteInduction
<1>4. \E a \in S : \A b \in S : a >= b
  BY <1>3
<1>5. \E a \in S : \A b \in S : a <= b
  BY LeastOf
<1>6. Min(S) \in S /\ \A x \in S : Min(S) <= x
  BY <1>5 DEF Min
<1>7. Max(S) \in S /\ \A x \in S : Max(S) >= x
  BY <1>4 DEF Max
<1> QED
  BY <1>6, <1>7

-----------------------------------------------------------------------------
(* What the variables hold *)

Entry == [key : Nat, seq : Nat, del : BOOLEAN]
EntrySets == {E \in SUBSET Entry : IsFiniteSet(E)}
Table == EntrySets \ {{}}
File == [num : Nat, entries : Table]
Files == {F \in SUBSET File : IsFiniteSet(F)}
Version == [Levels -> Files]
Slices == {T \in SUBSET Table : IsFiniteSet(T)}
Log == {l \in [recs : Seq(Table), synced : Nat] : l.synced <= Len(l.recs)}

LogsOK ==
  /\ IsFiniteSet(DOMAIN logs) /\ DOMAIN logs \subseteq Nat \ {0}
  /\ logs \in [DOMAIN logs -> Log]

needed == {n \in DOMAIN logs : n >= manifest.log}

ManifestOK == manifest \in [files : Version, log : Nat, next : Nat, last : Nat]

FlushOK ==
  flush \in [pc : {"none", "build", "install", "open"}, files : Files,
             level : Levels]

CompactionOK ==
  compaction \in [pc : {"none", "merge", "install"},
                  level : 0 .. NumLevels - 2, in : Files \X Files,
                  todo : Slices, outs : Files, move : BOOLEAN]

TypeOK ==
  /\ up \in {"up", "down", "opening"}
  /\ tables \in SUBSET File
  /\ LogsOK /\ ManifestOK
  /\ mem \in EntrySets /\ imm \in EntrySets
  /\ current \in Version
  /\ logfile \in Nat /\ logNumber \in Nat /\ nextFile \in Nat
  /\ lastSequence \in Nat
  /\ pendingOutputs \in SUBSET Nat /\ bgError \in BOOLEAN
  /\ writers \in Seq(Calls) /\ logged \in 0 .. Len(writers)
  /\ snapshots \in SUBSET Nat /\ pinned \in SUBSET Version
  /\ scheduled \in BOOLEAN
  /\ FlushOK /\ CompactionOK
  /\ writes \in Nat /\ crashes \in Nat
  /\ committed \in SUBSET Entry /\ synced \in SUBSET Entry
  /\ split \in SUBSET Nat

-----------------------------------------------------------------------------
(* Recovery *)

\* The entries of a log are finitely many.
LEMMA EntriesType ==
  ASSUME NEW recs \in Seq(Table)
  PROVE  Entries(recs) \in EntrySets
<1>1. IsFiniteSet({recs[i] : i \in 1 .. Len(recs)})
  <2>1. IsFiniteSet(1 .. Len(recs))
    BY FS_Interval
  <2> QED
    BY <2>1, ImageFinite
<1>2. ToSet(recs) = {recs[i] : i \in 1 .. Len(recs)}
  BY DEF ToSet
<1>3. \A E \in ToSet(recs) : E \in EntrySets /\ IsFiniteSet(E)
  BY <1>2 DEF Table, EntrySets
<1>4. IsFiniteSet(UNION ToSet(recs))
  BY <1>1, <1>2, <1>3, UnionFinite
<1>5. UNION ToSet(recs) \in SUBSET Entry
  BY <1>3 DEF EntrySets
<1> QED
  BY <1>4, <1>5 DEF Entries, EntrySets

Replay == [next : Nat, files : Files, last : Nat]

\* Where the replay starts.
replayFrom ==
  [next |-> manifest.next + 1, files |-> {}, last |-> manifest.last]

\* The logs up to n that become tables.
filled(n) == {m \in needed : m <= n /\ Entries(logs[m].recs) # {}}

\* What the replay has come to after the logs up to n: there is a table for
\* each that had entries, and their numbers have the order of the logs.
Replayed(r, n) ==
  /\ r \in Replay
  /\ manifest.next < r.next /\ manifest.last <= r.last
  /\ \A m \in needed : m <= n => m < r.next
  /\ \A m \in filled(n) : \A e \in Entries(logs[m].recs) : e.seq <= r.last
  /\ \E num \in [filled(n) -> Nat] :
       /\ r.files = {[num |-> num[m], entries |-> Entries(logs[m].recs)] :
                       m \in filled(n)}
       /\ \A m \in filled(n) : manifest.next < num[m] /\ num[m] < r.next
       /\ \A l, m \in filled(n) : l < m => num[l] < num[m]

\* What one log makes of the state of the replay.
LEMMA ReplayLogType ==
  ASSUME LogsOK, NEW acc \in Replay, NEW n \in DOMAIN logs
  PROVE  /\ replayLog(acc, n) \in Replay
         /\ acc.next <= replayLog(acc, n).next
         /\ n < replayLog(acc, n).next
         /\ acc.last <= replayLog(acc, n).last
         /\ \A e \in Entries(logs[n].recs) : e.seq <= replayLog(acc, n).last
         /\ Entries(logs[n].recs) = {} => replayLog(acc, n).files = acc.files
         /\ Entries(logs[n].recs) # {} =>
              /\ acc.next < replayLog(acc, n).next
              /\ replayLog(acc, n).files = acc.files \cup
                   {[num |-> acc.next, entries |-> Entries(logs[n].recs)]}
<1> DEFINE E == Entries(logs[n].recs)
           after == IF E = {} THEN acc.next ELSE acc.next + 1
           files == IF E = {} THEN acc.files
                    ELSE acc.files \cup {[num |-> acc.next, entries |-> E]}
           seqs == {acc.last} \cup {e.seq : e \in E}
<1>1. E \in EntrySets
  BY EntriesType DEF LogsOK, Log
<1>2. acc.next \in Nat /\ acc.last \in Nat /\ acc.files \in Files
  BY DEF Replay
<1>3. n \in Nat /\ after \in Nat /\ acc.next <= after
      /\ (E # {} => acc.next < after)
  BY <1>2 DEF LogsOK
<1>4. seqs \in SUBSET Nat /\ IsFiniteSet(seqs) /\ seqs # {}
  <2> DEFINE seq == [e \in E |-> e.seq]
  <2>1. IsFiniteSet({seq[e] : e \in E})
    BY <1>1, ImageFinite DEF EntrySets
  <2>2. {seq[e] : e \in E} = {e.seq : e \in E}
    OBVIOUS
  <2>3. IsFiniteSet({acc.last} \cup {e.seq : e \in E})
    BY <2>1, <2>2, FS_Singleton, FS_Union
  <2>4. \A e \in E : e.seq \in Nat
    BY <1>1 DEF EntrySets, Entry
  <2> QED
    BY <1>2, <2>3, <2>4
<1>5. Max(seqs) \in Nat /\ \A q \in seqs : q <= Max(seqs)
  BY <1>4, MinMax
<1>6. Max({after, n + 1}) \in Nat /\ after <= Max({after, n + 1})
      /\ n < Max({after, n + 1})
  <2> DEFINE two == {after, n + 1}
  <2>1. two \in SUBSET Nat /\ two # {}
    BY <1>3
  <2>2. IsFiniteSet(two)
    <3>1. two = {after} \cup {n + 1}
      OBVIOUS
    <3>2. IsFiniteSet({after})
      BY FS_Singleton
    <3>3. IsFiniteSet({after} \cup {n + 1})
      BY <3>2, FS_AddElement
    <3> QED
      BY <3>1, <3>3
  <2>3. Max(two) \in two /\ \A x \in two : x <= Max(two)
    <3> HIDE DEF two
    <3> QED
      BY <2>1, <2>2, MinMax
  <2>4. after \in two /\ n + 1 \in two
    OBVIOUS
  <2>5. Max(two) \in Nat /\ after <= Max(two) /\ n + 1 <= Max(two)
    <3> HIDE DEF two, after
    <3> QED
      BY <2>1, <2>3, <2>4
  <2> HIDE DEF after
  <2> QED
    BY <1>3, <2>5
<1>7. files \in Files
  <2>1. CASE E = {}
    BY <1>2, <2>1
  <2>2. CASE E # {}
    <3>1. [num |-> acc.next, entries |-> E] \in File
      BY <1>1, <1>2, <2>2 DEF File, Table
    <3>2. acc.files \in SUBSET File /\ IsFiniteSet(acc.files)
      BY <1>2 DEF Files
    <3>3. IsFiniteSet(acc.files \cup {[num |-> acc.next, entries |-> E]})
      BY <3>2, FS_AddElement
    <3> HIDE DEF E
    <3> QED
      BY <2>2, <3>1, <3>2, <3>3 DEF Files
  <2> QED
    BY <2>1, <2>2
<1>8. replayLog(acc, n)
        = [next |-> Max({after, n + 1}), files |-> files, last |-> Max(seqs)]
  BY DEF replayLog
<1>9. acc.last \in seqs /\ \A e \in E : e.seq \in seqs
  OBVIOUS
<1>10. (E = {} => files = acc.files)
       /\ (E # {} => files = acc.files \cup {[num |-> acc.next, entries |-> E]})
  OBVIOUS
<1> HIDE DEF E, after, files, seqs
<1>11. /\ replayLog(acc, n) \in Replay
       /\ acc.next <= replayLog(acc, n).next
       /\ n < replayLog(acc, n).next
       /\ acc.last <= replayLog(acc, n).last
       /\ \A e \in E : e.seq <= replayLog(acc, n).last
       /\ E = {} => replayLog(acc, n).files = acc.files
       /\ E # {} => /\ acc.next < replayLog(acc, n).next
                    /\ replayLog(acc, n).files = acc.files \cup
                         {[num |-> acc.next, entries |-> E]}
  BY <1>2, <1>3, <1>5, <1>6, <1>7, <1>8, <1>9, <1>10 DEF Replay
<1> QED
  BY <1>11 DEF E

\* replayUpTo is defined by recursion over the numbers of the logs.
LEMMA ReplayUnfold ==
  ASSUME LogsOK, ManifestOK, NEW M \in Nat, M = Max(DOMAIN logs)
  PROVE  /\ replayUpTo[0] = replayFrom
         /\ \A n \in 1 .. M :
              replayUpTo[n] = IF n \in needed
                              THEN replayLog(replayUpTo[n - 1], n)
                              ELSE replayUpTo[n - 1]
<1> DEFINE step == [n \in 1 .. M |-> [acc \in Replay |->
                      IF n \in needed THEN replayLog(acc, n) ELSE acc]]
           F(f) == [n \in 0 .. Max(DOMAIN logs) |->
                      IF n = 0
                      THEN [next |-> manifest.next + 1, files |-> {},
                            last |-> manifest.last]
                      ELSE IF n \in DOMAIN logs /\ n >= manifest.log
                           THEN replayLog(f[n - 1], n)
                           ELSE f[n - 1]]
<1>1. replayFrom \in Replay
  BY FS_EmptySet DEF replayFrom, Replay, ManifestOK, Files
<1>2. step \in [1 .. M -> [Replay -> Replay]]
  <2>1. \A acc \in Replay, n \in needed : replayLog(acc, n) \in Replay
    BY ReplayLogType DEF needed
  <2> QED
    BY <2>1
<1>3. PICK f \in [0 .. M -> Replay] :
        f[0] = replayFrom /\ \A n \in 1 .. M : f[n] = step[n][f[n - 1]]
  <2> HIDE DEF step
  <2>1. \E f \in [0 .. M -> Replay] :
          f[0] = replayFrom /\ \A n \in 1 .. M : f[n] = step[n][f[n - 1]]
    BY ONLY <1>1, <1>2, Recursion, M \in Nat
  <2> QED
    BY <2>1
<1>4. \A n \in 1 .. M : f[n] = IF n \in needed THEN replayLog(f[n - 1], n)
                                                ELSE f[n - 1]
  <2>1. \A n \in 1 .. M : f[n - 1] \in Replay
    OBVIOUS
  <2> QED
    BY <1>3, <2>1
<1>5. f = F(f)
  <2>1. \A n \in 0 .. M : n = 0 \/ n \in 1 .. M
    OBVIOUS
  <2>2. \A n \in 1 .. M : n \in needed <=> n \in DOMAIN logs /\ n >= manifest.log
    BY DEF needed
  <2> QED
    BY <1>3, <1>4, <2>1, <2>2 DEF replayFrom
<1>6. replayUpTo = F(replayUpTo)
  BY <1>5 DEF replayUpTo
<1>7. ASSUME NEW g, g = F(replayUpTo)
      PROVE  /\ g[0] = replayFrom
             /\ \A n \in 1 .. M :
                  g[n] = IF n \in needed THEN replayLog(replayUpTo[n - 1], n)
                                         ELSE replayUpTo[n - 1]
  <2>1. \A n \in 1 .. M : n \in 0 .. M /\ n # 0
    OBVIOUS
  <2> QED
    BY <1>7, <2>1 DEF replayFrom, needed
<1> HIDE DEF F
<1> QED
  BY <1>6, <1>7

\* One more log.
LEMMA ReplayedStep ==
  ASSUME LogsOK, ManifestOK, NEW acc, NEW n \in Nat, n + 1 \in needed,
         Replayed(acc, n)
  PROVE  Replayed(replayLog(acc, n + 1), n + 1)
<1> DEFINE r == replayLog(acc, n + 1)
           E(m) == Entries(logs[m].recs)
<1>1. acc \in Replay
  BY DEF Replayed
<1>2. n + 1 \in DOMAIN logs /\ DOMAIN logs \subseteq Nat
  BY DEF needed, LogsOK
<1>3. /\ r \in Replay /\ acc.next <= r.next /\ n + 1 < r.next
      /\ acc.last <= r.last /\ \A e \in E(n + 1) : e.seq <= r.last
      /\ E(n + 1) = {} => r.files = acc.files
      /\ E(n + 1) # {} =>
           /\ acc.next < r.next
           /\ r.files = acc.files \cup
                          {[num |-> acc.next, entries |-> E(n + 1)]}
  BY <1>1, <1>2, ReplayLogType
<1>4. /\ acc.next \in Nat /\ r.next \in Nat /\ acc.last \in Nat /\ r.last \in Nat
      /\ manifest.next \in Nat /\ manifest.last \in Nat
  BY <1>1, <1>3 DEF Replay, ManifestOK
<1> HIDE DEF r
<1>5. \A m \in needed : m \in Nat /\ (m <= n + 1 => m <= n \/ m = n + 1)
  BY <1>2 DEF needed
<1>6. filled(n) \subseteq needed /\ \A m \in filled(n) : m <= n /\ m # n + 1
  BY <1>5 DEF filled
<1>7. filled(n + 1) = IF E(n + 1) = {} THEN filled(n) ELSE filled(n) \cup {n + 1}
  BY <1>5 DEF filled
<1>8. manifest.next < r.next /\ manifest.last <= r.last
  BY <1>3, <1>4 DEF Replayed
<1>9. \A m \in needed : m <= n + 1 => m < r.next
  BY <1>3, <1>4, <1>5 DEF Replayed
<1>10. \A m \in filled(n + 1) : \A e \in E(m) : e.seq <= r.last
  <2>1. ASSUME NEW m \in filled(n), NEW e \in E(m)
        PROVE  e.seq <= r.last
    <3>1. E(m) \in EntrySets
      BY <1>6, EntriesType DEF needed, LogsOK, Log
    <3>2. e.seq \in Nat
      BY <3>1 DEF EntrySets, Entry
    <3>3. e.seq <= acc.last
      BY DEF Replayed
    <3> QED
      BY <1>3, <1>4, <3>2, <3>3
  <2> QED
    BY <1>3, <1>7, <2>1
<1>11. \E num \in [filled(n + 1) -> Nat] :
         /\ r.files = {[num |-> num[m], entries |-> E(m)] : m \in filled(n + 1)}
         /\ \A m \in filled(n + 1) : manifest.next < num[m] /\ num[m] < r.next
         /\ \A l, m \in filled(n + 1) : l < m => num[l] < num[m]
  <2>1. PICK num \in [filled(n) -> Nat] :
          /\ acc.files = {[num |-> num[m], entries |-> E(m)] : m \in filled(n)}
          /\ \A m \in filled(n) : manifest.next < num[m] /\ num[m] < acc.next
          /\ \A l, m \in filled(n) : l < m => num[l] < num[m]
    BY DEF Replayed
  <2>2. CASE E(n + 1) = {}
    <3>1. filled(n + 1) = filled(n) /\ r.files = acc.files
      BY <1>3, <1>7, <2>2
    <3>2. \A m \in filled(n) : num[m] \in Nat /\ num[m] < r.next
      BY <1>3, <1>4, <2>1
    <3> QED
      BY <2>1, <3>1, <3>2
  <2>3. CASE E(n + 1) # {}
    <3> DEFINE more == [m \in filled(n) \cup {n + 1} |->
                          IF m = n + 1 THEN acc.next ELSE num[m]]
    <3>1. filled(n + 1) = filled(n) \cup {n + 1}
      BY <1>7, <2>3
    <3>2. more \in [filled(n) \cup {n + 1} -> Nat]
      BY <1>4
    <3>3. more[n + 1] = acc.next /\ \A m \in filled(n) : more[m] = num[m]
      BY <1>6
    <3> HIDE DEF more
    <3>4. r.files = {[num |-> more[m], entries |-> E(m)] :
                       m \in filled(n) \cup {n + 1}}
      <4>1. acc.files = {[num |-> more[m], entries |-> E(m)] : m \in filled(n)}
        BY <2>1, <3>3
      <4>2. r.files = acc.files \cup
                        {[num |-> more[n + 1], entries |-> E(n + 1)]}
        BY <1>3, <2>3, <3>3
      <4> QED
        BY <4>1, <4>2
    <3>5. \A m \in filled(n) \cup {n + 1} :
            manifest.next < more[m] /\ more[m] < r.next
      <4>1. manifest.next < acc.next /\ acc.next < r.next
        BY <1>3, <2>3 DEF Replayed
      <4>2. \A m \in filled(n) : num[m] \in Nat /\ manifest.next < num[m]
                                 /\ num[m] < r.next
        BY <1>4, <2>1, <4>1
      <4> QED
        BY <3>3, <4>1, <4>2
    <3>6. \A l, m \in filled(n) \cup {n + 1} : l < m => more[l] < more[m]
      <4>1. \A m \in filled(n) : m \in Nat /\ ~(n + 1 < m) /\ num[m] < acc.next
        BY <1>5, <1>6, <2>1
      <4> QED
        BY <2>1, <3>3, <4>1
    <3> QED
      BY <3>1, <3>2, <3>4, <3>5, <3>6
  <2> QED
    BY <2>2, <2>3
<1> HIDE DEF E
<1>12. Replayed(r, n + 1)
  BY <1>3, <1>8, <1>9, <1>10, <1>11 DEF Replayed, E
<1> QED
  BY <1>12 DEF r

\* What the replay makes of the logs the MANIFEST counts on (Recover).
LEMMA ReplayOutcome ==
  ASSUME LogsOK, ManifestOK, needed # {}
  PROVE  /\ Max(DOMAIN logs) \in Nat
         /\ \A n \in DOMAIN logs : n <= Max(DOMAIN logs)
         /\ Replayed(replay, Max(DOMAIN logs))
<1>1. DOMAIN logs \subseteq Nat \ {0} /\ IsFiniteSet(DOMAIN logs)
      /\ DOMAIN logs # {}
  BY DEF LogsOK, needed
<1>2. /\ Max(DOMAIN logs) \in DOMAIN logs
      /\ \A n \in DOMAIN logs : n <= Max(DOMAIN logs)
  BY <1>1, MinMax
<1>3. PICK M \in Nat : M = Max(DOMAIN logs)
  BY <1>1, <1>2
<1>4. /\ replayUpTo[0] = replayFrom
      /\ \A n \in 1 .. M : replayUpTo[n] = IF n \in needed
                                           THEN replayLog(replayUpTo[n - 1], n)
                                           ELSE replayUpTo[n - 1]
  BY <1>3, ReplayUnfold
<1> DEFINE T == {n \in Nat : n <= M => Replayed(replayUpTo[n], n)}
<1>5. 0 \in T
  <2>1. filled(0) = {} /\ \A m \in needed : ~(m <= 0)
    BY <1>1 DEF filled, needed
  <2>2. replayFrom \in Replay /\ replayFrom.files = {}
        /\ replayFrom.next = manifest.next + 1 /\ replayFrom.last = manifest.last
        /\ manifest.next \in Nat /\ manifest.last \in Nat
    BY FS_EmptySet DEF replayFrom, Replay, ManifestOK, Files
  <2>3. manifest.next < replayFrom.next /\ manifest.last <= replayFrom.last
    BY <2>2
  <2>4. \E num \in [filled(0) -> Nat] :
          /\ replayFrom.files = {[num |-> num[m],
                                  entries |-> Entries(logs[m].recs)] :
                                   m \in filled(0)}
          /\ \A m \in filled(0) :
               manifest.next < num[m] /\ num[m] < replayFrom.next
          /\ \A l, m \in filled(0) : l < m => num[l] < num[m]
    <3> DEFINE num == [m \in {} |-> 0]
    <3>1. num \in [{} -> Nat]
      OBVIOUS
    <3> HIDE DEF num
    <3> QED
      BY <2>1, <2>2, <3>1
  <2>5. Replayed(replayFrom, 0)
    BY <2>1, <2>2, <2>3, <2>4 DEF Replayed
  <2> QED
    BY <1>4, <2>5
<1>6. ASSUME NEW n \in Nat, n \in T
      PROVE  n + 1 \in T
  <2> SUFFICES ASSUME n + 1 <= M
               PROVE  Replayed(replayUpTo[n + 1], n + 1)
    OBVIOUS
  <2>1. Replayed(replayUpTo[n], n)
    BY <1>6
  <2>2. n + 1 \in 1 .. M /\ (n + 1) - 1 = n
    OBVIOUS
  <2>3. CASE n + 1 \in needed
    BY <1>4, <2>1, <2>2, <2>3, ReplayedStep
  <2>4. CASE n + 1 \notin needed
    <3>1. replayUpTo[n + 1] = replayUpTo[n]
      BY <1>4, <2>2, <2>4
    <3>2. \A m \in needed : m <= n + 1 <=> m <= n
      BY <1>1, <2>4 DEF needed
    <3>3. filled(n + 1) = filled(n)
      BY <3>2 DEF filled
    <3> QED
      BY <2>1, <3>1, <3>2, <3>3 DEF Replayed
  <2> QED
    BY <2>3, <2>4
<1>7. Nat \subseteq T
  <2> HIDE DEF T
  <2> QED
    BY <1>5, <1>6, Induction
<1>8. Replayed(replayUpTo[M], M)
  BY <1>7
<1> QED
  BY <1>2, <1>3, <1>8 DEF replay

-----------------------------------------------------------------------------
(* Values *)

\* All of A come before all of B, in the order of a table.
InOrder(A, B) == \A a \in A, b \in B : Before(a, b)
Apart(A, B) == InOrder(A, B) \/ InOrder(B, A)

\* The entries of a group (WriteBatchInternal::SetSequence).
LEMMA EntriesOfType ==
  ASSUME writers \in Seq(Calls), lastSequence \in Nat,
         NEW n \in 1 .. Len(writers)
  PROVE  /\ entriesOf(n) \in Table
         /\ \A e \in entriesOf(n) : /\ lastSequence < e.seq
                                    /\ e.seq <= lastSequence + n
         /\ \A d, e \in entriesOf(n) : d.seq = e.seq => d = e
<1> DEFINE g == [i \in 1 .. n |-> [key |-> writers[i].key,
                                   seq |-> lastSequence + i,
                                   del |-> writers[i].del]]
<1>1. entriesOf(n) = {g[i] : i \in 1 .. n}
  BY DEF entriesOf
<1>2. n \in Nat /\ 1 \in 1 .. n
  OBVIOUS
<1>3. \A i \in 1 .. n : writers[i] \in Calls
  OBVIOUS
<1>4. \A i \in 1 .. n : g[i] \in Entry
  BY <1>3, LevelDBAssumption DEF Entry
<1>5. \A i \in 1 .. n : g[i].seq = lastSequence + i
  OBVIOUS
<1>6. IsFiniteSet({g[i] : i \in 1 .. n})
  <2>1. IsFiniteSet(1 .. n)
    BY <1>2, FS_Interval
  <2> HIDE DEF g
  <2> QED
    BY <2>1, ImageFinite
<1>7. \A i \in 1 .. n : /\ lastSequence < lastSequence + i
                        /\ lastSequence + i <= lastSequence + n
  OBVIOUS
<1>8. \A i, j \in 1 .. n : lastSequence + i = lastSequence + j => i = j
  OBVIOUS
<1> HIDE DEF g
<1>9. entriesOf(n) # {}
  BY <1>1, <1>2
<1>10. entriesOf(n) \in Table
  BY <1>1, <1>4, <1>6, <1>9 DEF Table, EntrySets
<1>11. \A e \in entriesOf(n) : \E i \in 1 .. n : e = g[i] /\ e.seq = lastSequence + i
  BY <1>1, <1>5
<1>12. \A e \in entriesOf(n) : lastSequence < e.seq /\ e.seq <= lastSequence + n
  BY <1>7, <1>11
<1>13. \A d, e \in entriesOf(n) : d.seq = e.seq => d = e
  BY <1>8, <1>11
<1> QED
  BY <1>10, <1>12, <1>13

\* A version with other files in one level.
LEMMA VersionExcept ==
  ASSUME NEW v \in Version, NEW l \in Levels, NEW files \in Files
  PROVE  [v EXCEPT ![l] = files] \in Version
BY DEF Version

\* Files of a version, and of a level of one.
LEMMA VersionFiles ==
  ASSUME NEW v \in Version
  PROVE  /\ FilesOf(v) \in SUBSET File
         /\ \A l \in Levels : v[l] \in Files /\ v[l] \subseteq FilesOf(v)
BY DEF Version, FilesOf, Files

LEMMA FilesUnion ==
  ASSUME NEW A \in Files, NEW B \in Files
  PROVE  A \cup B \in Files
BY FS_Union DEF Files

LEMMA FilesSubset ==
  ASSUME NEW A \in Files, NEW B \in SUBSET A
  PROVE  B \in Files
BY FS_Subset DEF Files

LEMMA FilesOne ==
  ASSUME NEW f \in File
  PROVE  {f} \in Files
BY FS_Singleton DEF Files

LEMMA EmptyVersionType == EmptyVersion \in Version /\ FilesOf(EmptyVersion) = {}
<1>1. {} \in Files
  BY FS_EmptySet DEF Files
<1> QED
  BY <1>1 DEF EmptyVersion, Version, FilesOf

LEMMA LevelsType ==
  /\ \A l \in 0 .. NumLevels - 2 : l \in Levels /\ l + 1 \in Levels
  /\ 0 \in Levels /\ 0 .. MaxMemCompactLevel \subseteq Levels
  /\ 0 \in 0 .. NumLevels - 2
BY LevelsAssumption DEF Levels

LEMMA NothingType ==
  /\ NoFlush.pc = "none" /\ NoFlush.files = {} /\ NoFlush.level = 0
  /\ NoFlush \in [pc : {"none", "build", "install", "open"}, files : Files,
                  level : Levels]
  /\ NoCompaction.pc = "none" /\ NoCompaction.todo = {}
  /\ NoCompaction.outs = {} /\ NoCompaction.move = FALSE
  /\ NoCompaction.level = 0 /\ NoCompaction.in = <<{}, {}>>
  /\ NoCompaction \in [pc : {"none", "merge", "install"},
                       level : 0 .. NumLevels - 2, in : Files \X Files,
                       todo : Slices, outs : Files, move : BOOLEAN]
<1>1. {} \in Files /\ {} \in Slices
  BY FS_EmptySet DEF Files, Slices
<1> QED
  BY <1>1, LevelsType DEF NoFlush, NoCompaction

\* Where a memtable may go (PickLevelForMemTableOutput).
LEMMA PickLevelType ==
  ASSUME NEW v, NEW lo, NEW hi, NEW l \in PickLevelForMemTableOutput(v, lo, hi)
  PROVE  /\ l \in Levels
         /\ l = 0 \/ \A j \in 0 .. l : ~OverlapInLevel(v, j, lo, hi)
<1>1. CASE OverlapInLevel(v, 0, lo, hi)
  <2>1. l = 0
    BY <1>1 DEF PickLevelForMemTableOutput
  <2> QED
    BY <2>1, LevelsType
<1>2. CASE ~OverlapInLevel(v, 0, lo, hi)
  <2>1. /\ l \in 0 .. MaxMemCompactLevel
        /\ \A j \in 1 .. l : ~OverlapInLevel(v, j, lo, hi)
    BY <1>2 DEF PickLevelForMemTableOutput
  <2>2. \A j \in 0 .. l : j = 0 \/ j \in 1 .. l
    BY <2>1, LevelsAssumption
  <2> QED
    BY <1>2, <2>1, <2>2, LevelsType
<1> QED
  BY <1>1, <1>2

\* What a compaction takes (SetupOtherInputs).
LEMMA CompactionInputsType ==
  ASSUME NEW v \in Version, NEW level \in 0 .. NumLevels - 2,
         NEW f \in v[level], NEW in \in CompactionInputs(v, level, f)
  PROVE  /\ in \in Files \X Files
         /\ in[1] \in SUBSET v[level] /\ in[2] \in SUBSET v[level + 1]
<1>1. level \in Levels /\ level + 1 \in Levels
  BY LevelsType
<1>2. \A l, lo, hi : GetOverlappingInputs(v, l, lo, hi) \in SUBSET v[l]
  BY DEF GetOverlappingInputs
<1>3. in[1] \in SUBSET v[level] /\ in[2] \in SUBSET v[level + 1]
      /\ in = <<in[1], in[2]>>
  <2> DEFINE over(l, files) ==
               GetOverlappingInputs(v, l, minKey(files), maxKey(files))
             in0 == IF level = 0 THEN over(0, {f}) ELSE {f}
             in1 == over(level + 1, in0)
             wider == over(level, in0 \cup in1)
  <2>1. in = <<in0, in1>> \/ in = <<wider, over(level + 1, wider)>>
    BY DEF CompactionInputs
  <2>2. in0 \in SUBSET v[level]
    BY <1>2
  <2>3. \A l, files : over(l, files) \in SUBSET v[l]
    BY <1>2
  <2> HIDE DEF over, in0
  <2> QED
    BY <2>1, <2>2, <2>3
<1>4. v[level] \in Files /\ v[level + 1] \in Files
  BY <1>1, VersionFiles
<1>5. in[1] \in Files /\ in[2] \in Files
  BY <1>3, <1>4, FilesSubset
<1> QED
  BY <1>3, <1>5

\* What DoCompactionWork drops and keeps.
LEMMA KeptType ==
  ASSUME NEW v, NEW level, NEW E \in EntrySets, NEW s
  PROVE  Kept(v, level, E, s) \in EntrySets /\ Kept(v, level, E, s) \subseteq E
<1>1. Kept(v, level, E, s) \subseteq E
  BY DEF Kept
<1> QED
  BY <1>1, FS_Subset DEF EntrySets

EntriesIn(files) == UNION {f.entries : f \in files}

\* The entries of some files.
LEMMA EntriesInType ==
  ASSUME NEW files \in Files
  PROVE  /\ EntriesIn(files) \in EntrySets
         /\ \A f \in files : f.entries \in Table /\ f.num \in Nat
                             /\ f.entries \subseteq EntriesIn(files)
<1> DEFINE content == [f \in files |-> f.entries]
<1>1. files \in SUBSET File /\ IsFiniteSet(files)
  BY DEF Files
<1>2. IsFiniteSet({content[f] : f \in files})
  BY <1>1, ImageFinite
<1>3. {content[f] : f \in files} = {f.entries : f \in files}
  OBVIOUS
<1>4. \A f \in files : f.entries \in Table /\ f.num \in Nat
  BY <1>1 DEF File
<1>5. \A E \in Table : E \in SUBSET Entry /\ IsFiniteSet(E)
  BY DEF Table, EntrySets
<1>6. IsFiniteSet(UNION {f.entries : f \in files})
  BY <1>2, <1>3, <1>4, <1>5, UnionFinite
<1>7. UNION {f.entries : f \in files} \in SUBSET Entry
  BY <1>4, <1>5
<1> QED
  BY <1>4, <1>6, <1>7 DEF EntriesIn, EntrySets

\* The order of a table is that of a comparator.
LEMMA BeforeOrder ==
  /\ \A a, b, c \in Entry : Before(a, b) /\ Before(b, c) => Before(a, c)
  /\ \A a, b \in Entry : ~(Before(a, b) /\ Before(b, a))
  /\ \A a, b \in Entry : (a.key = b.key /\ a.seq = b.seq) \/ Before(a, b) \/ Before(b, a)
  /\ \A a, b, c \in Entry : Before(c, a) /\ ~Before(c, b) => Before(b, a)
BY DEF Before, Entry

\* The output files of a compaction: slices of what is kept.
LEMMA OutputsType ==
  ASSUME NEW E \in EntrySets, NEW outs \in Outputs(E)
  PROVE  /\ outs \in Slices /\ UNION outs = E
         /\ \A s, t \in outs : s # t => Apart(s, t)
<1> DEFINE last == {e \in E : \A x \in E \ {e} : Before(x, e)}
           cb(C, e) == {c \in C : Before(c, e)}
           slice(C, e) == {x \in E : cb(C, x) = cb(C, e)}
<1>1. PICK C \in SUBSET (E \ last) : outs = {slice(C, e) : e \in E}
  BY DEF Outputs
<1>2. E \in SUBSET Entry /\ IsFiniteSet(E) /\ C \in SUBSET E
  BY DEF EntrySets
<1>3. \A e \in E : e \in slice(C, e) /\ slice(C, e) \in SUBSET E
  OBVIOUS
<1>4. \A e, x \in E : x \in slice(C, e) <=> cb(C, x) = cb(C, e)
  OBVIOUS
<1>5. \A c, e : c \in cb(C, e) <=> c \in C /\ Before(c, e)
  OBVIOUS
<1> DEFINE part == [e \in E |-> slice(C, e)]
<1>6. \A e \in E : part[e] = slice(C, e)
  OBVIOUS
<1> HIDE DEF cb, slice, last
<1>7. outs = {part[e] : e \in E}
  BY <1>1, <1>6
<1> HIDE DEF part
<1>8. IsFiniteSet(outs)
  BY <1>2, <1>7, ImageFinite
<1>9. \A s \in outs : s \in Table
  <2> SUFFICES ASSUME NEW e \in E
               PROVE  slice(C, e) \in Table
    BY <1>1
  <2>1. IsFiniteSet(slice(C, e))
    BY <1>2, <1>3, FS_Subset
  <2> QED
    BY <1>2, <1>3, <2>1 DEF Table, EntrySets
<1>10. UNION outs = E
  BY <1>1, <1>3
<1>11. ASSUME NEW s \in outs, NEW t \in outs, s # t
       PROVE  Apart(s, t)
  <2>1. PICK d \in E, e \in E : s = slice(C, d) /\ t = slice(C, e)
    BY <1>1
  <2>2. cb(C, d) # cb(C, e)
    <3>1. ASSUME cb(C, d) = cb(C, e)
          PROVE  slice(C, d) = slice(C, e)
      BY <1>3, <1>4, <3>1
    <3> QED
      BY <1>11, <2>1, <3>1
  <2>3. \A x \in s, y \in t : /\ x \in Entry /\ y \in Entry
                              /\ cb(C, x) = cb(C, d) /\ cb(C, y) = cb(C, e)
    BY <1>2, <1>3, <1>4, <2>1
  <2>4. PICK c : ~(c \in cb(C, d) <=> c \in cb(C, e))
    BY <2>2
  <2>5. c \in C /\ c \in Entry
    BY <1>2, <1>5, <2>4
  <2>6. CASE c \in cb(C, d)
    <3>1. \A x \in s, y \in t : Before(c, x) /\ ~Before(c, y)
      BY <1>5, <2>3, <2>4, <2>5, <2>6
    <3>2. InOrder(t, s)
      BY <2>3, <2>5, <3>1, BeforeOrder DEF InOrder
    <3> QED
      BY <3>2 DEF Apart
  <2>7. CASE c \notin cb(C, d)
    <3>1. \A x \in s, y \in t : Before(c, y) /\ ~Before(c, x)
      BY <1>5, <2>3, <2>4, <2>5, <2>7
    <3>2. InOrder(s, t)
      BY <2>3, <2>5, <3>1, BeforeOrder DEF InOrder
    <3> QED
      BY <3>2 DEF Apart
  <2> QED
    BY <2>6, <2>7
<1> QED
  BY <1>8, <1>9, <1>10, <1>11 DEF Slices

\* The output that is written next: there is a first one.
LEMMA FirstSlice ==
  ASSUME NEW todo \in Slices, todo # {},
         \A s, t \in todo : s # t => Apart(s, t)
  PROVE  (CHOOSE o \in todo : \A p \in todo \ {o} :
            \A a \in o, b \in p : Before(a, b)) \in todo
<1> DEFINE R == [a \in todo |-> {b \in todo : InOrder(a, b)}]
<1>1. \A a, b \in todo : b \in R[a] <=> InOrder(a, b)
  OBVIOUS
<1>2. \A a, b \in todo : a # b => b \in R[a] \/ a \in R[b]
  BY <1>1 DEF Apart
<1>3. \A a \in todo : a # {} /\ a \in SUBSET Entry
  BY DEF Slices, Table, EntrySets
<1>4. \A a, b, c \in todo :
        InOrder(a, b) /\ InOrder(b, c) => InOrder(a, c)
  BY <1>3, BeforeOrder DEF InOrder
<1>5. \A a, b, c \in todo : b \in R[a] /\ c \in R[b] => c \in R[a]
  BY <1>1, <1>4
<1>6. IsFiniteSet(todo)
  BY DEF Slices
<1>7. \E o \in todo : \A p \in todo \ {o} : p \in R[o]
  <2> HIDE DEF R
  <2> QED
    BY <1>2, <1>5, <1>6, FirstOf
<1>8. \E o \in todo : \A p \in todo \ {o} : \A a \in o, b \in p : Before(a, b)
  BY <1>1, <1>7 DEF InOrder
<1> QED
  BY <1>8

-----------------------------------------------------------------------------
(* Who may be at work, and which numbers are in use *)

\* What there is before the database is opened, and while it is.
Phases ==
  /\ up = "down" => flush = NoFlush /\ current = EmptyVersion
  /\ up # "up" => /\ compaction = NoCompaction
                  /\ mem = {} /\ imm = {} /\ logged = 0 /\ writers = <<>>
                  /\ pendingOutputs = {} /\ snapshots = {} /\ pinned = {}
  /\ up = "opening" <=> flush.pc = "open"

\* A flush under way is that of imm.  It may be in the middle of a
\* compaction that writes tables, never of one that moves a file.
Working ==
  /\ flush.pc = "none" => flush = NoFlush
  /\ flush.pc \in {"build", "install"} =>
       /\ compaction.pc # "install" /\ ~compaction.move
       /\ imm # {} /\ \E n \in Nat : flush.files = {[num |-> n, entries |-> imm]}
  /\ compaction.pc = "none" => compaction = NoCompaction
  /\ compaction.pc = "install" => compaction.todo = {} /\ flush.pc = "none"
  /\ compaction.move => /\ compaction.todo = {} /\ compaction.outs # {}
                        /\ compaction.outs = compaction.in[1]
                        /\ compaction.in[2] = {}
  /\ \A s, t \in compaction.todo : s # t => Apart(s, t)

\* The log in use is the last one, and the MANIFEST counts on it.
Numbers ==
  /\ needed # {} /\ manifest.log < manifest.next
  /\ up # "down" => /\ logfile \in DOMAIN logs
                    /\ \A n \in DOMAIN logs : n <= logfile
                    /\ manifest.log <= logfile /\ logfile < nextFile
                    /\ manifest.next <= nextFile /\ logNumber < nextFile
                    /\ flush.pc # "install" => logNumber = manifest.log

\* What the MANIFEST says of the files is the current version, or the one
\* about to be installed.
Installing ==
  /\ flush.pc = "install" =>
       manifest.files = [current EXCEPT ![flush.level] = @ \cup flush.files]
  /\ compaction.pc = "install" => manifest.files = compacted
  /\ up # "down" /\ flush.pc # "install" /\ compaction.pc # "install" =>
       manifest.files = current
  /\ compaction.in[1] \subseteq current[compaction.level]
  /\ compaction.in[2] \subseteq current[compaction.level + 1]

Base == TypeOK /\ Phases /\ Working /\ Numbers /\ Installing

LEMMA InitBase == Init => Base
<1> SUFFICES ASSUME Init
             PROVE  Base
  OBVIOUS
<1> USE NothingType, EmptyVersionType
<1>1. logs = [n \in {3} |-> EmptyLog] /\ EmptyLog = [recs |-> <<>>, synced |-> 0]
  BY DEF Init, EmptyLog
<1>2. TypeOK
  <2>1. LogsOK
    <3>1. DOMAIN logs = {3}
      BY <1>1
    <3>2. <<>> \in Seq(Table) /\ Len(<<>>) = 0
      OBVIOUS
    <3>3. EmptyLog \in Log
      BY <1>1, <3>2 DEF Log
    <3>4. logs \in [{3} -> Log]
      BY <1>1, <3>3
    <3>5. IsFiniteSet(DOMAIN logs)
      <4>1. IsFiniteSet({3})
        BY FS_Singleton, Zenon
      <4> QED
        BY <3>1, <4>1
    <3> QED
      BY <3>1, <3>4, <3>5 DEF LogsOK
  <2>2. ManifestOK /\ FlushOK /\ CompactionOK
    BY DEF Init, ManifestOK, FlushOK, CompactionOK
  <2>3. {} \in EntrySets
    BY FS_EmptySet DEF EntrySets
  <2>4. writers \in Seq(Calls) /\ logged \in 0 .. Len(writers)
    BY DEF Init
  <2>5. current \in Version
    BY DEF Init
  <2> QED
    BY ONLY Init, <2>1, <2>2, <2>3, <2>4, <2>5 DEF Init, TypeOK
<1>3. Phases /\ Working
  BY DEF Init, Phases, Working, NoFlush
<1>4. Numbers
  BY <1>1 DEF Init, Numbers, needed
<1>5. Installing
  BY DEF Init, Installing, NoFlush
<1> QED
  BY <1>2, <1>3, <1>4, <1>5 DEF Base

LEMMA WriteBase == Base /\ Write => Base'
<1> SUFFICES ASSUME Base, Write
             PROVE  Base'
  OBVIOUS
<1> USE DEF Write, diskVars, fileVars, readVars, threadVars, historyVars
<1>1. TypeOK'
  <2>1. PICK c \in Calls : writers' = Append(writers, c)
    OBVIOUS
  <2>2. writers' \in Seq(Calls) /\ logged' \in 0 .. Len(writers')
    BY <2>1 DEF Base, TypeOK
  <2>3. writes' \in Nat
    BY DEF Base, TypeOK
  <2> QED
    BY <2>2, <2>3 DEF Base, TypeOK, LogsOK, ManifestOK, FlushOK, CompactionOK
<1>2. Phases' /\ Working'
  BY DEF Base, Phases, Working
<1>3. Numbers'
  BY DEF Base, Numbers, needed
<1>4. Installing'
  BY DEF Base, Installing, compacted
<1> QED
  BY <1>1, <1>2, <1>3, <1>4 DEF Base

LEMMA RefuseWriteBase == Base /\ RefuseWrite => Base'
<1> SUFFICES ASSUME Base, RefuseWrite
             PROVE  Base'
  OBVIOUS
<1> USE DEF RefuseWrite, Leading, diskVars, fileVars, readVars, threadVars,
            historyVars
<1>1. TypeOK'
  <2>1. writers' \in Seq(Calls) /\ logged' \in 0 .. Len(writers')
    BY DEF Base, TypeOK
  <2> QED
    BY <2>1 DEF Base, TypeOK, LogsOK, ManifestOK, FlushOK, CompactionOK
<1>2. Phases' /\ Working'
  BY DEF Base, Phases, Working
<1>3. Numbers'
  BY DEF Base, Numbers, needed
<1>4. Installing'
  BY DEF Base, Installing, compacted
<1> QED
  BY <1>1, <1>2, <1>3, <1>4 DEF Base

LEMMA WithLogType ==
  ASSUME LogsOK, NEW n \in Nat \ {0}
  PROVE  /\ DOMAIN withLog(n) = DOMAIN logs \cup {n}
         /\ IsFiniteSet(DOMAIN withLog(n))
         /\ DOMAIN withLog(n) \subseteq Nat \ {0}
         /\ withLog(n) \in [DOMAIN withLog(n) -> Log]
         /\ withLog(n)[n] = EmptyLog /\ EmptyLog.recs = <<>>
         /\ EmptyLog.synced = 0
         /\ \A m \in DOMAIN logs \ {n} : withLog(n)[m] = logs[m]
<1>1. EmptyLog \in Log /\ EmptyLog.recs = <<>> /\ EmptyLog.synced = 0
  <2>1. <<>> \in Seq(Table) /\ Len(<<>>) = 0
    OBVIOUS
  <2> QED
    BY <2>1 DEF Log, EmptyLog
<1>2. IsFiniteSet(DOMAIN logs \cup {n})
  BY FS_AddElement DEF LogsOK
<1>3. DOMAIN withLog(n) = DOMAIN logs \cup {n}
  BY DEF withLog
<1>4. \A m \in DOMAIN logs : logs[m] \in Log
  BY DEF LogsOK
<1>5. withLog(n) \in [DOMAIN logs \cup {n} -> Log]
  BY <1>1, <1>4 DEF withLog
<1> QED
  BY <1>1, <1>2, <1>3, <1>5 DEF LogsOK, withLog

LEMMA SwitchMemTableBase == Base /\ SwitchMemTable => Base'
<1> SUFFICES ASSUME Base, SwitchMemTable
             PROVE  Base'
  OBVIOUS
<1> USE DEF SwitchMemTable, Leading, readVars, historyVars
<1>1. nextFile \in Nat \ {0} /\ LogsOK /\ logs' = withLog(nextFile)
      /\ up = "up" /\ flush.pc # "open"
  BY DEF Base, TypeOK, Numbers, Phases
<1>2. /\ DOMAIN logs' = DOMAIN logs \cup {nextFile}
      /\ LogsOK'
  <2>1. /\ DOMAIN logs' = DOMAIN logs \cup {nextFile}
        /\ IsFiniteSet(DOMAIN logs') /\ DOMAIN logs' \subseteq Nat \ {0}
        /\ logs' \in [DOMAIN logs' -> Log]
    BY ONLY <1>1, WithLogType
  <2> QED
    BY <2>1 DEF LogsOK
<1>3. TypeOK'
  <2>1. {} \in EntrySets
    BY FS_EmptySet DEF EntrySets
  <2>2. nextFile' \in Nat /\ logfile' \in Nat
    BY <1>1
  <2> QED
    BY <1>2, <2>1, <2>2 DEF Base, TypeOK, ManifestOK, FlushOK, CompactionOK
<1>4. Phases'
  BY <1>1 DEF Base, Phases
<1>5. Working'
  BY <1>1 DEF Base, Working, FlushOK, TypeOK
<1>6. Numbers'
  BY <1>1, <1>2 DEF Base, TypeOK, ManifestOK, LogsOK, Numbers, needed
<1>7. Installing'
  BY DEF Base, Installing, compacted
<1> QED
  BY <1>3, <1>4, <1>5, <1>6, <1>7 DEF Base

\* The two fields of a log.
LEMMA LogFields ==
  \A l \in Log : /\ l = [recs |-> l.recs, synced |-> l.synced]
                 /\ \A r : [l EXCEPT !.recs = Append(@, r)]
                             = [recs |-> Append(l.recs, r), synced |-> l.synced]
                 /\ \A s : [l EXCEPT !.synced = s] = [recs |-> l.recs, synced |-> s]
BY SMTT(30) DEF Log

\* A log of which one record is added, or the records are synced.
LEMMA LogsExcept ==
  ASSUME LogsOK, NEW n \in DOMAIN logs, NEW log \in Log
  PROVE  LET changed == [logs EXCEPT ![n] = log]
         IN  /\ DOMAIN changed = DOMAIN logs
             /\ changed \in [DOMAIN logs -> Log]
BY DEF LogsOK

LEMMA LogGroupBase == Base /\ LogGroup => Base'
<1> SUFFICES ASSUME Base, LogGroup
             PROVE  Base'
  OBVIOUS
<1> USE DEF LogGroup, Leading, fileVars, readVars, threadVars, historyVars
<1>1. PICK n \in groupSizes :
        /\ logged' = n
        /\ logs' = [logs EXCEPT ![logfile].recs = Append(@, entriesOf(n))]
  OBVIOUS
<1>2. up = "up" /\ LogsOK /\ logfile \in DOMAIN logs
  BY DEF Base, TypeOK, Numbers
<1>3. n \in 1 .. Len(writers) /\ entriesOf(n) \in Table
  BY EntriesOfType DEF groupSizes, Base, TypeOK
<1> DEFINE l == logs[logfile]
           log == [l EXCEPT !.recs = Append(@, entriesOf(n))]
<1>4. l \in Log /\ logs' = [logs EXCEPT ![logfile] = log]
  BY <1>1, <1>2 DEF LogsOK
<1>5. log \in Log
  <2>1. l.recs \in Seq(Table) /\ l.synced \in Nat /\ l.synced <= Len(l.recs)
        /\ l = [recs |-> l.recs, synced |-> l.synced]
    BY <1>4 DEF Log
  <2>2. Append(l.recs, entriesOf(n)) \in Seq(Table)
        /\ Len(Append(l.recs, entriesOf(n))) = Len(l.recs) + 1
    BY <1>3, <2>1, AppendProperties
  <2>3. log = [recs |-> Append(l.recs, entriesOf(n)), synced |-> l.synced]
    BY <1>4, LogFields
  <2>4. l.synced <= Len(l.recs) + 1
    <3>1. Len(l.recs) \in Nat
      BY <2>1
    <3> QED
      BY <2>1, <3>1
  <2> HIDE DEF l, log
  <2> QED
    BY <2>1, <2>2, <2>3, <2>4 DEF Log
<1>6. DOMAIN logs' = DOMAIN logs /\ logs' \in [DOMAIN logs -> Log]
  <2> HIDE DEF log
  <2> QED
    BY <1>2, <1>4, <1>5, LogsExcept
<1>7. LogsOK'
  BY <1>2, <1>6 DEF LogsOK
<1>8. TypeOK'
  BY <1>1, <1>3, <1>7, SMTT(30)
  DEF Base, TypeOK, ManifestOK, FlushOK, CompactionOK
<1>9. Phases' /\ Working'
  BY <1>2 DEF Base, Phases, Working
<1>10. Numbers'
  BY <1>6 DEF Base, Numbers, needed
<1>11. Installing'
  BY DEF Base, Installing, compacted
<1> QED
  BY <1>8, <1>9, <1>10, <1>11 DEF Base

LEMMA SyncLogBase == Base /\ SyncLog => Base'
<1> SUFFICES ASSUME Base, SyncLog
             PROVE  Base'
  OBVIOUS
<1> USE DEF SyncLog, writeVars, fileVars, readVars, threadVars, historyVars
<1>1. up = "up" /\ LogsOK /\ logfile \in DOMAIN logs
  BY DEF Base, TypeOK, Numbers, Phases
<1> DEFINE l == logs[logfile]
           log == [l EXCEPT !.synced = Len(l.recs)]
<1>2. l \in Log /\ logs' = [logs EXCEPT ![logfile] = log]
  BY <1>1 DEF LogsOK
<1>3. log \in Log
  <2>1. l.recs \in Seq(Table) /\ l = [recs |-> l.recs, synced |-> l.synced]
    BY <1>2 DEF Log
  <2>2. log = [recs |-> l.recs, synced |-> Len(l.recs)]
    BY <1>2, LogFields
  <2>3. Len(l.recs) \in Nat /\ Len(l.recs) <= Len(l.recs)
    BY <2>1
  <2> HIDE DEF l, log
  <2> QED
    BY <2>1, <2>2, <2>3 DEF Log
<1>4. DOMAIN logs' = DOMAIN logs /\ logs' \in [DOMAIN logs -> Log]
  <2> HIDE DEF log
  <2> QED
    BY <1>1, <1>2, <1>3, LogsExcept
<1>5. LogsOK'
  BY <1>1, <1>4 DEF LogsOK
<1>6. TypeOK'
  BY <1>5 DEF Base, TypeOK, ManifestOK, FlushOK, CompactionOK
<1>7. Phases' /\ Working'
  BY <1>1 DEF Base, Phases, Working
<1>8. Numbers'
  BY <1>4 DEF Base, Numbers, needed
<1>9. Installing'
  BY DEF Base, Installing, compacted
<1> QED
  BY <1>6, <1>7, <1>8, <1>9 DEF Base

\* What is left of the queue once the group is answered.
LEMMA AnswerType ==
  ASSUME writers \in Seq(Calls), logged \in 0 .. Len(writers),
         lastSequence \in Nat, answerGroup
  PROVE  /\ writers' \in Seq(Calls) /\ logged' \in 0 .. Len(writers')
         /\ lastSequence' \in Nat /\ lastSequence' = lastSequence + logged
<1>1. \A i \in logged + 1 .. Len(writers) : writers[i] \in Calls
  OBVIOUS
<1>2. SubSeq(writers, logged + 1, Len(writers)) \in Seq(Calls)
  BY <1>1, SubSeqProperties
<1> QED
  BY <1>2 DEF answerGroup

LEMMA FailSyncBase == Base /\ FailSync => Base'
<1> SUFFICES ASSUME Base, FailSync
             PROVE  Base'
  OBVIOUS
<1> USE DEF FailSync, diskVars, fileVars, readVars, threadVars, historyVars
<1>1. up = "up"
  BY DEF Base, TypeOK, Phases
<1>2. TypeOK'
  <2>1. /\ writers' \in Seq(Calls) /\ logged' \in 0 .. Len(writers')
        /\ lastSequence' \in Nat
    BY AnswerType DEF Base, TypeOK
  <2> QED
    BY <2>1 DEF Base, TypeOK, LogsOK, ManifestOK, FlushOK, CompactionOK
<1>3. Phases' /\ Working'
  BY <1>1 DEF Base, Phases, Working
<1>4. Numbers'
  BY DEF Base, Numbers, needed
<1>5. Installing'
  BY DEF Base, Installing, compacted
<1> QED
  BY <1>2, <1>3, <1>4, <1>5 DEF Base

LEMMA FinishGroupBase == Base /\ FinishGroup => Base'
<1> SUFFICES ASSUME Base, FinishGroup
             PROVE  Base'
  OBVIOUS
<1> USE DEF FinishGroup, diskVars, fileVars, readVars, threadVars
<1>1. up = "up"
  BY DEF Base, TypeOK, Phases
<1>2. TypeOK'
  <2>1. /\ writers' \in Seq(Calls) /\ logged' \in 0 .. Len(writers')
        /\ lastSequence' \in Nat
    BY AnswerType DEF Base, TypeOK
  <2>2. entriesOf(logged) \in SUBSET Entry /\ IsFiniteSet(entriesOf(logged))
    <3>1. logged \in 1 .. Len(writers)
      BY DEF Base, TypeOK
    <3>2. entriesOf(logged) \in Table
      BY <3>1, EntriesOfType DEF Base, TypeOK
    <3> QED
      BY <3>2 DEF Table, EntrySets
  <2>3. mem' \in EntrySets
    <3>1. mem \in SUBSET Entry /\ IsFiniteSet(mem)
      BY DEF Base, TypeOK, EntrySets
    <3>2. IsFiniteSet(mem \cup entriesOf(logged))
      BY <2>2, <3>1, FS_Union
    <3> QED
      BY <2>2, <3>1, <3>2 DEF EntrySets
  <2>4. committed' \in SUBSET Entry /\ synced' \in SUBSET Entry
    <3>1. committed \in SUBSET Entry /\ synced \in SUBSET Entry
      BY DEF Base, TypeOK
    <3> QED
      BY <2>2, <3>1
  <2> QED
    BY <2>1, <2>3, <2>4 DEF Base, TypeOK, LogsOK, ManifestOK, FlushOK, CompactionOK
<1>3. Phases' /\ Working'
  BY <1>1 DEF Base, Phases, Working
<1>4. Numbers'
  BY DEF Base, Numbers, needed
<1>5. Installing'
  BY DEF Base, Installing, compacted
<1> QED
  BY <1>2, <1>3, <1>4, <1>5 DEF Base

\* Tables with their numbers.
LEMMA WrittenType ==
  ASSUME tables \in SUBSET File, NEW files \in SUBSET File
  PROVE  /\ written(files) \in SUBSET File /\ files \subseteq written(files)
         /\ \A t \in tables : t.num \notin nums(files) => t \in written(files)
BY DEF written

LEMMA StartFlushBase == Base /\ StartFlush => Base'
<1> SUFFICES ASSUME Base, StartFlush
             PROVE  Base'
  OBVIOUS
<1> USE DEF StartFlush, writeVars, readVars, historyVars
<1> DEFINE f == [num |-> nextFile, entries |-> imm]
<1>1. /\ up = "up" /\ flush.pc = "none" /\ imm # {} /\ nextFile \in Nat
      /\ imm \in EntrySets /\ compaction.pc # "install" /\ ~compaction.move
      /\ compaction.move \in BOOLEAN
  BY NothingType DEF CanStartFlush, Base, TypeOK, Working, CompactionOK
<1>2. f \in File /\ {f} \in Files /\ {f} \in SUBSET File
  <2>1. f \in File
    BY <1>1 DEF File, Table
  <2> QED
    BY <2>1, FilesOne
<1>3. flush' = [pc |-> "build", files |-> {f}, level |-> 0] /\ tables' = written({f})
      /\ pendingOutputs' = pendingOutputs \cup {nextFile}
  OBVIOUS
<1> HIDE DEF f
<1>4. FlushOK'
  BY <1>2, <1>3, LevelsType DEF FlushOK
<1>5. TypeOK'
  <2>1. tables' \in SUBSET File
    BY <1>2, <1>3, WrittenType DEF Base, TypeOK
  <2>2. nextFile' \in Nat /\ pendingOutputs' \in SUBSET Nat
    BY <1>1, <1>3 DEF Base, TypeOK
  <2> QED
    BY <1>4, <2>1, <2>2 DEF Base, TypeOK, LogsOK, ManifestOK, CompactionOK
<1>6. Phases'
  BY <1>1, <1>3 DEF Base, Phases
<1>7. Working'
  BY <1>1, <1>3 DEF Base, Working, f
<1>8. Numbers'
  BY <1>1, <1>3 DEF Base, TypeOK, ManifestOK, LogsOK, Numbers, needed
<1>9. Installing'
  BY <1>1, <1>3 DEF Base, Installing, compacted
<1> QED
  BY <1>5, <1>6, <1>7, <1>8, <1>9 DEF Base

LEMMA LogFlushBase == Base /\ LogFlush => Base'
<1> SUFFICES ASSUME Base, LogFlush
             PROVE  Base'
  OBVIOUS
<1> USE DEF LogFlush, writeVars, readVars, historyVars
<1>1. PICK l \in PickLevelForMemTableOutput(current, minKey(flush.files),
                                            maxKey(flush.files)) :
        /\ flush' = [flush EXCEPT !.pc = "install", !.level = l]
        /\ LogEdit([current EXCEPT ![l] = @ \cup flush.files], logfile)
  OBVIOUS
<1>2. l \in Levels
  BY PickLevelType
<1>3. up = "up" /\ compaction.pc # "install"
  BY DEF Base, TypeOK, Phases, Working, NoFlush
<1>4. FlushOK' /\ flush'.pc = "install" /\ flush'.level = l
      /\ flush'.files = flush.files
  BY <1>1, <1>2 DEF Base, TypeOK, FlushOK
<1>5. [current EXCEPT ![l] = @ \cup flush.files] \in Version
  <2>1. current[l] \in Files /\ flush.files \in Files
    BY <1>2, VersionFiles DEF Base, TypeOK, FlushOK
  <2>2. current[l] \cup flush.files \in Files
    BY <2>1, FilesUnion
  <2> QED
    BY <1>2, <2>2, VersionExcept DEF Base, TypeOK
<1>6. /\ manifest'.files = [current EXCEPT ![l] = @ \cup flush.files]
      /\ manifest'.log = logfile /\ manifest'.next = nextFile
      /\ manifest'.last = lastSequence
  BY <1>1 DEF LogEdit
<1>7. ManifestOK'
  BY <1>1, <1>5 DEF LogEdit, ManifestOK, Base, TypeOK
<1>8. TypeOK'
  BY <1>4, <1>7 DEF Base, TypeOK, LogsOK, CompactionOK
<1>9. Phases'
  BY <1>3, <1>4 DEF Base, Phases
<1>10. Working'
  BY <1>3, <1>4 DEF Base, Working
<1>11. Numbers'
  BY <1>3, <1>4, <1>6 DEF Base, TypeOK, LogsOK, Numbers, needed
<1>12. Installing'
  BY <1>3, <1>4, <1>6 DEF Base, Installing
<1> QED
  BY <1>8, <1>9, <1>10, <1>11, <1>12 DEF Base

\* What DeleteObsoleteFiles leaves: the logs from log on, as they are, and
\* the tables in use.
LEMMA DeleteType ==
  ASSUME LogsOK, tables \in SUBSET File, NEW v, NEW log \in Nat, NEW pending,
         DeleteObsoleteFiles(v, log, pending)
  PROVE  /\ LogsOK' /\ tables' \in SUBSET tables
         /\ DOMAIN logs' \subseteq DOMAIN logs
         /\ \A n \in DOMAIN logs : n >= log => n \in DOMAIN logs'
         /\ \A n \in DOMAIN logs' : logs'[n] = logs[n]
         /\ \A t \in tables :
              t \in FilesOf(v) \/ t.num \in pending \/ (\E p \in pinned : t \in FilesOf(p))
                => t \in tables'
<1> DEFINE live == FilesOf(v) \cup UNION {FilesOf(p) : p \in pinned}
           kept == {m \in DOMAIN logs : m >= log}
<1>1. CASE bgError
  <2>1. tables' = tables /\ logs' = logs
    BY <1>1 DEF DeleteObsoleteFiles
  <2> QED
    BY <2>1 DEF LogsOK
<1>2. CASE ~bgError
  <2>1. /\ tables' = {t \in tables : t.num \in pending \cup nums(live)}
        /\ logs' = [n \in kept |-> logs[n]]
    BY <1>2 DEF DeleteObsoleteFiles
  <2>2. kept \subseteq DOMAIN logs /\ IsFiniteSet(kept)
    BY FS_Subset DEF LogsOK
  <2>3. \A n \in DOMAIN logs : logs[n] \in Log
    BY DEF LogsOK
  <2>4. DOMAIN logs' = kept /\ \A n \in kept : logs'[n] = logs[n]
    BY <2>1
  <2>5. logs' \in [kept -> Log]
    BY <2>1, <2>2, <2>3
  <2>6. LogsOK'
    BY <2>2, <2>4, <2>5 DEF LogsOK
  <2>7. \A n \in DOMAIN logs : n >= log => n \in kept
    OBVIOUS
  <2>8. \A t \in live : t.num \in nums(live)
    BY DEF nums
  <2>9. \A t : t \in FilesOf(v) \/ (\E p \in pinned : t \in FilesOf(p)) => t \in live
    OBVIOUS
  <2> HIDE DEF live, kept
  <2> QED
    BY <2>1, <2>2, <2>4, <2>6, <2>7, <2>8, <2>9
<1> QED
  BY <1>1, <1>2

LEMMA MoreWorkType == ASSUME NEW v PROVE moreWork(v) \in BOOLEAN
BY DEF moreWork

LEMMA InstallFlushBase == Base /\ InstallFlush => Base'
<1> SUFFICES ASSUME Base, InstallFlush
             PROVE  Base'
  OBVIOUS
<1> USE DEF InstallFlush, readVars, historyVars
<1>1. /\ up = "up" /\ compaction.pc # "install" /\ flush.level \in Levels
      /\ current \in Version /\ compaction.level \in 0 .. NumLevels - 2
      /\ flush.files \in Files /\ scheduled \in BOOLEAN
  BY NothingType DEF Base, TypeOK, Phases, Working, FlushOK, CompactionOK
<1>2. /\ manifest \in [files : Version, log : Nat, next : Nat, last : Nat]
      /\ manifest' = manifest /\ flush' = NoFlush /\ imm' = {}
      /\ manifest.files = [current EXCEPT ![flush.level] = @ \cup flush.files]
      /\ current' = manifest.files /\ logNumber' = manifest.log
  BY DEF Base, TypeOK, ManifestOK, Installing
<1>3. /\ LogsOK' /\ tables' \in SUBSET tables
      /\ DOMAIN logs' \subseteq DOMAIN logs
      /\ \A n \in DOMAIN logs : n >= manifest.log => n \in DOMAIN logs'
  <2>1. DeleteObsoleteFiles(current', manifest.log, pendingOutputs)
    BY <1>2
  <2>2. LogsOK /\ tables \in SUBSET File /\ manifest.log \in Nat
    BY <1>2 DEF Base, TypeOK
  <2> QED
    BY ONLY <2>1, <2>2, DeleteType
<1>4. TypeOK'
  <2>1. scheduled' \in BOOLEAN
    BY <1>1, MoreWorkType
  <2>2. imm' \in EntrySets
    BY <1>2, FS_EmptySet DEF EntrySets
  <2>3. FlushOK' /\ ManifestOK'
    BY <1>2, NothingType DEF FlushOK, ManifestOK
  <2>4. tables' \in SUBSET File
    BY <1>3 DEF Base, TypeOK
  <2>5. current' \in Version /\ logNumber' \in Nat
    BY <1>2
  <2> QED
    BY <1>3, <2>1, <2>2, <2>3, <2>4, <2>5 DEF Base, TypeOK, CompactionOK
<1>5. Phases'
  BY <1>1, <1>2, NothingType DEF Base, Phases
<1>6. Working'
  BY <1>1, <1>2, NothingType DEF Base, Working
<1>7. Numbers'
  <2>1. needed' = needed
    BY <1>2, <1>3 DEF needed
  <2>2. logfile \in DOMAIN logs'
    BY <1>1, <1>3 DEF Base, Numbers
  <2>3. manifest.log < nextFile
    BY <1>1, <1>2 DEF Base, TypeOK, Numbers
  <2> QED
    BY <1>1, <1>2, <1>3, <2>1, <2>2, <2>3 DEF Base, Numbers
<1>8. Installing'
  <2>1. \A l \in Levels : current[l] \subseteq current'[l]
    BY <1>1, <1>2 DEF Version
  <2>2. compaction.level \in Levels /\ compaction.level + 1 \in Levels
    BY <1>1, LevelsType
  <2>3. /\ compaction.in[1] \subseteq current'[compaction.level]
        /\ compaction.in[2] \subseteq current'[compaction.level + 1]
    BY <2>1, <2>2 DEF Base, Installing
  <2> QED
    BY <1>1, <1>2, <2>3, NothingType DEF Base, Installing
<1> QED
  BY <1>4, <1>5, <1>6, <1>7, <1>8 DEF Base

\* A set with one member is not empty.
LEMMA OneIsNotEmpty == \A S : Cardinality(S) = 1 => S # {}
<1>1. Cardinality({}) = 0
  BY FS_EmptySet
<1>2. 0 # 1
  OBVIOUS
<1> QED
  BY <1>1, <1>2, Zenon

LEMMA StartCompactionBase ==
  ASSUME Base, NEW level \in CompactableLevels, NEW f \in current[level],
         StartCompaction(level, f)
  PROVE  Base'
<1> USE DEF StartCompaction, diskVars, writeVars, fileVars, readVars
<1>1. /\ up = "up" /\ flush.pc = "none" /\ compaction.pc = "none"
      /\ current \in Version /\ level \in 0 .. NumLevels - 2
  BY DEF CanCompact, Base, TypeOK, CompactableLevels
<1>2. PICK in \in CompactionInputs(current, level, f) :
        LET kept == Kept(current, level,
                         UNION {g.entries : g \in in[1] \cup in[2]},
                         smallestSnapshot)
        IN  \/ /\ Cardinality(in[1]) = 1 /\ in[2] = {}
               /\ compaction' = [NoCompaction EXCEPT
                    !.pc = "merge", !.level = level, !.in = in,
                    !.outs = in[1], !.move = TRUE]
               /\ split' = split
            \/ \E outs \in Outputs(kept) :
                 /\ compaction' = [NoCompaction EXCEPT
                      !.pc = "merge", !.level = level, !.in = in, !.todo = outs]
                 /\ split' = split \cup
                      {k \in {e.key : e \in kept} :
                         Cardinality({o \in outs : \E e \in o : e.key = k}) > 1}
  BY Zenon
<1> DEFINE all == UNION {g.entries : g \in in[1] \cup in[2]}
           kept == Kept(current, level, all, smallestSnapshot)
           cut(outs) == {k \in {e.key : e \in kept} :
                           Cardinality({o \in outs : \E e \in o : e.key = k}) > 1}
<1>3. /\ in \in Files \X Files /\ in[1] \in Files /\ in[2] \in Files
      /\ in[1] \in SUBSET current[level] /\ in[2] \in SUBSET current[level + 1]
  BY ONLY <1>1, f \in current[level], CompactionInputsType,
          in \in CompactionInputs(current, level, f)
<1>4. kept \in EntrySets
  <2>1. in[1] \cup in[2] \in Files
    BY <1>3, FilesUnion
  <2>2. all \in EntrySets
    BY <2>1, EntriesInType DEF EntriesIn
  <2> QED
    BY <2>2, KeptType
<1>5. \A outs : cut(outs) \in SUBSET Nat
  <2>1. \A e \in kept : e.key \in Nat
    BY <1>4 DEF EntrySets, Entry
  <2> HIDE DEF kept
  <2> QED
    BY <2>1
<1>6. \E todo \in Slices, outs \in Files, move \in BOOLEAN :
        /\ compaction' = [pc |-> "merge", level |-> level, in |-> in,
                          todo |-> todo, outs |-> outs, move |-> move]
        /\ move => todo = {} /\ outs = in[1] /\ in[2] = {} /\ in[1] # {}
        /\ \A s, t \in todo : s # t => Apart(s, t)
        /\ split' \in SUBSET Nat
  <2>1. split \in SUBSET Nat
    BY DEF Base, TypeOK
  <2>2. {} \in Slices /\ {} \in Files
    BY FS_EmptySet DEF Slices, Files
  <2>3. CASE /\ Cardinality(in[1]) = 1 /\ in[2] = {}
             /\ compaction' = [NoCompaction EXCEPT
                  !.pc = "merge", !.level = level, !.in = in,
                  !.outs = in[1], !.move = TRUE]
             /\ split' = split
    <3>1. in[1] # {}
      BY ONLY <2>3, OneIsNotEmpty, Zenon
    <3>2. compaction' = [pc |-> "merge", level |-> level, in |-> in, todo |-> {},
                         outs |-> in[1], move |-> TRUE]
      BY <2>3 DEF NoCompaction
    <3> QED
      BY <1>3, <2>1, <2>2, <2>3, <3>1, <3>2
  <2>4. ASSUME NEW todo \in Outputs(kept),
               compaction' = [NoCompaction EXCEPT
                 !.pc = "merge", !.level = level, !.in = in, !.todo = todo],
               split' = split \cup cut(todo)
        PROVE  \E todo_1 \in Slices, outs \in Files, move \in BOOLEAN :
                 /\ compaction' = [pc |-> "merge", level |-> level, in |-> in,
                                   todo |-> todo_1, outs |-> outs, move |-> move]
                 /\ move => todo_1 = {} /\ outs = in[1] /\ in[2] = {} /\ in[1] # {}
                 /\ \A s, t \in todo_1 : s # t => Apart(s, t)
                 /\ split' \in SUBSET Nat
    <3>1. todo \in Slices /\ \A s, t \in todo : s # t => Apart(s, t)
      BY <1>4, <2>4, OutputsType
    <3>2. compaction' = [pc |-> "merge", level |-> level, in |-> in,
                         todo |-> todo, outs |-> {}, move |-> FALSE]
      BY <2>4 DEF NoCompaction
    <3>3. split' \in SUBSET Nat
      <4>1. cut(todo) \in SUBSET Nat
        BY <1>5
      <4> HIDE DEF cut
      <4> QED
        BY ONLY <2>1, <2>4, <4>1
    <3> QED
      BY <2>2, <3>1, <3>2, <3>3
  <2> QED
    BY <1>2, <2>3, <2>4
<1> HIDE DEF kept, cut
<1>7. PICK todo \in Slices, outs \in Files, move \in BOOLEAN :
        /\ compaction' = [pc |-> "merge", level |-> level, in |-> in,
                          todo |-> todo, outs |-> outs, move |-> move]
        /\ move => todo = {} /\ outs = in[1] /\ in[2] = {} /\ in[1] # {}
        /\ \A s, t \in todo : s # t => Apart(s, t)
        /\ split' \in SUBSET Nat
  BY <1>6
<1>8. CompactionOK'
  BY <1>1, <1>3, <1>7 DEF CompactionOK
<1>9. TypeOK'
  BY <1>7, <1>8 DEF Base, TypeOK, LogsOK, ManifestOK, FlushOK
<1>10. Phases'
  BY <1>1, <1>7 DEF Base, Phases
<1>11. Working'
  BY <1>1, <1>7 DEF Base, Working
<1>12. Numbers'
  BY <1>1 DEF Base, Numbers, needed
<1>13. Installing'
  BY <1>1, <1>3, <1>7 DEF Base, Installing
<1> QED
  BY <1>9, <1>10, <1>11, <1>12, <1>13 DEF Base

\* The fields of a compaction.
LEMMA CompactionFields ==
  ASSUME CompactionOK, NEW t, NEW u
  PROVE  [compaction EXCEPT !.todo = t, !.outs = u]
           = [pc |-> compaction.pc, level |-> compaction.level,
              in |-> compaction.in, todo |-> t, outs |-> u,
              move |-> compaction.move]
<1> DEFINE c == compaction
           d == [c EXCEPT !.todo = t]
           e == [d EXCEPT !.outs = u]
<1>1. c = [pc |-> c.pc, level |-> c.level, in |-> c.in, todo |-> c.todo,
           outs |-> c.outs, move |-> c.move]
  BY DEF CompactionOK
<1>2. [compaction EXCEPT !.todo = t, !.outs = u] = e
  OBVIOUS
<1>3. d = [pc |-> c.pc, level |-> c.level, in |-> c.in, todo |-> t,
           outs |-> c.outs, move |-> c.move]
  <2> HIDE DEF c
  <2> QED
    BY <1>1
<1>4. e = [pc |-> c.pc, level |-> c.level, in |-> c.in, todo |-> t,
           outs |-> u, move |-> c.move]
  <2> HIDE DEF c, d
  <2> QED
    BY <1>3
<1> QED
  BY <1>2, <1>4

LEMMA WriteOutputBase == Base /\ WriteOutput => Base'
<1> SUFFICES ASSUME Base, WriteOutput
             PROVE  Base'
  OBVIOUS
<1> USE DEF WriteOutput, writeVars, readVars, historyVars
<1> DEFINE o == CHOOSE o \in compaction.todo :
                  \A p \in compaction.todo \ {o} :
                    \A a \in o, b \in p : Before(a, b)
           f == [num |-> nextFile, entries |-> o]
<1>1. /\ tables' = written({f})
      /\ pendingOutputs' = pendingOutputs \cup {f.num}
      /\ compaction' = [compaction EXCEPT !.todo = @ \ {o},
                                          !.outs = @ \cup {f}]
  OBVIOUS
<1>2. /\ compaction.todo \in Slices /\ compaction.todo # {}
      /\ \A s, t \in compaction.todo : s # t => Apart(s, t)
      /\ up = "up" /\ flush.pc = "none" /\ ~compaction.move
      /\ nextFile \in Nat
  BY DEF Base, TypeOK, CompactionOK, Working, Phases, NoCompaction
<1>3. o \in compaction.todo
  BY <1>2, FirstSlice
<1> HIDE DEF o
<1>4. f \in File /\ {f} \in Files /\ {f} \in SUBSET File /\ f.num = nextFile
  <2>1. f \in File
    BY <1>2, <1>3 DEF File, Slices
  <2> QED
    BY <2>1, FilesOne
<1> HIDE DEF f
<1>5. compaction.todo \ {o} \in Slices
  BY <1>2, FS_RemoveElement DEF Slices
<1>6. compaction.outs \cup {f} \in Files
  BY <1>4, FilesUnion DEF Base, TypeOK, CompactionOK
<1>7. CompactionOK' /\ compaction'.todo = compaction.todo \ {o}
      /\ compaction'.outs = compaction.outs \cup {f}
      /\ compaction'.pc = compaction.pc /\ compaction'.move = compaction.move
      /\ compaction'.in = compaction.in /\ compaction'.level = compaction.level
  <2>1. CompactionOK
    BY DEF Base, TypeOK
  <2>3. compaction' = [pc |-> compaction.pc, level |-> compaction.level,
                       in |-> compaction.in, todo |-> compaction.todo \ {o},
                       outs |-> compaction.outs \cup {f},
                       move |-> compaction.move]
    BY <1>1, <2>1, CompactionFields
  <2> QED
    BY ONLY <1>5, <1>6, <2>1, <2>3 DEF CompactionOK
<1>8. TypeOK'
  <2>1. tables' \in SUBSET File
    BY <1>1, <1>4, WrittenType DEF Base, TypeOK
  <2>2. nextFile' \in Nat /\ pendingOutputs' \in SUBSET Nat
    BY <1>1, <1>2, <1>4 DEF Base, TypeOK
  <2> QED
    BY <1>7, <2>1, <2>2 DEF Base, TypeOK, LogsOK, ManifestOK, FlushOK
<1>9. Phases'
  BY <1>2 DEF Base, Phases
<1>10. Working'
  BY <1>2, <1>7 DEF Base, Working
<1>11. Numbers'
  BY <1>2 DEF Base, TypeOK, ManifestOK, LogsOK, Numbers, needed
<1>12. Installing'
  BY <1>2, <1>7 DEF Base, Installing
<1> QED
  BY <1>8, <1>9, <1>10, <1>11, <1>12 DEF Base

\* InstallCompactionResults makes a version.
LEMMA CompactedType ==
  ASSUME current \in Version, CompactionOK
  PROVE  /\ compacted \in Version
         /\ \A l \in Levels :
              compacted[l] = IF l = compaction.level
                             THEN current[l] \ compaction.in[1]
                             ELSE IF l = compaction.level + 1
                             THEN (current[l] \ compaction.in[2]) \cup compaction.outs
                             ELSE current[l]
<1> DEFINE l == compaction.level
           a == current[l] \ compaction.in[1]
           b == (current[l + 1] \ compaction.in[2]) \cup compaction.outs
<1>1. l \in Levels /\ l + 1 \in Levels /\ l # l + 1
  BY LevelsType DEF CompactionOK
<1>2. a \in Files /\ b \in Files
  <2>1. current[l] \in Files /\ current[l + 1] \in Files
    BY <1>1, VersionFiles
  <2>2. compaction.outs \in Files
    BY DEF CompactionOK
  <2> QED
    BY <2>1, <2>2, FilesSubset, FilesUnion
<1>3. compacted = [current EXCEPT ![l] = a, ![l + 1] = b]
  BY DEF compacted
<1> HIDE DEF a, b
<1>4. /\ [current EXCEPT ![l] = a, ![l + 1] = b] \in Version
      /\ \A k \in Levels : [current EXCEPT ![l] = a, ![l + 1] = b][k]
           = IF k = l THEN a ELSE IF k = l + 1 THEN b ELSE current[k]
  <2> HIDE DEF l
  <2> QED
    BY <1>1, <1>2 DEF Version
<1> QED
  BY <1>3, <1>4 DEF a, b

LEMMA LogCompactionBase == Base /\ LogCompaction => Base'
<1> SUFFICES ASSUME Base, LogCompaction
             PROVE  Base'
  OBVIOUS
<1> USE DEF LogCompaction, writeVars, fileVars, readVars, historyVars
<1>1. up = "up" /\ flush.pc = "none" /\ compaction.todo = {}
      /\ CompactionOK /\ current \in Version
  BY NothingType DEF Base, TypeOK, Phases, Working
<1>2. CompactionOK' /\ compaction'.todo = compaction.todo
      /\ compaction'.outs = compaction.outs
      /\ compaction'.pc = "install" /\ compaction'.move = compaction.move
      /\ compaction'.in = compaction.in /\ compaction'.level = compaction.level
  BY <1>1 DEF CompactionOK
<1>3. /\ manifest'.files = compacted
      /\ manifest'.log = logNumber /\ manifest'.next = nextFile
      /\ manifest'.last = lastSequence
  BY DEF LogEdit
<1>4. ManifestOK'
  BY <1>1, CompactedType DEF LogEdit, ManifestOK, Base, TypeOK
<1>5. TypeOK'
  BY <1>2, <1>4 DEF Base, TypeOK, LogsOK, FlushOK
<1>6. Phases'
  BY <1>1 DEF Base, Phases
<1>7. Working'
  BY <1>1, <1>2 DEF Base, Working
<1>8. Numbers'
  BY <1>1, <1>3 DEF Base, TypeOK, LogsOK, Numbers, needed
<1>9. Installing'
  BY <1>1, <1>2, <1>3 DEF Base, Installing, compacted
<1> QED
  BY <1>5, <1>6, <1>7, <1>8, <1>9 DEF Base

LEMMA InstallCompactionBase == Base /\ InstallCompaction => Base'
<1> SUFFICES ASSUME Base, InstallCompaction
             PROVE  Base'
  OBVIOUS
<1> USE DEF InstallCompaction, readVars, historyVars
<1>1. /\ up = "up" /\ flush.pc = "none" /\ LogsOK /\ tables \in SUBSET File
      /\ logNumber \in Nat /\ logNumber = manifest.log
      /\ manifest' = manifest /\ compaction' = NoCompaction
      /\ current' = manifest.files
      /\ manifest \in [files : Version, log : Nat, next : Nat, last : Nat]
  BY NothingType DEF Base, TypeOK, Phases, Working, Numbers, ManifestOK
<1>2. /\ LogsOK' /\ tables' \in SUBSET tables
      /\ DOMAIN logs' \subseteq DOMAIN logs
      /\ \A n \in DOMAIN logs : n >= manifest.log => n \in DOMAIN logs'
  <2>1. CASE compaction.move
    BY <1>1, <2>1 DEF LogsOK
  <2>2. CASE ~compaction.move
    BY <1>1, <2>2, DeleteType
  <2> QED
    BY <2>1, <2>2
<1>3. TypeOK'
  <2>1. scheduled' \in BOOLEAN
    BY MoreWorkType
  <2>2. CompactionOK' /\ ManifestOK'
    BY <1>1, NothingType DEF CompactionOK, ManifestOK
  <2>3. tables' \in SUBSET File /\ current' \in Version
    BY <1>1, <1>2
  <2>4. pendingOutputs' \in SUBSET Nat
    BY DEF Base, TypeOK
  <2> QED
    BY <1>2, <2>1, <2>2, <2>3, <2>4 DEF Base, TypeOK, FlushOK
<1>4. Phases'
  BY <1>1 DEF Base, Phases
<1>5. Working'
  BY <1>1, NothingType DEF Base, Working
<1>6. Numbers'
  <2>1. needed' = needed
    BY <1>1, <1>2 DEF needed
  <2>2. logfile \in DOMAIN logs'
    BY <1>1, <1>2 DEF Base, Numbers
  <2> QED
    BY <1>1, <1>2, <2>1, <2>2 DEF Base, Numbers
<1>7. Installing'
  BY <1>1, NothingType DEF Base, Installing
<1> QED
  BY <1>3, <1>4, <1>5, <1>6, <1>7 DEF Base

LEMMA ReaderBase == Base /\ Reader => Base'
<1> SUFFICES ASSUME Base, Reader
             PROVE  Base'
  OBVIOUS
<1> USE DEF Reader, GetSnapshot, ReleaseSnapshot, Pin, Unpin, diskVars,
            writeVars, fileVars, threadVars, historyVars
<1>1. /\ snapshots' \in SUBSET Nat /\ pinned' \in SUBSET Version
      /\ up # "up" => snapshots' = {} /\ pinned' = {}
  BY DEF Base, TypeOK, Phases
<1>2. UNCHANGED <<up, tables, logs, manifest, mem, imm, logfile, lastSequence,
                  bgError, writers, logged, writes, current, logNumber,
                  nextFile, pendingOutputs, scheduled, flush, compaction,
                  crashes, committed, synced, split>>
  OBVIOUS
<1>3. TypeOK'
  BY ONLY Base, <1>1, <1>2 DEF Base, TypeOK, LogsOK, ManifestOK, FlushOK, CompactionOK
<1>4. Phases' /\ Working'
  BY ONLY Base, <1>1, <1>2 DEF Base, Phases, Working
<1>5. Numbers'
  BY ONLY Base, <1>2 DEF Base, Numbers, needed
<1>6. Installing'
  BY ONLY Base, <1>2 DEF Base, Installing, compacted
<1> QED
  BY <1>3, <1>4, <1>5, <1>6 DEF Base

LEMMA StutterBase == Base /\ UNCHANGED vars => Base'
<1> SUFFICES ASSUME Base, UNCHANGED vars
             PROVE  Base'
  OBVIOUS
<1> USE DEF vars, diskVars, writeVars, fileVars, readVars, threadVars,
            historyVars
<1>1. TypeOK'
  BY DEF Base, TypeOK, LogsOK, ManifestOK, FlushOK, CompactionOK
<1>2. Phases' /\ Working'
  BY DEF Base, Phases, Working
<1>3. Numbers'
  BY DEF Base, Numbers, needed
<1>4. Installing'
  BY DEF Base, Installing, compacted
<1> QED
  BY <1>1, <1>2, <1>3, <1>4 DEF Base

\* What a crash leaves of the logs, and of what they hold.
LEMMA CrashLogs ==
  ASSUME LogsOK, Crash
  PROVE  /\ LogsOK' /\ DOMAIN logs' = DOMAIN logs
         /\ \A n \in DOMAIN logs :
              /\ logs[n].synced <= logs'[n].synced
              /\ logs'[n].synced = Len(logs'[n].recs)
              /\ Len(logs'[n].recs) <= Len(logs[n].recs)
              /\ \A i \in 1 .. Len(logs'[n].recs) : logs'[n].recs[i] = logs[n].recs[i]
         /\ committed' = (committed \ UNION {Entries(logs[n].recs) : n \in needed})
                           \cup UNION {Entries(logs'[n].recs) : n \in needed}
<1>1. PICK keep \in [DOMAIN logs -> 0 .. MaxWrites] :
        /\ \A n \in DOMAIN logs : keep[n] \in logs[n].synced .. Len(logs[n].recs)
        /\ logs' = [n \in DOMAIN logs |->
                      [recs |-> SubSeq(logs[n].recs, 1, keep[n]),
                       synced |-> keep[n]]]
        /\ LET kept == [n \in DOMAIN logs |->
                          [recs |-> SubSeq(logs[n].recs, 1, keep[n]),
                           synced |-> keep[n]]]
           IN  committed' =
                 (committed \ UNION {Entries(logs[n].recs) : n \in needed})
                   \cup UNION {Entries(kept[n].recs) : n \in needed}
  BY DEF Crash, needed
<1>2. DOMAIN logs' = DOMAIN logs
  BY <1>1
<1>3. committed' = (committed \ UNION {Entries(logs[n].recs) : n \in needed})
                     \cup UNION {Entries(logs'[n].recs) : n \in needed}
  BY <1>1
<1>4. ASSUME NEW n \in DOMAIN logs
      PROVE  /\ logs'[n] \in Log
             /\ logs[n].synced <= logs'[n].synced
             /\ logs'[n].synced = Len(logs'[n].recs)
             /\ Len(logs'[n].recs) <= Len(logs[n].recs)
             /\ \A i \in 1 .. Len(logs'[n].recs) : logs'[n].recs[i] = logs[n].recs[i]
  <2> DEFINE recs == logs[n].recs
             k == keep[n]
             sub == SubSeq(recs, 1, k)
  <2>1. recs \in Seq(Table) /\ logs[n].synced \in Nat
    BY DEF LogsOK, Log
  <2>2. k \in Nat /\ logs[n].synced <= k /\ k <= Len(recs)
    BY <1>1, <2>1
  <2>3. \A i \in 1 .. k : recs[i] \in Table
    BY <2>1, <2>2
  <2>4. sub \in Seq(Table) /\ Len(sub) = k /\ \A i \in 1 .. k : sub[i] = recs[i]
    <3> HIDE DEF recs, k
    <3>1. sub \in Seq(Table) /\ Len(sub) = (IF 1 <= k THEN k - 1 + 1 ELSE 0)
          /\ \A i \in 1 .. k - 1 + 1 : sub[i] = recs[1 + i - 1]
      BY <2>1, <2>2, <2>3, SubSeqProperties
    <3>2. k - 1 + 1 = k /\ \A i \in 1 .. k : 1 + i - 1 = i
      BY <2>2
    <3>3. (IF 1 <= k THEN k - 1 + 1 ELSE 0) = k
      BY <2>2
    <3> QED
      BY <3>1, <3>2, <3>3
  <2>5. logs'[n] = [recs |-> sub, synced |-> k]
    BY <1>1
  <2> HIDE DEF sub, k
  <2> QED
    BY <2>2, <2>4, <2>5 DEF Log
<1>5. LogsOK'
  <2>1. logs' \in [DOMAIN logs -> Log]
    BY <1>1, <1>4
  <2> QED
    BY <1>2, <2>1 DEF LogsOK
<1> QED
  BY <1>2, <1>3, <1>4, <1>5

LEMMA CrashBase == Base /\ Crash => Base'
<1> SUFFICES ASSUME Base, Crash
             PROVE  Base'
  OBVIOUS
<1>1. /\ up' = "down" /\ flush' = NoFlush /\ compaction' = NoCompaction
      /\ current' = EmptyVersion /\ mem' = {} /\ imm' = {}
      /\ logfile' = 0 /\ logNumber' = 0 /\ nextFile' = 0 /\ lastSequence' = 0
      /\ pendingOutputs' = {} /\ bgError' = FALSE /\ scheduled' = FALSE
      /\ writers' = <<>> /\ logged' = 0 /\ snapshots' = {} /\ pinned' = {}
      /\ crashes' = crashes + 1
      /\ UNCHANGED <<tables, manifest, writes, synced, split>>
  BY DEF Crash
<1>2. LogsOK /\ LogsOK' /\ DOMAIN logs' = DOMAIN logs
  BY CrashLogs DEF Base, TypeOK
<1>3. committed' \in SUBSET Entry
  <2>1. \A l \in Log : Entries(l.recs) \in SUBSET Entry
    BY EntriesType DEF Log, EntrySets
  <2>2. \A n \in needed : logs'[n] \in Log
    BY <1>2 DEF LogsOK, needed
  <2>3. committed \in SUBSET Entry
    BY DEF Base, TypeOK
  <2> QED
    BY <1>2, <2>1, <2>2, <2>3, CrashLogs
<1>4. TypeOK'
  <2>1. {} \in EntrySets
    BY FS_EmptySet DEF EntrySets
  <2>2. writers' \in Seq(Calls) /\ logged' \in 0 .. Len(writers')
    BY <1>1
  <2>3. FlushOK' /\ CompactionOK' /\ ManifestOK'
    BY <1>1, NothingType DEF FlushOK, CompactionOK, ManifestOK, Base, TypeOK
  <2>4. current' \in Version
    BY <1>1, EmptyVersionType
  <2>5. /\ logfile' \in Nat /\ logNumber' \in Nat /\ nextFile' \in Nat
        /\ lastSequence' \in Nat /\ bgError' \in BOOLEAN
        /\ scheduled' \in BOOLEAN
    BY <1>1
  <2>6. /\ pendingOutputs' \in SUBSET Nat /\ snapshots' \in SUBSET Nat
        /\ pinned' \in SUBSET Version
    BY <1>1
  <2>7. tables' \in SUBSET File /\ writes' \in Nat /\ crashes' \in Nat
        /\ synced' \in SUBSET Entry /\ split' \in SUBSET Nat
    BY <1>1 DEF Base, TypeOK
  <2>8. mem' \in EntrySets /\ imm' \in EntrySets
        /\ up' \in {"up", "down", "opening"}
    BY <1>1, <2>1
  <2> QED
    BY ONLY <1>2, <1>3, <2>2, <2>3, <2>4, <2>5, <2>6, <2>7, <2>8 DEF TypeOK
<1>5. Phases' /\ Working'
  BY <1>1, NothingType DEF Phases, Working
<1>6. Numbers'
  BY <1>1, <1>2 DEF Base, Numbers, needed
<1>7. Installing'
  BY <1>1, NothingType DEF Installing
<1> QED
  BY <1>4, <1>5, <1>6, <1>7 DEF Base

\* What DB::Open finds and makes before it has logged its edit.
LEMMA RecoverFacts ==
  ASSUME Base, Recover
  PROVE  /\ Replayed(replay, Max(DOMAIN logs))
         /\ \A n \in needed : n <= Max(DOMAIN logs) /\ n < replay.next
         /\ \A n \in DOMAIN logs : n < replay.next
         /\ replay.next \in Nat \ {0} /\ replay.last \in Nat
         /\ replay.files \in Files
         /\ manifest.next < replay.next
         /\ \A f \in replay.files : manifest.next < f.num /\ f.num < replay.next
         /\ flush' = [pc |-> "open", files |-> replay.files, level |-> 0]
         /\ tables' = written(replay.files) /\ lastSequence' = replay.last
         /\ logfile' = replay.next /\ nextFile' = replay.next + 1
         /\ logs' = withLog(replay.next)
         /\ current' = manifest.files /\ logNumber' = manifest.log
         /\ up = "down" /\ up' = "opening"
         /\ UNCHANGED <<manifest, mem, imm, bgError, writers, logged, writes,
                        pendingOutputs, snapshots, pinned, scheduled,
                        compaction, crashes, committed, synced, split>>
<1>1. LogsOK /\ ManifestOK /\ needed # {} /\ manifest.log < manifest.next
  BY DEF Base, TypeOK, Numbers
<1>2. /\ \A n \in DOMAIN logs : n <= Max(DOMAIN logs)
      /\ Replayed(replay, Max(DOMAIN logs))
  BY <1>1, ReplayOutcome
<1>3. /\ replay \in Replay /\ manifest.next < replay.next
      /\ \A n \in needed : n <= Max(DOMAIN logs) /\ n < replay.next
  BY <1>2 DEF Replayed, needed
<1>4. /\ replay.next \in Nat /\ replay.last \in Nat /\ replay.files \in Files
      /\ manifest.next \in Nat /\ manifest.log \in Nat
      /\ \A n \in DOMAIN logs : n \in Nat
  BY <1>1, <1>3 DEF Replay, ManifestOK, LogsOK
<1>5. \A n \in DOMAIN logs : n < replay.next
  BY <1>1, <1>3, <1>4 DEF needed
<1>6. replay.next \in Nat \ {0}
  BY <1>3, <1>4
<1>7. \A f \in replay.files : manifest.next < f.num /\ f.num < replay.next
  BY <1>2 DEF Replayed
<1> QED
  BY <1>2, <1>3, <1>4, <1>5, <1>6, <1>7
  DEF Recover, readVars, historyVars

LEMMA RecoverBase == Base /\ Recover => Base'
<1> SUFFICES ASSUME Base, Recover
             PROVE  Base'
  OBVIOUS
<1> DEFINE r == replay
<1>1. /\ flush' = [pc |-> "open", files |-> r.files, level |-> 0]
      /\ tables' = written(r.files) /\ lastSequence' = r.last
      /\ logfile' = r.next /\ nextFile' = r.next + 1
      /\ logs' = withLog(r.next) /\ r.next \in Nat \ {0} /\ r.last \in Nat
      /\ r.files \in Files /\ \A n \in DOMAIN logs : n < r.next
      /\ manifest.next < r.next
      /\ current' = manifest.files /\ logNumber' = manifest.log
      /\ up = "down" /\ up' = "opening"
      /\ UNCHANGED <<manifest, mem, imm, bgError, writers, logged, writes,
                     pendingOutputs, snapshots, pinned, scheduled,
                     compaction, crashes, committed, synced, split>>
  BY RecoverFacts
<1> HIDE DEF r
<1>2. /\ DOMAIN logs' = DOMAIN logs \cup {r.next}
      /\ LogsOK'
  <2>1. LogsOK
    BY DEF Base, TypeOK
  <2>2. /\ DOMAIN logs' = DOMAIN logs \cup {r.next}
        /\ IsFiniteSet(DOMAIN logs') /\ DOMAIN logs' \subseteq Nat \ {0}
        /\ logs' \in [DOMAIN logs' -> Log]
    BY ONLY <1>1, <2>1, WithLogType
  <2> QED
    BY <2>2 DEF LogsOK
<1>3. FlushOK' /\ flush'.pc = "open"
  BY <1>1, LevelsType DEF FlushOK
<1>4. ManifestOK /\ manifest.log \in Nat /\ manifest.next \in Nat
      /\ manifest.files \in Version /\ manifest.log < manifest.next
      /\ up # "opening" /\ flush = NoFlush /\ compaction = NoCompaction
  BY <1>1, NothingType DEF Base, TypeOK, ManifestOK, Numbers, Phases
<1>5. TypeOK'
  <2>1. tables' \in SUBSET File
    BY <1>1, WrittenType DEF Base, TypeOK, Files
  <2> QED
    BY <1>1, <1>2, <1>3, <1>4, <2>1, SMTT(30)
    DEF Base, TypeOK, ManifestOK, CompactionOK
<1>6. Phases'
  BY <1>1, <1>3 DEF Base, Phases
<1>7. Working'
  BY <1>1, <1>3, <1>4, NothingType DEF Base, Working
<1>8. Numbers'
  <2>1. needed' = needed \cup {r.next}
    BY <1>1, <1>2, <1>4 DEF needed
  <2>2. \A n \in DOMAIN logs' : n <= r.next
    BY <1>1, <1>2 DEF LogsOK, Base, TypeOK
  <2> QED
    BY <1>1, <1>2, <1>3, <1>4, <2>1, <2>2 DEF Numbers
<1>9. Installing'
  <2>1. compaction'.in = <<{}, {}>>
    BY <1>1, <1>4, NothingType
  <2> QED
    BY <1>1, <1>3, <1>4, <2>1, NothingType DEF Installing
<1> QED
  BY <1>5, <1>6, <1>7, <1>8, <1>9 DEF Base

LEMMA FinishOpenBase == Base /\ FinishOpen => Base'
<1> SUFFICES ASSUME Base, FinishOpen
             PROVE  Base'
  OBVIOUS
<1> USE DEF FinishOpen, readVars, historyVars
<1>1. /\ up = "opening" /\ up' = "up" /\ flush.pc = "open" /\ LogsOK
      /\ compaction = NoCompaction /\ current = manifest.files
      /\ tables \in SUBSET File /\ logfile \in Nat /\ current \in Version
      /\ flush.files \in Files
  BY NothingType DEF Base, TypeOK, Phases, Installing, FlushOK
<1>2. /\ manifest'.files = [current EXCEPT ![0] = @ \cup flush.files]
      /\ manifest'.log = logfile /\ manifest'.next = nextFile
      /\ manifest'.last = lastSequence /\ current' = manifest'.files
      /\ logNumber' = logfile /\ flush' = NoFlush
  BY DEF LogEdit
<1>3. manifest'.files \in Version
  <2>1. current[0] \cup flush.files \in Files
    BY <1>1, LevelsType, VersionFiles, FilesUnion
  <2>2. [current EXCEPT ![0] = current[0] \cup flush.files] \in Version
    BY ONLY <1>1, <2>1, LevelsType, VersionExcept
  <2> QED
    BY <1>2, <2>2
<1>4. ManifestOK' /\ FlushOK'
  BY <1>2, <1>3, NothingType DEF ManifestOK, FlushOK, LogEdit, Base, TypeOK
<1>5. /\ LogsOK' /\ tables' \in SUBSET tables
      /\ DOMAIN logs' \subseteq DOMAIN logs
      /\ \A n \in DOMAIN logs : n >= logfile => n \in DOMAIN logs'
  <2>1. DeleteObsoleteFiles(current', logfile, pendingOutputs)
    BY <1>2
  <2> QED
    BY ONLY <1>1, <2>1, DeleteType
<1>6. TypeOK'
  <2>1. scheduled' \in BOOLEAN
    BY MoreWorkType
  <2>2. tables' \in SUBSET File /\ current' \in Version /\ logNumber' \in Nat
    BY <1>1, <1>2, <1>3, <1>5
  <2> QED
    BY <1>4, <1>5, <2>1, <2>2 DEF Base, TypeOK, CompactionOK
<1>7. Phases'
  BY <1>1, <1>2, NothingType DEF Base, Phases
<1>8. Working'
  BY <1>1, <1>2, NothingType DEF Base, Working
<1>9. Numbers'
  <2>1. logfile \in DOMAIN logs' /\ logfile \in Nat /\ nextFile \in Nat
        /\ logfile < nextFile
    BY <1>1, <1>5 DEF Base, Numbers, TypeOK
  <2>2. logfile \in needed'
    BY <1>2, <2>1 DEF needed
  <2>3. \A n \in DOMAIN logs' : n <= logfile
    BY <1>1, <1>5 DEF Base, Numbers
  <2> QED
    BY <1>1, <1>2, <2>1, <2>2, <2>3 DEF Numbers
<1>10. Installing'
  BY <1>1, <1>2, NothingType DEF Base, Installing
<1> QED
  BY <1>6, <1>7, <1>8, <1>9, <1>10 DEF Base

LEMMA NextBase == Base /\ [Next]_vars => Base'
BY WriteBase, RefuseWriteBase, SwitchMemTableBase, LogGroupBase, SyncLogBase,
   FailSyncBase, FinishGroupBase, StartFlushBase, LogFlushBase,
   InstallFlushBase, StartCompactionBase, WriteOutputBase, LogCompactionBase,
   InstallCompactionBase, ReaderBase, CrashBase, RecoverBase, FinishOpenBase,
   StutterBase
DEF Next, Leader, Background, SizeCompaction, OtherCompaction

\* Every variable keeps its type, a thread does only what its phase allows,
\* and MANIFEST names the current version or the one about to replace it,
\* from LogAndApply to the recovery after a crash (version_set.cc:820).
THEOREM TypeCorrect == Spec => []Base
<1>1. Base /\ [Next]_vars => Base'
  BY NextBase
<1> QED
  BY <1>1, InitBase, PTL DEF Spec

-----------------------------------------------------------------------------
(* The files in use *)

HeldFiles == UNION {FilesOf(v) : v \in pinned}

InUse == FilesOf(manifest.files) \cup FilesOf(current) \cup HeldFiles
           \cup compaction.outs \cup flush.files

\* Files in use are there; their numbers have been given out, and those of
\* a compaction's outputs are protected until its edit is installed.
FilesInv ==
  /\ InUse \subseteq tables
  /\ \A f \in FilesOf(manifest.files) : f.num < manifest.next
  /\ up # "down" => \A f \in InUse : f.num < nextFile
  /\ ~compaction.move => nums(compaction.outs) \subseteq pendingOutputs
  /\ nums(compaction.outs) \cap nums(flush.files) = {}

\* Files added to one level, and those a compaction exchanges.
LEMMA FilesOfMember ==
  \A v, f : f \in FilesOf(v) <=> \E l \in Levels : f \in v[l]
BY DEF FilesOf

LEMMA FilesOfAdded ==
  ASSUME NEW v \in Version, NEW l \in Levels, NEW F
  PROVE  FilesOf([v EXCEPT ![l] = @ \cup F]) = FilesOf(v) \cup F
<1> DEFINE w == [v EXCEPT ![l] = @ \cup F]
<1>1. \A k \in Levels : w[k] = IF k = l THEN v[k] \cup F ELSE v[k]
  BY DEF Version
<1> HIDE DEF w
<1>2. ASSUME NEW f
      PROVE  (\E k \in Levels : f \in w[k])
               <=> (\E k \in Levels : f \in v[k]) \/ f \in F
  BY <1>1, Zenon
<1>3. \A f : f \in FilesOf(w) <=> f \in FilesOf(v) \cup F
  BY <1>2, FilesOfMember, Zenon
<1>4. FilesOf(w) = FilesOf(v) \cup F
  BY <1>3, Zenon
<1> QED
  BY <1>4 DEF w

LEMMA FilesOfCompacted ==
  ASSUME current \in Version, CompactionOK
  PROVE  FilesOf(compacted) \subseteq FilesOf(current) \cup compaction.outs
<1>1. \A l \in Levels : compacted[l] \subseteq current[l] \cup compaction.outs
  BY CompactedType
<1> QED
  BY <1>1 DEF FilesOf

LEMMA InUseType == Base => InUse \in SUBSET File
<1> SUFFICES ASSUME Base
             PROVE  InUse \in SUBSET File
  OBVIOUS
<1>1. \A v \in Version : FilesOf(v) \in SUBSET File
  BY VersionFiles
<1>2. manifest.files \in Version /\ current \in Version /\ pinned \in SUBSET Version
  BY DEF Base, TypeOK, ManifestOK
<1>3. compaction.outs \in SUBSET File /\ flush.files \in SUBSET File
  BY DEF Base, TypeOK, CompactionOK, FlushOK, Files
<1> QED
  BY <1>1, <1>2, <1>3 DEF InUse, HeldFiles

\* A step that brings no file into use and takes none away.
LEMMA FilesFrame ==
  ASSUME Base, FilesInv, InUse' \subseteq InUse, up' = up,
         UNCHANGED <<tables, manifest>>,
         nextFile' \in Nat, nextFile <= nextFile',
         ~compaction'.move => nums(compaction'.outs) \subseteq pendingOutputs',
         nums(compaction'.outs) \cap nums(flush'.files) = {}
  PROVE  FilesInv'
<1>1. \A f \in InUse : f.num \in Nat
  BY InUseType DEF File
<1>2. up' # "down" => \A f \in InUse' : f.num < nextFile'
  BY <1>1 DEF FilesInv, Base, TypeOK
<1> QED
  BY <1>2 DEF FilesInv

\* The steps of writers and readers use the files as they are.
LEMMA OthersKeepFiles ==
  ASSUME Base, FilesInv,
         Write \/ Leader \/ Reader \/ UNCHANGED vars
  PROVE  FilesInv'
<1> USE DEF Write, Leader, RefuseWrite, SwitchMemTable, LogGroup, SyncLog,
            FailSync, FinishGroup, Leading, Reader, GetSnapshot,
            ReleaseSnapshot, Pin, Unpin, vars, diskVars, writeVars, fileVars,
            readVars, threadVars, historyVars
<1>1. UNCHANGED <<up, tables, manifest, current, pendingOutputs>>
      /\ compaction' = compaction /\ flush' = flush
  BY DEF SwitchMemTable
<1>2. nextFile' = nextFile \/ nextFile' = nextFile + 1
  OBVIOUS
<1>3. \A v \in pinned' : v \in pinned \/ v = current
  OBVIOUS
<1>4. InUse' \subseteq InUse
  BY ONLY <1>1, <1>3 DEF InUse, HeldFiles
<1>5. nextFile' \in Nat /\ nextFile <= nextFile'
  BY ONLY Base, <1>2 DEF Base, TypeOK
<1> QED
  BY ONLY Base, FilesInv, <1>1, <1>4, <1>5, FilesFrame DEF FilesInv

\* A table is written under a number not given out before.
LEMMA NewTableKeepsFiles ==
  ASSUME Base, FilesInv, up # "down", up' = up, NEW f \in File,
         f.num = nextFile, nextFile' = nextFile + 1, manifest' = manifest,
         tables' = written({f}), InUse' \subseteq InUse \cup {f},
         ~compaction'.move => nums(compaction'.outs) \subseteq pendingOutputs',
         nums(compaction'.outs) \cap nums(flush'.files) = {}
  PROVE  FilesInv'
<1>1. nextFile \in Nat /\ tables \in SUBSET File
  BY DEF Base, TypeOK
<1>2. \A g \in InUse : g.num \in Nat /\ g.num < nextFile /\ g \in tables
  BY InUseType DEF FilesInv, File
<1>3. \A g \in InUse : g.num \notin nums({f})
  BY <1>1, <1>2 DEF nums
<1>4. f \in tables' /\ \A g \in InUse : g \in tables'
  <2>1. f \in written({f}) /\ \A t \in tables : t.num \notin nums({f}) => t \in written({f})
    BY <1>1, WrittenType
  <2> QED
    BY <1>2, <1>3, <2>1
<1>5. \A g \in InUse' : g.num < nextFile'
  BY <1>1, <1>2
<1> QED
  BY <1>4, <1>5 DEF FilesInv

LEMMA StartFlushKeepsFiles == Base /\ FilesInv /\ StartFlush => FilesInv'
<1> SUFFICES ASSUME Base, FilesInv, StartFlush
             PROVE  FilesInv'
  OBVIOUS
<1> DEFINE f == [num |-> nextFile, entries |-> imm]
<1>1. /\ up = "up" /\ flush.files = {} /\ imm # {} /\ nextFile \in Nat
      /\ imm \in EntrySets
  BY NothingType DEF StartFlush, CanStartFlush, Base, TypeOK, Working
<1>2. f \in File /\ f.num = nextFile
  BY <1>1 DEF File, Table
<1>3. /\ flush'.files = {f} /\ tables' = written({f})
      /\ pendingOutputs' = pendingOutputs \cup {nextFile}
      /\ UNCHANGED <<manifest, current, pinned, compaction, up>>
      /\ nextFile' = nextFile + 1
  BY DEF StartFlush, writeVars, readVars
<1> HIDE DEF f
<1>4. InUse' \subseteq InUse \cup {f}
  BY <1>3 DEF InUse, HeldFiles
<1>5. ~compaction'.move => nums(compaction'.outs) \subseteq pendingOutputs'
  BY <1>3 DEF FilesInv
<1>6. nums(compaction'.outs) \cap nums(flush'.files) = {}
  <2>1. \A g \in compaction.outs : g \in InUse /\ g.num < nextFile
    BY <1>1 DEF InUse, FilesInv
  <2> QED
    BY <1>1, <1>2, <1>3, <2>1 DEF nums
<1> QED
  BY ONLY Base, FilesInv, <1>1, <1>2, <1>3, <1>4, <1>5, <1>6, NewTableKeepsFiles

LEMMA WriteOutputKeepsFiles == Base /\ FilesInv /\ WriteOutput => FilesInv'
<1> SUFFICES ASSUME Base, FilesInv, WriteOutput
             PROVE  FilesInv'
  OBVIOUS
<1> DEFINE o == CHOOSE o \in compaction.todo :
                  \A p \in compaction.todo \ {o} :
                    \A a \in o, b \in p : Before(a, b)
           f == [num |-> nextFile, entries |-> o]
<1>1. /\ tables' = written({f})
      /\ pendingOutputs' = pendingOutputs \cup {f.num}
      /\ compaction' = [compaction EXCEPT !.todo = @ \ {o},
                                          !.outs = @ \cup {f}]
      /\ nextFile' = nextFile + 1
      /\ UNCHANGED <<up, manifest, current, pinned, flush>>
  BY DEF WriteOutput, writeVars, readVars
<1>2. /\ compaction.todo \in Slices /\ compaction.todo # {}
      /\ \A s, t \in compaction.todo : s # t => Apart(s, t)
      /\ up = "up" /\ flush.files = {} /\ ~compaction.move
      /\ nextFile \in Nat /\ CompactionOK
  BY NothingType DEF WriteOutput, Base, TypeOK, CompactionOK, Working, Phases
<1>3. o \in compaction.todo
  BY <1>2, FirstSlice
<1> HIDE DEF o
<1>4. f \in File /\ f.num = nextFile
  BY <1>2, <1>3 DEF File, Slices
<1> HIDE DEF f
<1>5. compaction'.outs = compaction.outs \cup {f}
      /\ compaction'.move = compaction.move
  BY <1>1, <1>2 DEF CompactionOK
<1>6. InUse' \subseteq InUse \cup {f}
  BY <1>1, <1>5 DEF InUse, HeldFiles
<1>7. nums(compaction'.outs) \subseteq pendingOutputs'
  BY <1>1, <1>2, <1>5 DEF FilesInv, nums
<1>8. nums(compaction'.outs) \cap nums(flush'.files) = {}
  BY <1>1, <1>2 DEF nums
<1> QED
  BY ONLY Base, FilesInv, <1>1, <1>2, <1>4, <1>6, <1>7, <1>8, NewTableKeepsFiles

\* The edits only name files that are in use already.
LEMMA LogEditKeepsFiles ==
  ASSUME Base, FilesInv, LogFlush \/ LogCompaction
  PROVE  FilesInv'
<1>1. /\ up = "up" /\ current \in Version /\ CompactionOK /\ FlushOK
  BY NothingType DEF LogFlush, LogCompaction, Base, TypeOK, Phases, NoFlush
<1>2. /\ FilesOf(manifest'.files) \subseteq
           FilesOf(current) \cup compaction.outs \cup flush.files
      /\ manifest'.next = nextFile
  <2>1. CASE LogFlush
    <3>1. PICK l \in PickLevelForMemTableOutput(current, minKey(flush.files),
                                                maxKey(flush.files)) :
            LogEdit([current EXCEPT ![l] = @ \cup flush.files], logfile)
      BY <2>1 DEF LogFlush
    <3>2. l \in Levels
      BY PickLevelType
    <3>3. FilesOf([current EXCEPT ![l] = @ \cup flush.files])
            = FilesOf(current) \cup flush.files
      BY <1>1, <3>2, FilesOfAdded
    <3>4. manifest'.files = [current EXCEPT ![l] = @ \cup flush.files]
          /\ manifest'.next = nextFile
      BY <3>1 DEF LogEdit
    <3> QED
      BY <3>3, <3>4
  <2>2. CASE LogCompaction
    BY <1>1, <2>2, FilesOfCompacted DEF LogCompaction, LogEdit
  <2> QED
    BY <2>1, <2>2
<1>3. /\ compaction'.outs = compaction.outs /\ flush'.files = flush.files
      /\ compaction'.move = compaction.move
      /\ pendingOutputs \ nums(flush.files) \subseteq pendingOutputs'
      /\ UNCHANGED <<up, tables, current, pinned, nextFile>>
  BY <1>1 DEF LogFlush, LogCompaction, CompactionOK, FlushOK, writeVars,
     readVars, fileVars
<1>4. InUse' \subseteq InUse
  BY <1>2, <1>3 DEF InUse, HeldFiles
<1>5. \A f \in FilesOf(manifest'.files) : f \in InUse
  BY <1>2 DEF InUse
<1>6. ~compaction'.move => nums(compaction'.outs) \subseteq pendingOutputs'
  BY <1>3 DEF FilesInv
<1> QED
  BY <1>1, <1>2, <1>3, <1>4, <1>5, <1>6 DEF FilesInv

\* Nothing is in use when nothing is under way.
LEMMA StartCompactionKeepsFiles ==
  ASSUME Base, FilesInv, NEW level \in CompactableLevels,
         NEW f \in current[level], StartCompaction(level, f)
  PROVE  FilesInv'
<1>1. /\ up = "up" /\ flush = NoFlush /\ current \in Version
      /\ compaction = NoCompaction /\ level \in 0 .. NumLevels - 2
      /\ nextFile \in Nat
  BY DEF StartCompaction, CanCompact, Base, TypeOK, Working, CompactableLevels
<1>2. PICK in \in CompactionInputs(current, level, f) :
        \/ compaction' = [NoCompaction EXCEPT
             !.pc = "merge", !.level = level, !.in = in,
             !.outs = in[1], !.move = TRUE]
        \/ \E outs : compaction' = [NoCompaction EXCEPT
             !.pc = "merge", !.level = level, !.in = in, !.todo = outs]
  <2> USE DEF StartCompaction
  <2> QED
    BY Zenon
<1>3. /\ in[1] \in SUBSET current[level]
      /\ level \in Levels
  BY <1>1, CompactionInputsType, LevelsType
<1>4. compaction'.outs = {} \/ (compaction'.move /\ compaction'.outs = in[1])
  BY <1>2 DEF NoCompaction
<1>5. UNCHANGED <<up, tables, manifest, current, pinned, nextFile,
                  pendingOutputs>> /\ flush' = flush
  BY DEF StartCompaction, diskVars, fileVars, readVars
<1>6. in[1] \subseteq FilesOf(current)
  BY <1>1, <1>3, VersionFiles
<1> HIDE DEF StartCompaction
<1>7. InUse' \subseteq InUse
  BY <1>4, <1>5, <1>6 DEF InUse, HeldFiles
<1>8. ~compaction'.move => nums(compaction'.outs) \subseteq pendingOutputs'
  BY <1>4 DEF nums
<1>9. nums(compaction'.outs) \cap nums(flush'.files) = {}
  BY <1>1, <1>5, NothingType DEF nums
<1> QED
  BY ONLY Base, FilesInv, <1>1, <1>5, <1>7, <1>8, <1>9, FilesFrame
  DEF FilesInv

\* A step that deletes what is not used by version v, a reader, or the
\* outputs that are pending.
LEMMA DeleteKeepsFiles ==
  ASSUME Base, FilesInv, up # "down", InUse' \subseteq InUse, nextFile' = nextFile,
         \/ manifest' = manifest
         \/ /\ manifest'.next = nextFile
            /\ FilesOf(manifest'.files) \subseteq InUse',
         \/ compaction'.outs = {}
         \/ compaction' = compaction /\ pendingOutputs' = pendingOutputs,
         flush'.files = {},
         NEW v, NEW log \in Nat, NEW pending,
         UNCHANGED tables \/ DeleteObsoleteFiles(v, log, pending),
         \A f \in InUse' : \/ f \in FilesOf(v) \/ f.num \in pending
                           \/ f \in HeldFiles
  PROVE  FilesInv'
<1>1. InUse' \subseteq tables'
  <2>1. InUse' \subseteq tables
    BY DEF FilesInv
  <2>2. CASE tables' = tables
    BY <2>1, <2>2
  <2>3. CASE DeleteObsoleteFiles(v, log, pending)
    <3>1. \A t \in tables :
            t \in FilesOf(v) \/ t.num \in pending \/ (\E p \in pinned : t \in FilesOf(p))
              => t \in tables'
      BY <2>3, DeleteType DEF Base, TypeOK
    <3> QED
      BY <2>1, <3>1 DEF HeldFiles
  <2> QED
    BY <2>2, <2>3
<1>2. \A f \in InUse' : f.num < nextFile'
  BY DEF FilesInv
<1>3. \A f \in FilesOf(manifest'.files) : f.num < manifest'.next
  BY <1>2 DEF FilesInv
<1>4. ~compaction'.move => nums(compaction'.outs) \subseteq pendingOutputs'
  BY DEF FilesInv, nums
<1>5. nums(compaction'.outs) \cap nums(flush'.files) = {}
  BY DEF nums
<1> QED
  BY <1>1, <1>2, <1>3, <1>4, <1>5 DEF FilesInv

LEMMA InstallFlushKeepsFiles == Base /\ FilesInv /\ InstallFlush => FilesInv'
<1> SUFFICES ASSUME Base, FilesInv, InstallFlush
             PROVE  FilesInv'
  OBVIOUS
<1>1. /\ up # "down" /\ ~compaction.move /\ manifest.log \in Nat
  BY NothingType DEF InstallFlush, Base, TypeOK, Phases, Working, ManifestOK
<1>2. /\ current' = manifest.files /\ flush'.files = {}
      /\ UNCHANGED <<manifest, compaction, pendingOutputs, nextFile>>
      /\ pinned' = pinned
      /\ DeleteObsoleteFiles(manifest.files, manifest.log, pendingOutputs)
  BY NothingType DEF InstallFlush, readVars
<1>3. InUse' \subseteq InUse
  BY <1>2 DEF InUse, HeldFiles
<1>4. \A f \in InUse' : \/ f \in FilesOf(manifest.files) \/ f \in HeldFiles
                        \/ f \in compaction.outs
  BY <1>2 DEF InUse, HeldFiles
<1>5. \A f \in compaction.outs : f.num \in pendingOutputs
  BY <1>1 DEF FilesInv, nums
<1> QED
  BY ONLY Base, FilesInv, <1>1, <1>2, <1>3, <1>4, <1>5, DeleteKeepsFiles

LEMMA InstallCompactionKeepsFiles ==
  Base /\ FilesInv /\ InstallCompaction => FilesInv'
<1> SUFFICES ASSUME Base, FilesInv, InstallCompaction
             PROVE  FilesInv'
  OBVIOUS
<1>1. /\ up # "down" /\ flush = NoFlush /\ logNumber \in Nat
  BY NothingType DEF InstallCompaction, Base, TypeOK, Phases, Working
<1>2. /\ current' = manifest.files /\ flush'.files = {}
      /\ compaction'.outs = {}
      /\ UNCHANGED <<manifest, nextFile>> /\ pinned' = pinned
      /\ UNCHANGED tables \/ DeleteObsoleteFiles(manifest.files, logNumber, pendingOutputs')
  BY <1>1, NothingType DEF InstallCompaction, readVars
<1>3. InUse' \subseteq InUse
  BY <1>2 DEF InUse, HeldFiles
<1>4. \A f \in InUse' : \/ f \in FilesOf(manifest.files) \/ f \in HeldFiles
  BY <1>2 DEF InUse, HeldFiles
<1> QED
  BY ONLY Base, FilesInv, <1>1, <1>2, <1>3, <1>4, DeleteKeepsFiles

LEMMA FinishOpenKeepsFiles == Base /\ FilesInv /\ FinishOpen => FilesInv'
<1> SUFFICES ASSUME Base, FilesInv, FinishOpen
             PROVE  FilesInv'
  OBVIOUS
<1> DEFINE v == [current EXCEPT ![0] = @ \cup flush.files]
<1>1. /\ up # "down" /\ compaction = NoCompaction /\ logfile \in Nat
      /\ current \in Version
  BY DEF FinishOpen, Base, TypeOK, Phases
<1>2. FilesOf(v) = FilesOf(current) \cup flush.files
  BY <1>1, LevelsType, FilesOfAdded
<1>3. /\ manifest'.files = v /\ manifest'.next = nextFile
      /\ current' = v /\ flush'.files = {}
      /\ compaction'.outs = {} /\ nextFile' = nextFile /\ pinned' = pinned
      /\ DeleteObsoleteFiles(v, logfile, pendingOutputs)
  BY <1>1, NothingType DEF FinishOpen, LogEdit, readVars
<1> HIDE DEF v
<1>4. InUse' \subseteq InUse
  BY <1>2, <1>3 DEF InUse, HeldFiles
<1>5. \A f \in InUse' : f \in FilesOf(v) \/ f \in HeldFiles
  BY <1>2, <1>3 DEF InUse, HeldFiles
<1>6. FilesOf(manifest'.files) \subseteq InUse'
  BY DEF InUse
<1> QED
  BY ONLY Base, FilesInv, <1>1, <1>3, <1>4, <1>5, <1>6, DeleteKeepsFiles

LEMMA CrashKeepsFiles == Base /\ FilesInv /\ Crash => FilesInv'
<1> SUFFICES ASSUME Base, FilesInv, Crash
             PROVE  FilesInv'
  OBVIOUS
<1>1. /\ UNCHANGED <<tables, manifest>> /\ up' = "down"
      /\ current' = EmptyVersion /\ pinned' = {}
      /\ compaction'.outs = {} /\ flush'.files = {}
  BY NothingType DEF Crash
<1>2. FilesOf(current') = {}
  BY <1>1, EmptyVersionType
<1>3. InUse' = FilesOf(manifest.files)
  BY <1>1, <1>2 DEF InUse, HeldFiles
<1>4. FilesOf(manifest.files) \subseteq InUse
  BY DEF InUse
<1> QED
  BY <1>1, <1>3, <1>4 DEF FilesInv, nums

LEMMA RecoverKeepsFiles == Base /\ FilesInv /\ Recover => FilesInv'
<1> SUFFICES ASSUME Base, FilesInv, Recover
             PROVE  FilesInv'
  OBVIOUS
<1>1. /\ manifest.next < replay.next /\ replay.next \in Nat
      /\ replay.files \in Files
      /\ \A f \in replay.files : manifest.next < f.num /\ f.num < replay.next
      /\ flush' = [pc |-> "open", files |-> replay.files, level |-> 0]
      /\ tables' = written(replay.files)
      /\ nextFile' = replay.next + 1 /\ current' = manifest.files
      /\ UNCHANGED <<manifest, pinned, compaction>> /\ up = "down"
  BY RecoverFacts
<1>2. /\ compaction = NoCompaction /\ pinned = {} /\ manifest.files \in Version
      /\ manifest.next \in Nat /\ tables \in SUBSET File
  BY <1>1 DEF Base, Phases, TypeOK, ManifestOK
<1>3. InUse' = FilesOf(manifest.files) \cup replay.files
  BY <1>1, <1>2, NothingType DEF InUse, HeldFiles
<1>4. \A f \in FilesOf(manifest.files) : /\ f \in tables /\ f.num < manifest.next
                                         /\ f.num \in Nat
  BY <1>2, VersionFiles DEF FilesInv, InUse, File
<1>5. \A f \in replay.files : f \in File /\ f.num \in Nat
  BY <1>1 DEF Files, File
<1>6. \A f \in FilesOf(manifest.files) : f.num \notin nums(replay.files)
  BY <1>1, <1>2, <1>4, <1>5 DEF nums
<1>7. InUse' \subseteq tables'
  <2>1. replay.files \in SUBSET File
    BY <1>5
  <2> QED
    BY <1>1, <1>2, <1>3, <1>4, <1>6, <2>1, WrittenType
<1>8. \A f \in InUse' : f.num < nextFile'
  BY <1>1, <1>2, <1>3, <1>4, <1>5
<1>9. \A f \in FilesOf(manifest'.files) : f.num < manifest'.next
  BY <1>1, <1>4
<1>10. compaction'.outs = {}
  BY <1>1, <1>2, NothingType
<1> QED
  BY <1>7, <1>8, <1>9, <1>10 DEF FilesInv, nums

LEMMA InitFiles == Init => FilesInv
<1> SUFFICES ASSUME Init
             PROVE  FilesInv
  OBVIOUS
<1>1. InUse = {} /\ FilesOf(manifest.files) = {}
  BY EmptyVersionType, NothingType DEF Init, InUse, HeldFiles
<1>2. compaction.outs = {}
  BY NothingType DEF Init
<1> QED
  BY <1>1, <1>2 DEF FilesInv, nums

LEMMA NextFiles == Base /\ FilesInv /\ [Next]_vars => FilesInv'
BY OthersKeepFiles, StartFlushKeepsFiles, LogEditKeepsFiles,
   InstallFlushKeepsFiles, StartCompactionKeepsFiles, WriteOutputKeepsFiles,
   InstallCompactionKeepsFiles, CrashKeepsFiles, RecoverKeepsFiles,
   FinishOpenKeepsFiles
DEF Next, Background, SizeCompaction, OtherCompaction

\* No file in use is ever deleted or overwritten: each file of the current
\* version, of one a reader holds, of a compaction under way or of the
\* MANIFEST is there, whatever DeleteObsoleteFiles takes away between the
\* steps of the others, and whatever number a table written after a crash
\* is given (db_impl.cc:218).
THEOREM FilesSafe == Spec => []FilesInUseExist
<1>1. Init => Base /\ FilesInv
  BY InitBase, InitFiles
<1>2. Base /\ FilesInv /\ [Next]_vars => (Base /\ FilesInv)'
  BY NextBase, NextFiles
<1>3. FilesInv => FilesInUseExist
  BY DEF FilesInv, InUse, HeldFiles, FilesInUseExist
<1> QED
  BY <1>1, <1>2, <1>3, PTL DEF Spec

-----------------------------------------------------------------------------
(* What a crash may take *)

\* The group that is in the log but not answered is its last record.
Pending(n, i) == logged > 0 /\ n = logfile /\ i = Len(logs[n].recs)

InLogs(e) ==
  \E n \in needed : \E i \in 1 .. Len(logs[n].recs) : e \in logs[n].recs[i]

\* What was promised is in the tables the MANIFEST names or in a log it
\* counts on; what was promised for good is in a synced part of the log.
\* The group in the log has numbers of its own, and no writer that asked
\* for a sync if its leader did not.
Promised ==
  /\ synced \subseteq committed
  /\ \A e \in committed : e.seq <= manifest.last \/ InLogs(e)
  /\ \A n \in needed : \A i \in 1 .. Len(logs[n].recs) :
       \A e \in logs[n].recs[i] : e \in synced => i <= logs[n].synced

Numbered ==
  /\ manifest.last <= lastSequence
  /\ \A e \in committed : e.seq <= lastSequence
  /\ \A n \in needed : \A i \in 1 .. Len(logs[n].recs) :
       ~Pending(n, i) => \A e \in logs[n].recs[i] : e.seq <= lastSequence

Grouped ==
  logged > 0 => LET recs == logs[logfile].recs
                IN  /\ Len(recs) > 0 /\ recs[Len(recs)] = entriesOf(logged)
                    /\ \A i \in 1 .. logged : writers[i].sync => writers[1].sync

SyncInv == Promised /\ Grouped /\ (up # "down" => Numbered)

\* The records of a log and their entries.
LEMMA LogMembers ==
  ASSUME LogsOK, NEW n \in DOMAIN logs
  PROVE  /\ logs[n].recs \in Seq(Table) /\ Len(logs[n].recs) \in Nat
         /\ logs[n].synced \in Nat /\ logs[n].synced <= Len(logs[n].recs)
         /\ \A i \in 1 .. Len(logs[n].recs) : logs[n].recs[i] \in Table
         /\ \A e : e \in Entries(logs[n].recs)
                     <=> \E i \in 1 .. Len(logs[n].recs) : e \in logs[n].recs[i]
         /\ Entries(logs[n].recs) \in EntrySets
<1>1. logs[n].recs \in Seq(Table) /\ logs[n].synced \in Nat
      /\ logs[n].synced <= Len(logs[n].recs)
  BY DEF LogsOK, Log
<1>2. Len(logs[n].recs) \in Nat /\ DOMAIN logs[n].recs = 1 .. Len(logs[n].recs)
      /\ \A i \in 1 .. Len(logs[n].recs) : logs[n].recs[i] \in Table
  BY <1>1
<1>3. \A e : e \in Entries(logs[n].recs)
               <=> \E i \in 1 .. Len(logs[n].recs) : e \in logs[n].recs[i]
  BY <1>2 DEF Entries, ToSet
<1> QED
  BY <1>1, <1>2, <1>3, EntriesType

\* A step that leaves what the logs hold, the group and the promises.
LEMMA SyncFrame ==
  ASSUME Base, Base', SyncInv, up # "down", up' # "down",
         UNCHANGED <<lastSequence, committed, synced, logged, logfile>>,
         logged > 0 => /\ entriesOf(logged)' = entriesOf(logged)
                       /\ \A i \in 1 .. logged : writers'[i] = writers[i],
         needed' \subseteq needed, \A n \in needed' : logs'[n] = logs[n],
         \/ manifest'.last = lastSequence
         \/ manifest'.last = manifest.last /\ needed \subseteq needed'
  PROVE  SyncInv'
<1>1. Promised /\ Grouped /\ Numbered
  BY DEF SyncInv
<1>2. \A n \in needed' : \A i : Pending(n, i)' <=> Pending(n, i)
  BY DEF Pending
<1>3. Promised'
  <2>1. ASSUME NEW e \in committed'
        PROVE  e.seq <= manifest'.last \/ InLogs(e)'
    <3>1. CASE manifest'.last = lastSequence
      BY <1>1, <3>1 DEF Numbered
    <3>2. CASE manifest'.last = manifest.last /\ needed \subseteq needed'
      BY <1>1, <3>2 DEF Promised, InLogs
    <3> QED
      BY <3>1, <3>2
  <2> QED
    BY <1>1, <2>1 DEF Promised
<1>4. Numbered'
  <2>1. manifest'.last <= lastSequence'
    BY <1>1 DEF Numbered, Base, TypeOK
  <2> QED
    BY <1>1, <1>2, <2>1 DEF Numbered
<1>5. Grouped'
  <2> SUFFICES ASSUME logged' > 0
               PROVE  LET recs == logs'[logfile'].recs
                      IN  /\ Len(recs) > 0 /\ recs[Len(recs)] = entriesOf(logged)'
                          /\ \A i \in 1 .. logged' : writers'[i].sync => writers'[1].sync
    BY DEF Grouped
  <2>1. logfile \in needed' /\ logfile' = logfile /\ logged' = logged
    BY DEF Base, Numbers, needed
  <2>2. logs'[logfile].recs = logs[logfile].recs
    BY <2>1
  <2>3. logged \in Nat /\ 1 \in 1 .. logged
    BY <2>1 DEF Base, TypeOK
  <2> QED
    BY <1>1, <2>1, <2>2, <2>3 DEF Grouped
<1> QED
  BY <1>3, <1>4, <1>5 DEF SyncInv

\* The entries of a group depend on the writers in it.
LEMMA SameGroup ==
  ASSUME \A i \in 1 .. logged : writers'[i] = writers[i],
         lastSequence' = lastSequence, logged' = logged
  PROVE  entriesOf(logged)' = entriesOf(logged)
BY DEF entriesOf

\* The steps that do not touch the logs.
LEMMA OthersKeepPromises ==
  ASSUME Base, Base', SyncInv, up # "down", up' # "down",
         UNCHANGED <<lastSequence, committed, synced, logged, logfile, logs>>,
         \A i \in 1 .. logged : writers'[i] = writers[i],
         \/ manifest' = manifest
         \/ manifest'.last = lastSequence /\ manifest.log <= manifest'.log
  PROVE  SyncInv'
<1>1. logged > 0 => /\ entriesOf(logged)' = entriesOf(logged)
                    /\ \A i \in 1 .. logged : writers'[i] = writers[i]
  BY SameGroup
<1>2. needed' \subseteq needed /\ (manifest' = manifest => needed \subseteq needed')
  <2>1. /\ manifest.log \in Nat /\ manifest'.log \in Nat
        /\ DOMAIN logs \subseteq Nat /\ manifest.log <= manifest'.log
    <3>1. manifest.log \in Nat /\ DOMAIN logs \subseteq Nat
      BY DEF Base, TypeOK, ManifestOK, LogsOK
    <3>2. manifest'.log \in Nat
      BY DEF Base, TypeOK, ManifestOK
    <3>3. manifest.log <= manifest'.log
      BY <3>1
    <3> QED
      BY ONLY <3>1, <3>2, <3>3
  <2>2. needed' \subseteq needed
    BY ONLY <2>1, logs' = logs DEF needed
  <2>3. manifest' = manifest => needed' = needed
    BY ONLY logs' = logs DEF needed
  <2> QED
    BY ONLY <2>2, <2>3
<1>3. \A n \in needed' : logs'[n] = logs[n]
  OBVIOUS
<1> QED
  BY <1>1, <1>2, <1>3, SyncFrame

LEMMA WriteKeepsPromises ==
  ASSUME Base, Base', SyncInv, Write
  PROVE  SyncInv'
<1>1. /\ up # "down" /\ up' # "down" /\ manifest' = manifest
      /\ UNCHANGED <<lastSequence, committed, synced, logged, logfile, logs>>
  BY DEF Write, diskVars, historyVars
<1>2. \A i \in 1 .. logged : writers'[i] = writers[i]
  <2>1. PICK c \in Calls : writers' = Append(writers, c)
    BY DEF Write
  <2>2. writers \in Seq(Calls) /\ logged \in 0 .. Len(writers)
    BY DEF Base, TypeOK
  <2> QED
    BY <2>1, <2>2
<1> QED
  BY <1>1, <1>2, OthersKeepPromises

LEMMA RefuseWriteKeepsPromises ==
  ASSUME Base, Base', SyncInv, RefuseWrite
  PROVE  SyncInv'
<1>1. /\ up # "down" /\ up' # "down" /\ manifest' = manifest /\ logged = 0
      /\ UNCHANGED <<lastSequence, committed, synced, logged, logfile, logs>>
  BY DEF RefuseWrite, Leading, diskVars, historyVars
<1>2. \A i \in 1 .. logged : writers'[i] = writers[i]
  BY <1>1
<1> QED
  BY <1>1, <1>2, OthersKeepPromises

LEMMA ThreadKeepsPromises ==
  ASSUME Base, Base', SyncInv,
         StartFlush \/ LogFlush \/ WriteOutput \/ LogCompaction \/ Reader
         \/ (\E level \in CompactableLevels : \E f \in current[level] :
               StartCompaction(level, f))
  PROVE  SyncInv'
<1>1. CASE Reader
  <2> USE <1>1 DEF Reader, GetSnapshot, ReleaseSnapshot, Pin, Unpin, diskVars,
                   writeVars, historyVars
  <2>1. UNCHANGED <<up, lastSequence, committed, synced, logged, logfile,
                    logs, manifest, writers>>
    OBVIOUS
  <2>2. CASE up = "down"
    <3>1. snapshots = {} /\ pinned = {}
      BY <2>2 DEF Base, Phases
    <3>2. FALSE
      BY <2>2, <3>1
    <3> QED
      BY <3>2
  <2> QED
    BY ONLY Base, Base', SyncInv, <2>1, <2>2, OthersKeepPromises
<1>2. CASE StartFlush
  BY <1>2, OthersKeepPromises DEF StartFlush, CanStartFlush, writeVars, historyVars
<1>3. CASE LogFlush
  <2>1. /\ up # "down" /\ up' # "down"
        /\ UNCHANGED <<lastSequence, committed, synced, logged, logfile,
                       logs, writers>>
    <3>1. flush.pc = "build" /\ up' = up
      BY <1>3 DEF LogFlush
    <3>2. up # "down"
      BY <3>1, NothingType DEF Base, Phases
    <3>3. UNCHANGED <<lastSequence, committed, synced, logged, logfile,
                      logs, writers>>
      BY <1>3 DEF LogFlush, writeVars, historyVars
    <3> QED
      BY <3>1, <3>2, <3>3
  <2>2. manifest'.last = lastSequence /\ manifest'.log = logfile
    <3>1. PICK l \in PickLevelForMemTableOutput(current, minKey(flush.files),
                                                maxKey(flush.files)) :
            LogEdit([current EXCEPT ![l] = @ \cup flush.files], logfile)
      BY <1>3 DEF LogFlush
    <3> QED
      BY <3>1 DEF LogEdit
  <2>3. manifest.log <= logfile
    BY <2>1 DEF Base, Numbers
  <2> QED
    BY <2>1, <2>2, <2>3, OthersKeepPromises
<1>4. CASE WriteOutput
  BY <1>4, OthersKeepPromises, NothingType
  DEF WriteOutput, writeVars, historyVars, Base, Phases
<1>5. CASE LogCompaction
  <2>1. /\ up # "down" /\ up' # "down" /\ flush.pc # "install"
        /\ UNCHANGED <<lastSequence, committed, synced, logged, logfile,
                       logs, writers>>
    BY <1>5, NothingType
    DEF LogCompaction, writeVars, historyVars, Base, Phases
  <2>2. manifest'.last = lastSequence /\ manifest'.log = logNumber
    BY <1>5 DEF LogCompaction, LogEdit
  <2>3. manifest.log <= logNumber
    BY <2>1 DEF Base, Numbers, TypeOK
  <2> QED
    BY <2>1, <2>2, <2>3, OthersKeepPromises
<1>6. CASE \E level \in CompactableLevels : \E f \in current[level] :
             StartCompaction(level, f)
  <2>1. PICK level \in CompactableLevels : \E f \in current[level] :
               StartCompaction(level, f)
    BY <1>6
  <2>2. PICK f \in current[level] : StartCompaction(level, f)
    BY <2>1
  <2>3. /\ up # "down" /\ up' # "down" /\ manifest' = manifest
        /\ UNCHANGED <<lastSequence, committed, synced, logged, logfile,
                       logs, writers>>
    BY <2>2 DEF StartCompaction, CanCompact, diskVars, writeVars
  <2> QED
    BY <2>3, OthersKeepPromises
<1> QED
  BY <1>1, <1>2, <1>3, <1>4, <1>5, <1>6

\* The deletion of logs spares those the MANIFEST counts on.
LEMMA DeleteKeepsPromises ==
  ASSUME Base, Base', SyncInv, up # "down", up' # "down",
         UNCHANGED <<lastSequence, committed, synced, logged, logfile, writers>>,
         NEW v, NEW pending, NEW log \in Nat, log = manifest'.log,
         \/ DeleteObsoleteFiles(v, log, pending) \/ UNCHANGED <<tables, logs>>,
         \/ manifest' = manifest
         \/ manifest'.last = lastSequence /\ manifest.log <= manifest'.log
  PROVE  SyncInv'
<1>1. LogsOK /\ tables \in SUBSET File /\ manifest.log \in Nat
  BY DEF Base, TypeOK, ManifestOK
<1>2. /\ DOMAIN logs' \subseteq DOMAIN logs
      /\ \A n \in DOMAIN logs : n >= log => n \in DOMAIN logs'
      /\ \A n \in DOMAIN logs' : logs'[n] = logs[n]
  BY <1>1, DeleteType
<1>3. needed' \subseteq needed /\ (manifest' = manifest => needed \subseteq needed')
  BY <1>1, <1>2 DEF needed, LogsOK
<1>4. \A n \in needed' : logs'[n] = logs[n]
  BY <1>2 DEF needed
<1>5. logged > 0 => /\ entriesOf(logged)' = entriesOf(logged)
                    /\ \A i \in 1 .. logged : writers'[i] = writers[i]
  BY SameGroup
<1> QED
  BY <1>3, <1>4, <1>5, SyncFrame

LEMMA InstallKeepsPromises ==
  ASSUME Base, Base', SyncInv, InstallFlush \/ InstallCompaction \/ FinishOpen
  PROVE  SyncInv'
<1>1. CASE InstallFlush
  <2>1. /\ up # "down" /\ up' # "down" /\ manifest' = manifest
        /\ UNCHANGED <<lastSequence, committed, synced, logged, logfile, writers>>
        /\ manifest.log \in Nat
        /\ DeleteObsoleteFiles(manifest.files, manifest.log, pendingOutputs)
    BY <1>1, NothingType
    DEF InstallFlush, historyVars, Base, Phases, TypeOK, ManifestOK
  <2> QED
    BY ONLY Base, Base', SyncInv, <2>1, DeleteKeepsPromises
<1>2. CASE InstallCompaction
  <2>1. /\ up # "down" /\ up' # "down" /\ manifest' = manifest
        /\ UNCHANGED <<lastSequence, committed, synced, logged, logfile, writers>>
        /\ flush = NoFlush
    BY <1>2, NothingType
    DEF InstallCompaction, historyVars, Base, Phases, Working
  <2>2. logNumber = manifest.log /\ manifest.log \in Nat
    BY <2>1, NothingType DEF Base, Numbers, TypeOK, ManifestOK
  <2>3. \/ DeleteObsoleteFiles(manifest.files, manifest.log, pendingOutputs')
        \/ UNCHANGED <<tables, logs>>
    BY <1>2, <2>2 DEF InstallCompaction
  <2> QED
    BY ONLY Base, Base', SyncInv, <2>1, <2>2, <2>3, DeleteKeepsPromises
<1>3. CASE FinishOpen
  <2> DEFINE w == [current EXCEPT ![0] = @ \cup flush.files]
  <2>1. /\ up = "opening" /\ up' = "up" /\ logfile \in Nat
        /\ UNCHANGED <<lastSequence, committed, synced, logged, logfile, writers>>
        /\ manifest'.log = logfile /\ manifest'.last = lastSequence
        /\ manifest'.files = w /\ current' = w
    BY <1>3 DEF FinishOpen, LogEdit, historyVars, Base, TypeOK
  <2>2. DeleteObsoleteFiles(w, logfile, pendingOutputs)
    BY <1>3, <2>1 DEF FinishOpen
  <2>3. manifest.log <= logfile
    BY <2>1 DEF Base, Numbers
  <2> HIDE DEF w
  <2> QED
    BY ONLY Base, Base', SyncInv, <2>1, <2>2, <2>3, DeleteKeepsPromises
<1> QED
  BY <1>1, <1>2, <1>3

\* A new log is empty.
LEMMA NewLog ==
  ASSUME Base, NEW n \in Nat \ {0}, \A m \in DOMAIN logs : m < n,
         logs' = withLog(n), manifest' = manifest
  PROVE  /\ needed' = needed \cup {n} /\ n \notin DOMAIN logs
         /\ \A m \in needed : logs'[m] = logs[m]
         /\ Len(logs'[n].recs) = 0
<1>1. LogsOK /\ manifest.log \in Nat /\ \A m \in DOMAIN logs : m \in Nat
  BY DEF Base, TypeOK, ManifestOK, LogsOK
<1>2. /\ DOMAIN logs' = DOMAIN logs \cup {n} /\ n \notin DOMAIN logs
      /\ logs'[n] = EmptyLog /\ EmptyLog.recs = <<>>
      /\ \A m \in DOMAIN logs \ {n} : logs'[m] = logs[m]
  <2>1. n \notin DOMAIN logs
    BY n < n \/ ~(n < n)
  <2>2. /\ DOMAIN logs' = DOMAIN logs \cup {n}
        /\ logs'[n] = EmptyLog /\ EmptyLog.recs = <<>>
        /\ \A m \in DOMAIN logs \ {n} : logs'[m] = logs[m]
    BY ONLY <1>1, WithLogType, n \in Nat \ {0}, logs' = withLog(n)
  <2> QED
    BY <2>1, <2>2
<1>3. needed # {} /\ n >= manifest.log
  BY <1>1 DEF Base, Numbers, needed
<1> QED
  BY <1>1, <1>2, <1>3 DEF needed

LEMMA SwitchKeepsPromises ==
  ASSUME Base, Base', SyncInv, SwitchMemTable
  PROVE  SyncInv'
<1>1. /\ logged = 0 /\ logged' = 0 /\ up # "down" /\ manifest' = manifest
      /\ UNCHANGED <<lastSequence, committed, synced>>
      /\ logs' = withLog(nextFile)
  BY DEF SwitchMemTable, Leading, historyVars
<1>2. nextFile \in Nat \ {0} /\ \A m \in DOMAIN logs : m < nextFile
  BY <1>1 DEF Base, TypeOK, LogsOK, Numbers
<1>3. /\ needed' = needed \cup {nextFile}
      /\ \A m \in needed : logs'[m] = logs[m]
      /\ Len(logs'[nextFile].recs) = 0
  BY <1>1, <1>2, NewLog
<1>4. \A i : ~(i \in 1 .. Len(logs'[nextFile].recs))
  BY <1>3
<1>5. Promised /\ Numbered
  BY <1>1 DEF SyncInv
<1>6. Promised'
  <2>1. \A e : InLogs(e) => InLogs(e)'
    BY <1>3 DEF InLogs
  <2> QED
    BY <1>1, <1>3, <1>4, <1>5, <2>1 DEF Promised
<1>7. Numbered'
  BY <1>1, <1>3, <1>4, <1>5 DEF Numbered, Pending
<1>8. Grouped'
  BY <1>1 DEF Grouped
<1> QED
  BY <1>6, <1>7, <1>8 DEF SyncInv

\* BuildBatchGroup and AddRecord.
LEMMA LogGroupKeepsPromises ==
  ASSUME Base, Base', SyncInv, LogGroup
  PROVE  SyncInv'
<1>1. /\ logged = 0 /\ up = "up" /\ up' = "up" /\ LogsOK /\ manifest' = manifest
      /\ UNCHANGED <<lastSequence, committed, synced, logfile, writers>>
  BY DEF LogGroup, Leading, historyVars, Base, TypeOK
<1>2. PICK n \in groupSizes :
        /\ logged' = n
        /\ logs' = [logs EXCEPT ![logfile].recs = Append(@, entriesOf(n))]
  BY DEF LogGroup
<1>3. n \in 1 .. Len(writers) /\ n > 0
      /\ \A i \in 2 .. n : writers[i].sync => writers[1].sync
  BY DEF groupSizes
<1>4. logfile \in DOMAIN logs /\ logfile \in needed
  BY <1>1 DEF Base, Numbers, needed
<1> DEFINE l == logs[logfile]
<1>5. l.recs \in Seq(Table) /\ Len(l.recs) \in Nat
      /\ entriesOf(n) \in Table
  BY <1>1, <1>3, <1>4, LogMembers, EntriesOfType DEF Base, TypeOK
<1>6. /\ DOMAIN logs' = DOMAIN logs
      /\ \A m \in DOMAIN logs : m # logfile => logs'[m] = logs[m]
      /\ logs'[logfile].recs = Append(l.recs, entriesOf(n))
      /\ logs'[logfile].synced = l.synced
  <2>1. l \in Log
    BY <1>1, <1>4 DEF LogsOK
  <2>2. logs' = [logs EXCEPT ![logfile] = [l EXCEPT !.recs = Append(@, entriesOf(n))]]
    BY <1>2
  <2>3. [l EXCEPT !.recs = Append(@, entriesOf(n))]
          = [recs |-> Append(l.recs, entriesOf(n)), synced |-> l.synced]
    BY <2>1, LogFields
  <2> QED
    BY <1>1, <1>4, <2>2, <2>3 DEF LogsOK
<1>7. /\ Len(logs'[logfile].recs) = Len(l.recs) + 1
      /\ logs'[logfile].recs[Len(l.recs) + 1] = entriesOf(n)
      /\ \A i \in 1 .. Len(l.recs) : logs'[logfile].recs[i] = l.recs[i]
  BY <1>5, <1>6, AppendProperties
<1>8. needed' = needed
  BY <1>1, <1>6 DEF needed
<1>9. ASSUME NEW m \in needed, NEW i \in 1 .. Len(logs'[m].recs)
      PROVE  \/ m = logfile /\ i = Len(logs'[m].recs)
                /\ logs'[m].recs[i] = entriesOf(n)
             \/ /\ i \in 1 .. Len(logs[m].recs) /\ logs'[m].recs[i] = logs[m].recs[i]
                /\ ~Pending(m, i)' /\ logs'[m].synced = logs[m].synced
  <2>1. CASE m # logfile
    BY <1>1, <1>6, <2>1 DEF needed, Pending
  <2>2. CASE m = logfile /\ i = Len(logs'[m].recs)
    BY <1>7, <2>2
  <2>3. CASE m = logfile /\ i # Len(logs'[m].recs)
    <3>1. i \in 1 .. Len(l.recs)
      BY <1>5, <1>7, <2>3
    <3> QED
      BY <1>6, <1>7, <2>3, <3>1 DEF Pending
  <2> QED
    BY <2>1, <2>2, <2>3
<1>10. Promised /\ Numbered
  BY <1>1 DEF SyncInv
<1>11. \A e \in entriesOf(n) : e.seq \in Nat /\ e.seq > lastSequence
  BY <1>3, <1>5, EntriesOfType DEF Base, TypeOK, Table, EntrySets, Entry
<1>12. \A e \in entriesOf(n) : e \notin committed
  BY <1>10, <1>11, SMTT(30) DEF Numbered, Base, TypeOK
<1>13. Promised'
  <2>1. ASSUME NEW e, InLogs(e)
        PROVE  InLogs(e)'
    <3>1. PICK m \in needed : \E i \in 1 .. Len(logs[m].recs) : e \in logs[m].recs[i]
      BY <2>1 DEF InLogs
    <3>2. PICK i \in 1 .. Len(logs[m].recs) : e \in logs[m].recs[i]
      BY <3>1
    <3>3. i \in 1 .. Len(logs'[m].recs) /\ logs'[m].recs[i] = logs[m].recs[i]
      <4>1. CASE m # logfile
        BY <1>6, <4>1 DEF needed
      <4>2. CASE m = logfile
        BY <1>5, <1>7, <4>2
      <4> QED
        BY <4>1, <4>2
    <3> QED
      BY <1>8, <3>2, <3>3 DEF InLogs
  <2>2. ASSUME NEW m \in needed', NEW i \in 1 .. Len(logs'[m].recs),
               NEW e \in logs'[m].recs[i], e \in synced
        PROVE  i <= logs'[m].synced
    BY <1>8, <1>9, <1>10, <1>12, <2>2 DEF Promised
  <2> QED
    BY <1>1, <1>10, <2>1, <2>2 DEF Promised
<1>14. Numbered'
  <2>1. \A m \in needed' : \A i \in 1 .. Len(logs'[m].recs) :
          ~Pending(m, i)' => \A e \in logs'[m].recs[i] : e.seq <= lastSequence
    <3>1. \A m, i : ~Pending(m, i)
      BY <1>1 DEF Pending
    <3>2. \A m, i : m = logfile /\ i = Len(logs'[m].recs) => Pending(m, i)'
      BY <1>1, <1>2, <1>3 DEF Pending
    <3>3. SUFFICES ASSUME NEW m \in needed, NEW i \in 1 .. Len(logs'[m].recs),
                          ~Pending(m, i)', NEW e \in logs'[m].recs[i]
                   PROVE  e.seq <= lastSequence
      BY <1>8
    <3>4. i \in 1 .. Len(logs[m].recs) /\ logs'[m].recs[i] = logs[m].recs[i]
      BY <1>9, <3>2, <3>3
    <3>5. e \in logs[m].recs[i]
      BY <3>3, <3>4
    <3> QED
      BY <1>10, <3>1, <3>4, <3>5 DEF Numbered
  <2> QED
    BY <1>1, <1>10, <2>1 DEF Numbered
<1>15. Grouped'
  <2>1. \A i \in 1 .. n : i = 1 \/ i \in 2 .. n
    BY <1>3
  <2>2. entriesOf(logged)' = entriesOf(n)
    BY <1>1, <1>2 DEF entriesOf
  <2> QED
    BY <1>1, <1>2, <1>3, <1>5, <1>7, <2>1, <2>2 DEF Grouped
<1> QED
  BY <1>13, <1>14, <1>15 DEF SyncInv

\* logfile_->Sync().
LEMMA SyncLogKeepsPromises ==
  ASSUME Base, Base', SyncInv, SyncLog
  PROVE  SyncInv'
<1>1. /\ up = "up" /\ up' = "up" /\ LogsOK /\ manifest' = manifest
      /\ UNCHANGED <<lastSequence, committed, synced, logged, logfile, writers>>
  BY DEF SyncLog, writeVars, historyVars, Base, TypeOK, Phases
<1>2. logfile \in DOMAIN logs
  BY <1>1 DEF Base, Numbers
<1> DEFINE l == logs[logfile]
<1>3. /\ l.recs \in Seq(Table) /\ Len(l.recs) \in Nat
      /\ l.synced \in Nat /\ l.synced <= Len(l.recs)
  BY <1>1, <1>2, LogMembers
<1>4. /\ DOMAIN logs' = DOMAIN logs
      /\ \A m \in DOMAIN logs : m # logfile => logs'[m] = logs[m]
      /\ logs'[logfile].recs = l.recs
      /\ logs'[logfile].synced = Len(l.recs)
  <2>1. l \in Log
    BY <1>1, <1>2 DEF LogsOK
  <2>2. logs' = [logs EXCEPT ![logfile] = [l EXCEPT !.synced = Len(l.recs)]]
    BY DEF SyncLog
  <2>3. [l EXCEPT !.synced = Len(l.recs)] = [recs |-> l.recs, synced |-> Len(l.recs)]
    BY <2>1, LogFields
  <2> QED
    BY <1>1, <1>2, <2>2, <2>3 DEF LogsOK
<1>5. needed' = needed
  BY <1>1, <1>4 DEF needed
<1>6. \A m \in needed : /\ logs'[m].recs = logs[m].recs
                        /\ logs'[m].synced = logs[m].synced \/ m = logfile
  BY <1>4 DEF needed
<1>7. \A m \in needed : \A i : Pending(m, i)' <=> Pending(m, i)
  BY <1>1, <1>6 DEF Pending
<1>8. Promised /\ Numbered /\ Grouped
  BY <1>1 DEF SyncInv
<1>9. Promised'
  <2>1. \A e : InLogs(e) => InLogs(e)'
    BY <1>5, <1>6 DEF InLogs
  <2>2. \A i \in 1 .. Len(l.recs) : i <= Len(l.recs)
    BY <1>3
  <2>3. \A m \in needed' : \A i \in 1 .. Len(logs'[m].recs) :
          \A e \in logs'[m].recs[i] : e \in synced => i <= logs'[m].synced
    BY <1>4, <1>5, <1>6, <1>8, <2>2 DEF Promised
  <2> QED
    BY <1>1, <1>8, <2>1, <2>3 DEF Promised
<1>10. Numbered'
  BY <1>1, <1>5, <1>6, <1>7, <1>8 DEF Numbered
<1>11. Grouped'
  <2>1. entriesOf(logged)' = entriesOf(logged)
    BY <1>1, SameGroup
  <2> QED
    BY <1>1, <1>4, <1>8, <2>1 DEF Grouped
<1> QED
  BY <1>9, <1>10, <1>11 DEF SyncInv

\* The group is answered, applied or not: its numbers are used up.
LEMMA AnswerKeepsNumbers ==
  ASSUME Base, SyncInv, up # "down", logged > 0, answerGroup,
         UNCHANGED <<logs, manifest, logfile>>,
         \A e \in committed' : e \in committed \/ e \in entriesOf(logged)
  PROVE  Numbered' /\ Grouped'
<1>1. /\ logged \in 1 .. Len(writers) /\ lastSequence \in Nat /\ logged \in Nat
      /\ writers \in Seq(Calls)
  BY DEF Base, TypeOK
<1>2. lastSequence' = lastSequence + logged /\ logged' = 0
  BY DEF answerGroup
<1>3. Numbered /\ Grouped
  BY DEF SyncInv
<1>4. \A e \in entriesOf(logged) : e.seq <= lastSequence'
  BY <1>1, <1>2, EntriesOfType
<1>5. \A q \in Nat : q <= lastSequence => q <= lastSequence'
  BY <1>1, <1>2
<1>6. needed' = needed
  BY DEF needed
<1>7. ASSUME NEW m \in needed, NEW i \in 1 .. Len(logs[m].recs),
             NEW e \in logs[m].recs[i]
      PROVE  e.seq <= lastSequence'
  <2>1. CASE Pending(m, i)
    <3>1. logs[m].recs[i] = entriesOf(logged)
      BY <1>3, <2>1 DEF Grouped, Pending
    <3> QED
      BY <1>4, <3>1
  <2>2. CASE ~Pending(m, i)
    <3>1. e.seq <= lastSequence
      BY <1>3, <2>2 DEF Numbered
    <3>2. logs[m].recs[i] \in Table
      BY LogMembers DEF Base, TypeOK, needed
    <3>3. e.seq \in Nat
      BY <3>2 DEF Table, EntrySets, Entry
    <3> QED
      BY <1>5, <3>1, <3>3
  <2> QED
    BY <2>1, <2>2
<1>8. \A e \in committed : e.seq <= lastSequence'
  BY <1>3, <1>5 DEF Numbered, Base, TypeOK, Entry
<1>9. manifest.last <= lastSequence'
  BY <1>3, <1>5 DEF Numbered, Base, TypeOK, ManifestOK
<1>10. Numbered'
  BY <1>4, <1>6, <1>7, <1>8, <1>9 DEF Numbered
<1>11. Grouped'
  BY <1>2 DEF Grouped
<1> QED
  BY <1>10, <1>11

LEMMA FailSyncKeepsPromises ==
  ASSUME Base, SyncInv, FailSync
  PROVE  SyncInv'
<1>1. /\ up = "up" /\ logged > 0 /\ answerGroup
      /\ UNCHANGED <<logs, manifest, logfile, committed, synced>>
  BY DEF FailSync, diskVars, historyVars, Base, TypeOK, Phases
<1>2. Numbered' /\ Grouped'
  BY <1>1, AnswerKeepsNumbers
<1>3. Promised'
  BY <1>1 DEF SyncInv, Promised, InLogs, needed
<1> QED
  BY <1>2, <1>3 DEF SyncInv

\* The leader's sync covers the group it is answered with.
LEMMA FinishGroupKeepsPromises ==
  ASSUME Base, SyncInv, FinishGroup
  PROVE  SyncInv'
<1>1. /\ up = "up" /\ logged > 0 /\ answerGroup
      /\ UNCHANGED <<logs, manifest, logfile>>
      /\ committed' = committed \cup entriesOf(logged)
      /\ synced' = synced \cup {e \in entriesOf(logged) :
                                  writers[e.seq - lastSequence].sync}
      /\ Head(writers).sync => logSynced
  BY DEF FinishGroup, diskVars, Base, TypeOK, Phases
<1>2. Numbered' /\ Grouped'
  BY <1>1, AnswerKeepsNumbers
<1>3. /\ logged \in 1 .. Len(writers) /\ lastSequence \in Nat
      /\ writers \in Seq(Calls) /\ LogsOK
      /\ logfile \in DOMAIN logs /\ logfile \in needed
  BY <1>1 DEF Base, TypeOK, Numbers, needed
<1>4. Promised /\ Numbered /\ Grouped
  BY <1>1 DEF SyncInv
<1> DEFINE recs == logs[logfile].recs
<1>5. Len(recs) \in 1 .. Len(recs) /\ recs[Len(recs)] = entriesOf(logged)
  <2>1. Len(recs) \in Nat
    BY <1>3, LogMembers
  <2> QED
    BY <1>1, <1>4, <2>1 DEF Grouped
<1>6. \A e \in committed' : e.seq <= manifest'.last \/ InLogs(e)'
  <2>1. \A e : InLogs(e)' <=> InLogs(e)
    BY <1>1 DEF InLogs, needed
  <2>2. \A e \in entriesOf(logged) : InLogs(e)
    BY <1>3, <1>5 DEF InLogs
  <2> QED
    BY <1>1, <1>4, <2>1, <2>2 DEF Promised
<1>7. ASSUME NEW e \in entriesOf(logged), writers[e.seq - lastSequence].sync
      PROVE  logSynced
  <2>1. PICK i \in 1 .. logged : e.seq = lastSequence + i
    BY DEF entriesOf
  <2>2. e.seq - lastSequence = i
    BY <1>3, <2>1
  <2>3. writers[1].sync
    BY <1>1, <1>4, <1>7, <2>2 DEF Grouped
  <2>4. Head(writers) = writers[1]
    BY <1>3
  <2> QED
    BY <1>1, <2>3, <2>4
<1>8. ASSUME NEW m \in needed, NEW i \in 1 .. Len(logs[m].recs),
             NEW e \in logs[m].recs[i], e \in synced'
      PROVE  i <= logs[m].synced
  <2>1. CASE e \in synced
    BY <1>4, <2>1 DEF Promised
  <2>2. CASE e \notin synced
    <3>1. e \in entriesOf(logged) /\ logSynced
      BY <1>1, <1>7, <1>8, <2>2
    <3>2. e.seq \in Nat /\ lastSequence < e.seq
      BY <1>3, <3>1, EntriesOfType DEF Table, EntrySets, Entry
    <3>3. Pending(m, i)
      BY <1>3, <1>4, <3>2 DEF Numbered
    <3>4. i = Len(recs) /\ logs[m].synced = Len(recs) /\ Len(recs) \in Nat
      BY <1>5, <3>1, <3>3 DEF Pending, logSynced
    <3> QED
      BY <3>4
  <2> QED
    BY <2>1, <2>2
<1>9. synced' \subseteq committed'
  BY <1>1, <1>4 DEF Promised
<1>10. Promised'
  <2>1. needed' = needed
    BY <1>1 DEF needed
  <2> QED
    BY <1>1, <1>6, <1>8, <1>9, <2>1 DEF Promised
<1> QED
  BY <1>2, <1>10 DEF SyncInv

\* A crash takes nothing that was synced.
LEMMA CrashKeepsPromises ==
  ASSUME Base, SyncInv, Crash
  PROVE  SyncInv'
<1>1. LogsOK /\ up' = "down" /\ logged' = 0 /\ manifest' = manifest /\ synced' = synced
  BY DEF Crash, Base, TypeOK
<1>2. /\ LogsOK' /\ DOMAIN logs' = DOMAIN logs
      /\ \A n \in DOMAIN logs :
           /\ logs[n].synced <= logs'[n].synced
           /\ logs'[n].synced = Len(logs'[n].recs)
           /\ Len(logs'[n].recs) <= Len(logs[n].recs)
           /\ \A i \in 1 .. Len(logs'[n].recs) : logs'[n].recs[i] = logs[n].recs[i]
      /\ committed' = (committed \ UNION {Entries(logs[n].recs) : n \in needed})
                        \cup UNION {Entries(logs'[n].recs) : n \in needed}
  BY <1>1, CrashLogs
<1>3. needed' = needed /\ needed \subseteq DOMAIN logs
  BY <1>1, <1>2 DEF needed
<1>4. /\ \A e : InLogs(e) <=> e \in UNION {Entries(logs[n].recs) : n \in needed}
      /\ \A e : InLogs(e)' <=> e \in UNION {Entries(logs'[n].recs) : n \in needed}
  <2>1. \A n \in needed : \A e :
          /\ e \in Entries(logs[n].recs)
               <=> \E i \in 1 .. Len(logs[n].recs) : e \in logs[n].recs[i]
    BY <1>1, <1>3, LogMembers
  <2>2. \A n \in needed : \A e :
          /\ e \in Entries(logs'[n].recs)
               <=> \E i \in 1 .. Len(logs'[n].recs) : e \in logs'[n].recs[i]
    <3>1. \A n \in DOMAIN logs' : logs'[n].recs \in Seq(Table)
      BY <1>2 DEF LogsOK, Log
    <3>2. \A n \in DOMAIN logs' : DOMAIN (logs'[n].recs) = 1 .. Len(logs'[n].recs)
      BY <3>1
    <3> QED
      BY <1>2, <1>3, <3>2 DEF Entries, ToSet
  <2> QED
    BY <1>3, <2>1, <2>2 DEF InLogs
<1>5. Promised
  BY DEF SyncInv
<1>6. ASSUME NEW e \in synced
      PROVE  e \in committed'
  <2>1. CASE InLogs(e)
    <3>1. PICK n \in needed : \E i \in 1 .. Len(logs[n].recs) : e \in logs[n].recs[i]
      BY <2>1 DEF InLogs
    <3>2. PICK i \in 1 .. Len(logs[n].recs) : e \in logs[n].recs[i]
      BY <3>1
    <3>3. i <= logs[n].synced
      BY <1>5, <3>2 DEF Promised
    <3>4. n \in DOMAIN logs /\ logs[n].synced \in Nat
      BY <1>1, <1>3, LogMembers
    <3>5. logs'[n].synced \in Nat
      BY <1>2, <3>4 DEF LogsOK, Log
    <3>6. i \in 1 .. Len(logs'[n].recs) /\ e \in logs'[n].recs[i]
      BY <1>2, <3>2, <3>3, <3>4, <3>5
    <3>7. InLogs(e)'
      BY <1>3, <3>6 DEF InLogs
    <3> QED
      BY <1>2, <1>4, <3>7
  <2>2. CASE ~InLogs(e)
    BY <1>2, <1>4, <1>5, <2>2 DEF Promised
  <2> QED
    BY <2>1, <2>2
<1>7. \A e \in committed' : e.seq <= manifest'.last \/ InLogs(e)'
  BY <1>1, <1>2, <1>4, <1>5 DEF Promised
<1>8. \A n \in needed' : \A i \in 1 .. Len(logs'[n].recs) : i <= logs'[n].synced
  <2> SUFFICES ASSUME NEW n \in needed, NEW i \in 1 .. Len(logs'[n].recs)
               PROVE  i <= logs'[n].synced
    BY <1>3
  <2>1. logs'[n].synced = Len(logs'[n].recs) /\ logs'[n].synced \in Nat
    BY <1>2, <1>3 DEF LogsOK, Log
  <2> QED
    BY <2>1
<1>9. Promised'
  BY <1>1, <1>6, <1>7, <1>8 DEF Promised
<1>10. Grouped'
  BY <1>1 DEF Grouped
<1> QED
  BY <1>1, <1>9, <1>10 DEF SyncInv

\* Recovery finds every number that was promised.
LEMMA RecoverKeepsPromises ==
  ASSUME Base, SyncInv, Recover
  PROVE  SyncInv'
<1>1. /\ Replayed(replay, Max(DOMAIN logs))
      /\ \A n \in needed : n <= Max(DOMAIN logs)
      /\ \A n \in DOMAIN logs : n < replay.next
      /\ replay.next \in Nat \ {0} /\ replay.last \in Nat
      /\ lastSequence' = replay.last /\ logs' = withLog(replay.next)
      /\ UNCHANGED <<manifest, logged, committed, synced>> /\ up = "down"
  BY RecoverFacts
<1>2. /\ needed' = needed \cup {replay.next}
      /\ \A m \in needed : logs'[m] = logs[m]
      /\ Len(logs'[replay.next].recs) = 0
  BY <1>1, NewLog
<1>3. \A i : ~(i \in 1 .. Len(logs'[replay.next].recs))
  BY <1>2
<1>4. Promised /\ logged' = 0
  BY <1>1 DEF SyncInv, Base, Phases
<1>5. Promised'
  <2>1. \A e : InLogs(e) => InLogs(e)'
    BY <1>2 DEF InLogs
  <2> QED
    BY <1>1, <1>2, <1>3, <1>4, <2>1 DEF Promised
<1>6. ASSUME NEW n \in needed, NEW i \in 1 .. Len(logs[n].recs),
             NEW e \in logs[n].recs[i]
      PROVE  e.seq <= lastSequence'
  <2>1. e \in Entries(logs[n].recs)
    BY LogMembers DEF needed, Base, TypeOK
  <2>2. n \in filled(Max(DOMAIN logs))
    BY <1>1, <2>1 DEF filled
  <2> QED
    BY <1>1, <2>1, <2>2 DEF Replayed
<1>7. manifest.last <= lastSequence'
  BY <1>1 DEF Replayed
<1>8. ASSUME NEW e \in committed
      PROVE  e.seq <= lastSequence'
  <2>1. CASE InLogs(e)
    BY <1>6, <2>1 DEF InLogs
  <2>2. CASE ~InLogs(e)
    <3>1. e.seq <= manifest.last /\ e.seq \in Nat /\ manifest.last \in Nat
      BY <1>4, <2>2 DEF Promised, Base, TypeOK, ManifestOK, Entry
    <3> QED
      BY <1>1, <1>7, <3>1
  <2> QED
    BY <2>1, <2>2
<1>9. Numbered'
  BY <1>1, <1>2, <1>3, <1>6, <1>7, <1>8 DEF Numbered
<1>10. Grouped'
  BY <1>4 DEF Grouped
<1> QED
  BY <1>5, <1>9, <1>10 DEF SyncInv

LEMMA StutterKeepsPromises ==
  ASSUME SyncInv, UNCHANGED vars
  PROVE  SyncInv'
BY DEF SyncInv, Promised, Grouped, Numbered, Pending, InLogs, needed, entriesOf,
   vars, diskVars, writeVars, historyVars

LEMMA InitPromises == Init => SyncInv
<1> SUFFICES ASSUME Init
             PROVE  SyncInv
  OBVIOUS
<1>1. /\ synced = {} /\ committed = {} /\ logged = 0 /\ lastSequence = 0
      /\ manifest.last = 0 /\ logs = [n \in {3} |-> EmptyLog]
  BY DEF Init
<1>2. \A n \in needed : Len(logs[n].recs) = 0
  <2>1. Len(EmptyLog.recs) = 0
    BY DEF EmptyLog
  <2> QED
    BY <1>1, <2>1 DEF needed
<1>3. \A n \in needed : \A i : ~(i \in 1 .. Len(logs[n].recs))
  BY <1>2
<1>4. Promised /\ Grouped
  BY <1>1 DEF Promised, Grouped
<1>5. Numbered
  BY <1>1, <1>3 DEF Numbered
<1> QED
  BY <1>4, <1>5 DEF SyncInv

LEMMA NextPromises == Base /\ Base' /\ SyncInv /\ [Next]_vars => SyncInv'
BY WriteKeepsPromises, RefuseWriteKeepsPromises, ThreadKeepsPromises,
   InstallKeepsPromises, SwitchKeepsPromises, LogGroupKeepsPromises,
   SyncLogKeepsPromises, FailSyncKeepsPromises, FinishGroupKeepsPromises,
   CrashKeepsPromises, RecoverKeepsPromises, StutterKeepsPromises
DEF Next, Leader, Background, SizeCompaction, OtherCompaction

\* A write that was answered with sync survives every crash, however its
\* log is cut, whoever led its group and however far the flush of its
\* memtable has come (db_impl.cc:1224).
THEOREM SyncedWritesAreSafe == Spec => []SyncedWritesSurvive
<1>1. Init => Base /\ SyncInv
  BY InitBase, InitPromises
<1>2. Base /\ SyncInv /\ [Next]_vars => (Base /\ SyncInv)'
  BY NextBase, NextPromises
<1>3. SyncInv => SyncedWritesSurvive
  BY DEF SyncInv, Promised, SyncedWritesSurvive
<1> QED
  BY <1>1, <1>2, <1>3, PTL DEF Spec

-----------------------------------------------------------------------------
(* The ranges of files *)

\* No two entries have one sequence number.
Distinct(E) == \A a, b \in E : a.seq = b.seq => a = b

Lo(f) == smallest(f).key
Hi(f) == largest(f).key

\* The first and the last entry of a file (FileMetaData).
LEMMA FileBounds ==
  ASSUME NEW f \in File, Distinct(f.entries)
  PROVE  /\ smallest(f) \in f.entries /\ largest(f) \in f.entries
         /\ \A e \in f.entries : /\ e = smallest(f) \/ Before(smallest(f), e)
                                 /\ e = largest(f) \/ Before(e, largest(f))
         /\ Lo(f) \in Nat /\ Hi(f) \in Nat /\ Lo(f) <= Hi(f)
         /\ \A e \in f.entries : Lo(f) <= e.key /\ e.key <= Hi(f)
<1> DEFINE S == f.entries
           after == [a \in S |-> {b \in S : Before(a, b)}]
           before == [a \in S |-> {b \in S : Before(b, a)}]
<1>1. S \in SUBSET Entry /\ IsFiniteSet(S) /\ S # {}
  BY DEF File, Table, EntrySets
<1>2. \A a, b \in S : a # b => Before(a, b) \/ Before(b, a)
  BY <1>1, BeforeOrder DEF Distinct
<1>3. \A a, b \in S : /\ b \in after[a] <=> Before(a, b)
                      /\ b \in before[a] <=> Before(b, a)
  OBVIOUS
<1>4. \A a, b, c \in S : Before(a, b) /\ Before(b, c) => Before(a, c)
  BY <1>1, BeforeOrder
<1> HIDE DEF S, after, before
<1>5. \E a \in S : \A b \in S \ {a} : b \in after[a]
  <2>1. \A a, b \in S : a # b => b \in after[a] \/ a \in after[b]
    BY <1>2, <1>3
  <2>2. \A a, b, c \in S : b \in after[a] /\ c \in after[b] => c \in after[a]
    BY <1>3, <1>4
  <2> QED
    BY ONLY <1>1, <2>1, <2>2, FirstOf
<1>6. \E a \in S : \A b \in S \ {a} : b \in before[a]
  <2>1. \A a, b \in S : a # b => b \in before[a] \/ a \in before[b]
    BY <1>2, <1>3
  <2>2. \A a, b, c \in S : b \in before[a] /\ c \in before[b] => c \in before[a]
    BY <1>3, <1>4
  <2> QED
    BY ONLY <1>1, <2>1, <2>2, FirstOf
<1>7. smallest(f) \in S /\ \A e \in S \ {smallest(f)} : Before(smallest(f), e)
  <2>1. \E a \in S : \A b \in S \ {a} : Before(a, b)
    BY <1>3, <1>5
  <2> QED
    BY <2>1 DEF smallest, S
<1>8. largest(f) \in S /\ \A e \in S \ {largest(f)} : Before(e, largest(f))
  <2>1. \E a \in S : \A b \in S \ {a} : Before(b, a)
    BY <1>3, <1>6
  <2> QED
    BY <2>1 DEF largest, S
<1>9. \A e \in S : e.key \in Nat
  BY <1>1 DEF Entry
<1>10. \A e \in S : Lo(f) <= e.key /\ e.key <= Hi(f)
  BY <1>7, <1>8, <1>9 DEF Lo, Hi, Before
<1>11. Lo(f) \in Nat /\ Hi(f) \in Nat /\ Lo(f) <= Hi(f)
  BY <1>7, <1>8, <1>9, <1>10 DEF Lo, Hi
<1> QED
  BY <1>7, <1>8, <1>10, <1>11 DEF S

Ranged(F) == \A f \in F : Lo(f) \in Nat /\ Hi(f) \in Nat /\ Lo(f) <= Hi(f)

\* The range lo to hi is that of the files F.
IsRange(F, lo, hi) ==
  /\ lo \in Nat /\ hi \in Nat
  /\ \A f \in F : lo <= Lo(f) /\ Hi(f) <= hi
  /\ (\E f \in F : Lo(f) = lo) /\ (\E f \in F : Hi(f) = hi)

\* GetRange.
LEMMA RangeOfFiles ==
  ASSUME NEW F \in Files, F # {}, Ranged(F)
  PROVE  IsRange(F, minKey(F), maxKey(F))
<1> DEFINE lo == [f \in F |-> Lo(f)]
           hi == [f \in F |-> Hi(f)]
           los == {lo[f] : f \in F}
           his == {hi[f] : f \in F}
<1>1. IsFiniteSet(F)
  BY DEF Files
<1>2. minKey(F) = Min(los) /\ maxKey(F) = Max(his)
  <2>1. los = {smallest(f).key : f \in F}
    BY DEF Lo
  <2>2. his = {largest(f).key : f \in F}
    BY DEF Hi
  <2> QED
    BY <2>1, <2>2 DEF minKey, maxKey
<1>3. IsFiniteSet(los) /\ IsFiniteSet(his)
  <2> HIDE DEF lo, hi
  <2> QED
    BY <1>1, ImageFinite
<1>4. los \in SUBSET Nat /\ his \in SUBSET Nat /\ los # {} /\ his # {}
  BY DEF Ranged
<1>5. \A f \in F : Lo(f) \in los /\ Hi(f) \in his
  OBVIOUS
<1>6. /\ \A x \in los : \E f \in F : Lo(f) = x
      /\ \A x \in his : \E f \in F : Hi(f) = x
  OBVIOUS
<1> HIDE DEF los, his
<1>7. Min(los) \in los /\ \A x \in los : Min(los) <= x
  BY <1>3, <1>4, MinMax
<1>8. Max(his) \in his /\ \A x \in his : x <= Max(his)
  BY <1>3, <1>4, MinMax
<1> QED
  BY <1>2, <1>4, <1>5, <1>6, <1>7, <1>8 DEF IsRange

LEMMA OverlapsRange ==
  \A f, lo, hi : Overlaps(f, lo, hi) <=> Lo(f) <= hi /\ lo <= Hi(f)
BY DEF Overlaps, Lo, Hi

\* The ranges of the files leave no gap: what none of them covers has all of
\* them on one side.
Covered(F) ==
  \A k \in Nat : (\A f \in F : ~(Lo(f) <= k /\ k <= Hi(f)))
                   => (\A f \in F : k < Lo(f)) \/ (\A f \in F : Hi(f) < k)

LEMMA OneIsCovered == \A f : Ranged({f}) => Covered({f})
BY DEF Ranged, Covered

\* Files that overlap the range of others leave no gap beside them.
LEMMA CoverMore ==
  ASSUME NEW F, NEW G, Ranged(F), Ranged(G), Covered(F), NEW lo, NEW hi,
         IsRange(F, lo, hi), \A g \in G : Overlaps(g, lo, hi)
  PROVE  Covered(F \cup G)
<1> SUFFICES ASSUME NEW k \in Nat,
                    \A f \in F \cup G : ~(Lo(f) <= k /\ k <= Hi(f))
             PROVE  \/ \A f \in F \cup G : k < Lo(f)
                    \/ \A f \in F \cup G : Hi(f) < k
  BY DEF Covered
<1>1. \A g \in G : /\ Lo(g) <= hi /\ lo <= Hi(g)
                   /\ Lo(g) \in Nat /\ Hi(g) \in Nat
  BY OverlapsRange DEF Ranged
<1>2. lo \in Nat /\ hi \in Nat
  BY DEF IsRange
<1>3. CASE \A f \in F : k < Lo(f)
  <2>1. k < lo
    BY <1>3 DEF IsRange
  <2>2. \A g \in G : k < Lo(g)
    BY <1>1, <1>2, <2>1
  <2> QED
    BY <1>3, <2>2
<1>4. CASE \A f \in F : Hi(f) < k
  <2>1. hi < k
    BY <1>4 DEF IsRange
  <2>2. \A g \in G : Hi(g) < k
    BY <1>1, <1>2, <2>1
  <2> QED
    BY <1>4, <2>2
<1> QED
  BY <1>3, <1>4 DEF Covered

\* Nor do those of level 0 that overlap one of them, and so on.
LEMMA CoverClosure ==
  ASSUME NEW v, NEW F, Ranged(F), Ranged(v[0]), Covered(F), NEW lo, NEW hi,
         IsRange(F, lo, hi)
  PROVE  /\ Covered(F \cup GetOverlappingInputs(v, 0, lo, hi))
         /\ \A g \in v[0] : Overlaps(g, lo, hi)
                              => g \in GetOverlappingInputs(v, 0, lo, hi)
<1> DEFINE closed(S) == \A g \in v[0] :
             Overlaps(g, lo, hi) \/ (\E h \in S : Overlaps(g, Lo(h), Hi(h)))
               => g \in S
           G == GetOverlappingInputs(v, 0, lo, hi)
<1>1. G = {f \in v[0] : \A S \in SUBSET v[0] : closed(S) => f \in S}
  BY DEF GetOverlappingInputs, Lo, Hi
<1> HIDE DEF G
<1>2. \A g \in v[0] : Overlaps(g, lo, hi) => g \in G
  BY <1>1
<1>3. \A g \in v[0] : (\E h \in G : Overlaps(g, Lo(h), Hi(h))) => g \in G
  BY <1>1
<1>4. lo \in Nat /\ hi \in Nat
  BY DEF IsRange
<1>5. \A g \in G : g \in v[0] /\ Lo(g) \in Nat /\ Hi(g) \in Nat
  BY <1>1 DEF Ranged
<1>6. \A g \in v[0] : Lo(g) \in Nat /\ Hi(g) \in Nat
  BY DEF Ranged
<1>7. ASSUME NEW k \in Nat,
             \A f \in F \cup G : ~(Lo(f) <= k /\ k <= Hi(f))
      PROVE  (\A f \in F \cup G : k < Lo(f)) \/ (\A f \in F \cup G : Hi(f) < k)
  <2>1. CASE \A f \in F : k < Lo(f)
    <3> DEFINE T == {g \in G : k < Lo(g)}
    <3>1. k < lo
      BY <2>1 DEF IsRange
    <3>2. ASSUME NEW g \in v[0], Overlaps(g, lo, hi)
          PROVE  g \in T
      BY <1>2, <1>4, <1>6, <1>7, <3>1, <3>2, OverlapsRange
    <3>3. ASSUME NEW g \in v[0], NEW h \in T, Overlaps(g, Lo(h), Hi(h))
          PROVE  g \in T
      <4>1. g \in G /\ Lo(h) <= Hi(g) /\ k < Lo(h) /\ Lo(h) \in Nat
        BY <1>3, <1>5, <3>3, OverlapsRange
      <4> QED
        BY <1>5, <1>7, <4>1
    <3>4. T \in SUBSET v[0]
      BY <1>5
    <3> HIDE DEF T
    <3>5. closed(T)
      BY <3>2, <3>3
    <3>6. G \subseteq T
      BY <1>1, <3>4, <3>5
    <3> QED
      BY <2>1, <3>6 DEF T
  <2>2. CASE \A f \in F : Hi(f) < k
    <3> DEFINE T == {g \in G : Hi(g) < k}
    <3>1. hi < k
      BY <2>2 DEF IsRange
    <3>2. ASSUME NEW g \in v[0], Overlaps(g, lo, hi)
          PROVE  g \in T
      BY <1>2, <1>4, <1>6, <1>7, <3>1, <3>2, OverlapsRange
    <3>3. ASSUME NEW g \in v[0], NEW h \in T, Overlaps(g, Lo(h), Hi(h))
          PROVE  g \in T
      <4>1. g \in G /\ Lo(g) <= Hi(h) /\ Hi(h) < k /\ Hi(h) \in Nat
        BY <1>3, <1>5, <3>3, OverlapsRange
      <4> QED
        BY <1>5, <1>7, <4>1
    <3>4. T \in SUBSET v[0]
      BY <1>5
    <3> HIDE DEF T
    <3>5. closed(T)
      BY <3>2, <3>3
    <3>6. G \subseteq T
      BY <1>1, <3>4, <3>5
    <3> QED
      BY <2>2, <3>6 DEF T
  <2> QED
    BY <1>7, <2>1, <2>2 DEF Covered
<1>8. Covered(F \cup G)
  BY <1>7 DEF Covered
<1> QED
  BY <1>2, <1>8 DEF G

-----------------------------------------------------------------------------
(* Files that do not overlap *)

\* The files of a level above 0 are apart.
Disjoint(v) ==
  \A l \in Levels \ {0} : \A f, g \in v[l] : f # g => Apart(f.entries, g.entries)

\* The entries of each file are.
Sorted(F) == \A f \in F : f \in File /\ Distinct(f.entries)

LEMMA SortedRanged ==
  ASSUME NEW F, Sorted(F)
  PROVE  Ranged(F)
BY FileBounds DEF Sorted, Ranged

\* Ranges beside each other, and files whose entries are apart.
LEMMA ApartRanges ==
  ASSUME NEW f \in File, NEW g \in File, Distinct(f.entries), Distinct(g.entries)
  PROVE  /\ Hi(f) < Lo(g) => InOrder(f.entries, g.entries)
         /\ InOrder(f.entries, g.entries) => Hi(f) <= Lo(g)
<1>1. /\ Lo(f) \in Nat /\ Hi(f) \in Nat /\ Lo(g) \in Nat /\ Hi(g) \in Nat
      /\ \A e \in f.entries : e.key <= Hi(f)
      /\ \A e \in g.entries : Lo(g) <= e.key
      /\ largest(f) \in f.entries /\ smallest(g) \in g.entries
  BY FileBounds
<1>2. \A e \in f.entries : e.key \in Nat
  BY DEF File, Table, EntrySets, Entry
<1>3. \A e \in g.entries : e.key \in Nat
  BY DEF File, Table, EntrySets, Entry
<1>4. ASSUME Hi(f) < Lo(g)
      PROVE  InOrder(f.entries, g.entries)
  <2>1. \A a \in f.entries, b \in g.entries : a.key < b.key
    BY <1>1, <1>2, <1>3, <1>4
  <2> QED
    BY <2>1 DEF InOrder, Before
<1>5. ASSUME InOrder(f.entries, g.entries)
      PROVE  Hi(f) <= Lo(g)
  <2>1. Before(largest(f), smallest(g))
    BY <1>1, <1>5 DEF InOrder
  <2>2. Hi(f) = largest(f).key /\ Lo(g) = smallest(g).key
    BY DEF Hi, Lo
  <2> QED
    BY <1>1, <2>1, <2>2 DEF Before
<1> QED
  BY <1>4, <1>5

\* All the files of a set on one side of another.
LEMMA ApartFromAll ==
  ASSUME NEW E, NEW F, \/ \A f \in F : InOrder(f.entries, E)
                       \/ \A f \in F : InOrder(E, f.entries)
  PROVE  Apart(E, EntriesIn(F)) /\ Apart(EntriesIn(F), E)
BY DEF Apart, InOrder, EntriesIn

\* A file that overlaps none of those that leave no gap is beside them all.
LEMMA BesideCovered ==
  ASSUME NEW F, Sorted(F), Covered(F), NEW f \in File, Distinct(f.entries),
         \A g \in F : ~Overlaps(g, Lo(f), Hi(f))
  PROVE  Apart(f.entries, EntriesIn(F))
<1>1. Lo(f) \in Nat /\ Hi(f) \in Nat /\ Lo(f) <= Hi(f)
  BY FileBounds
<1>2. \A g \in F : /\ Lo(g) \in Nat /\ Hi(g) \in Nat /\ Lo(g) <= Hi(g)
                   /\ ~(Lo(g) <= Hi(f) /\ Lo(f) <= Hi(g))
  BY SortedRanged, OverlapsRange DEF Ranged
<1>3. \A g \in F : ~(Lo(g) <= Lo(f) /\ Lo(f) <= Hi(g))
  BY <1>1, <1>2
<1>4. (\A g \in F : Lo(f) < Lo(g)) \/ (\A g \in F : Hi(g) < Lo(f))
  BY <1>1, <1>3 DEF Covered
<1>5. CASE \A g \in F : Lo(f) < Lo(g)
  <2>1. \A g \in F : Hi(f) < Lo(g)
    BY <1>1, <1>2, <1>5
  <2>2. \A g \in F : InOrder(f.entries, g.entries)
    BY <2>1, ApartRanges DEF Sorted
  <2> QED
    BY <2>2, ApartFromAll
<1>6. CASE \A g \in F : Hi(g) < Lo(f)
  <2>1. \A g \in F : InOrder(g.entries, f.entries)
    BY <1>6, ApartRanges DEF Sorted
  <2> QED
    BY <2>1, ApartFromAll
<1> QED
  BY <1>4, <1>5, <1>6

\* What a compaction does not take of the next level is beside all it takes.
LEMMA RestIsBeside ==
  ASSUME NEW A, NEW B, NEW rest, Sorted(A), Sorted(B), Sorted(rest),
         NEW lo, NEW hi, IsRange(A, lo, hi),
         \A b \in B : Overlaps(b, lo, hi),
         \A g \in rest : ~Overlaps(g, lo, hi),
         \A g \in rest, b \in B : Apart(g.entries, b.entries)
  PROVE  \A g \in rest : Apart(g.entries, EntriesIn(A \cup B))
<1> SUFFICES ASSUME NEW g \in rest
             PROVE  Apart(g.entries, EntriesIn(A \cup B))
  OBVIOUS
<1>1. Ranged(A) /\ Ranged(B) /\ Ranged(rest)
  BY SortedRanged
<1>2. /\ Lo(g) \in Nat /\ Hi(g) \in Nat /\ Lo(g) <= Hi(g)
      /\ ~(Lo(g) <= hi /\ lo <= Hi(g)) /\ lo \in Nat /\ hi \in Nat
  BY <1>1, OverlapsRange DEF Ranged, IsRange
<1>3. \A a \in A : /\ Lo(a) \in Nat /\ Hi(a) \in Nat
                   /\ lo <= Lo(a) /\ Hi(a) <= hi
  BY <1>1 DEF Ranged, IsRange
<1>4. \A b \in B : /\ Lo(b) \in Nat /\ Hi(b) \in Nat
                   /\ Lo(b) <= hi /\ lo <= Hi(b)
  BY <1>1, OverlapsRange DEF Ranged
<1>5. \A a \in A : a \in File /\ Distinct(a.entries)
  BY DEF Sorted
<1>6. \A b \in B : b \in File /\ Distinct(b.entries)
  BY DEF Sorted
<1>7. g \in File /\ Distinct(g.entries)
  BY DEF Sorted
<1>8. CASE hi < Lo(g)
  <2>1. \A a \in A : InOrder(a.entries, g.entries)
    <3>1. \A a \in A : Hi(a) < Lo(g)
      BY <1>2, <1>3, <1>8
    <3> QED
      BY <1>5, <1>7, <3>1, ApartRanges
  <2>2. \A b \in B : InOrder(b.entries, g.entries)
    <3>1. \A b \in B : ~(Hi(g) <= Lo(b))
      BY <1>2, <1>4, <1>8
    <3>2. \A b \in B : ~InOrder(g.entries, b.entries)
      BY <1>6, <1>7, <3>1, ApartRanges
    <3> QED
      BY <3>2 DEF Apart
  <2> QED
    BY <2>1, <2>2, ApartFromAll
<1>9. CASE Hi(g) < lo
  <2>1. \A a \in A : InOrder(g.entries, a.entries)
    <3>1. \A a \in A : Hi(g) < Lo(a)
      BY <1>2, <1>3, <1>9
    <3> QED
      BY <1>5, <1>7, <3>1, ApartRanges
  <2>2. \A b \in B : InOrder(g.entries, b.entries)
    <3>1. \A b \in B : ~(Hi(b) <= Lo(g))
      BY <1>2, <1>4, <1>9
    <3>2. \A b \in B : ~InOrder(b.entries, g.entries)
      BY <1>6, <1>7, <3>1, ApartRanges
    <3> QED
      BY <3>2 DEF Apart
  <2> QED
    BY <2>1, <2>2, ApartFromAll
<1> QED
  BY <1>2, <1>8, <1>9

\* PickCompaction and SetupOtherInputs: the inputs leave no gap, and the
\* rest of the next level is beside them.
LEMMA InputsFit ==
  ASSUME NEW v \in Version, Sorted(FilesOf(v)), Disjoint(v),
         NEW level \in 0 .. NumLevels - 2, NEW f \in v[level],
         NEW in \in CompactionInputs(v, level, f)
  PROVE  /\ in[1] # {} /\ Covered(in[1] \cup in[2])
         /\ \A g \in v[level + 1] \ in[2] :
              Apart(g.entries, EntriesIn(in[1] \cup in[2]))
<1> DEFINE over(l, F) == GetOverlappingInputs(v, l, minKey(F), maxKey(F))
           in0 == IF level = 0 THEN over(0, {f}) ELSE {f}
           in1 == over(level + 1, in0)
           wider == over(level, in0 \cup in1)
<1>1. /\ level \in Levels /\ level + 1 \in Levels \ {0} /\ 0 \in Levels
      /\ level + 1 # 0
  BY LevelsType
<1>2. \A l \in Levels : v[l] \in Files /\ v[l] \subseteq FilesOf(v)
  BY VersionFiles
<1>3. \A F \in SUBSET FilesOf(v) : Sorted(F) /\ Ranged(F)
  <2>1. \A F \in SUBSET FilesOf(v) : Sorted(F)
    BY DEF Sorted
  <2> QED
    BY <2>1, SortedRanged
<1>4. \A l \in Levels : \A F : over(l, F) \in SUBSET v[l]
  BY DEF GetOverlappingInputs
<1>5. \A F : over(level + 1, F) = {g \in v[level + 1] : Overlaps(g, minKey(F), maxKey(F))}
  BY <1>1 DEF GetOverlappingInputs
<1>6. \A F \in SUBSET FilesOf(v) :
        IsFiniteSet(F) /\ F # {} => IsRange(F, minKey(F), maxKey(F))
  <2> SUFFICES ASSUME NEW F \in SUBSET FilesOf(v), IsFiniteSet(F), F # {}
               PROVE  IsRange(F, minKey(F), maxKey(F))
    OBVIOUS
  <2>1. F \in Files
    BY VersionFiles DEF Files
  <2> QED
    BY <1>3, <2>1, RangeOfFiles
<1>7. \A F \in SUBSET v[level] : F \in SUBSET FilesOf(v) /\ IsFiniteSet(F)
  BY <1>1, <1>2, FS_Subset DEF Files
<1>8. \A F \in SUBSET v[level + 1] : F \in SUBSET FilesOf(v) /\ IsFiniteSet(F)
  BY <1>1, <1>2, FS_Subset DEF Files
<1> HIDE DEF over
<1>9. in0 \in SUBSET v[level] /\ f \in in0 /\ Covered(in0)
  <2>1. {f} \in SUBSET v[level] /\ IsFiniteSet({f}) /\ Covered({f})
        /\ IsRange({f}, minKey({f}), maxKey({f})) /\ Ranged({f})
    <3>1. {f} \in SUBSET v[level]
      OBVIOUS
    <3>2. {f} \in SUBSET FilesOf(v) /\ IsFiniteSet({f})
      BY <1>7, <3>1
    <3>3. Ranged({f}) /\ IsRange({f}, minKey({f}), maxKey({f}))
      BY <1>3, <1>6, <3>2
    <3> QED
      BY <3>1, <3>2, <3>3, OneIsCovered
  <2>2. CASE level # 0
    BY <2>1, <2>2
  <2>3. CASE level = 0
    <3>1. Ranged(v[0])
      BY <1>1, <1>2, <1>3
    <3>2. /\ Covered({f} \cup over(0, {f}))
          /\ \A g \in v[0] : Overlaps(g, minKey({f}), maxKey({f})) => g \in over(0, {f})
      BY <2>1, <3>1, CoverClosure DEF over
    <3>3. Overlaps(f, minKey({f}), maxKey({f}))
      BY <2>1, OverlapsRange DEF IsRange, Ranged
    <3>4. {f} \cup over(0, {f}) = over(0, {f}) /\ f \in over(0, {f})
      BY <2>3, <3>2, <3>3
    <3> QED
      BY <1>1, <1>4, <2>3, <3>2, <3>4
  <2> QED
    BY <2>2, <2>3
<1> HIDE DEF in0
<1>10. /\ in1 \in SUBSET v[level + 1] /\ in0 \cup in1 \in SUBSET FilesOf(v)
       /\ IsFiniteSet(in0) /\ IsFiniteSet(in1) /\ IsFiniteSet(in0 \cup in1)
       /\ IsRange(in0, minKey(in0), maxKey(in0))
       /\ IsRange(in0 \cup in1, minKey(in0 \cup in1), maxKey(in0 \cup in1))
  <2>1. in1 \in SUBSET v[level + 1]
    BY <1>1, <1>4
  <2>2. /\ in0 \cup in1 \in SUBSET FilesOf(v) /\ in0 \in SUBSET FilesOf(v)
        /\ IsFiniteSet(in0) /\ IsFiniteSet(in1)
    BY <1>7, <1>8, <1>9, <2>1
  <2>3. IsFiniteSet(in0 \cup in1)
    BY <2>2, FS_Union
  <2> QED
    BY <1>6, <1>9, <2>1, <2>2, <2>3
<1>11. Covered(in0 \cup in1)
  <2>1. Ranged(in0) /\ Ranged(in1)
    BY <1>3, <1>10
  <2>2. \A g \in in1 : Overlaps(g, minKey(in0), maxKey(in0))
    BY <1>5
  <2> HIDE DEF in1
  <2> QED
    BY <1>9, <1>10, <2>1, <2>2, CoverMore
<1>12. /\ wider \in SUBSET v[level] /\ in0 \subseteq wider
       /\ Covered((in0 \cup in1) \cup wider)
  <2> DEFINE all == in0 \cup in1
             lo == minKey(all)
             hi == maxKey(all)
  <2>1. wider \in SUBSET v[level] /\ wider = GetOverlappingInputs(v, level, lo, hi)
    BY <1>1, <1>4 DEF over
  <2>2. \A g \in in0 : g \in v[level] /\ Overlaps(g, lo, hi)
    <3>1. Ranged(in0)
      BY <1>3, <1>10
    <3>2. IsRange(all, lo, hi)
      BY <1>10
    <3> HIDE DEF in1, lo, hi
    <3>3. \A g \in in0 : /\ Lo(g) \in Nat /\ Hi(g) \in Nat /\ Lo(g) <= Hi(g)
                         /\ lo <= Lo(g) /\ Hi(g) <= hi
                         /\ lo \in Nat /\ hi \in Nat
      BY <3>1, <3>2 DEF Ranged, IsRange
    <3>4. \A g \in in0 : Lo(g) <= hi /\ lo <= Hi(g)
      BY <3>3
    <3> QED
      BY <1>9, <3>4, OverlapsRange
  <2>3. Ranged(all) /\ Ranged(wider) /\ IsRange(all, lo, hi)
    BY <1>3, <1>7, <1>10, <2>1
  <2>4. CASE level = 0
    <3>1. Ranged(v[0])
      BY <1>1, <1>2, <1>3
    <3> HIDE DEF in1, lo, hi, wider
    <3>2. /\ Covered(all \cup GetOverlappingInputs(v, 0, lo, hi))
          /\ \A g \in v[0] : Overlaps(g, lo, hi) => g \in GetOverlappingInputs(v, 0, lo, hi)
      BY <1>11, <2>3, <3>1, CoverClosure
    <3> QED
      BY <2>1, <2>2, <2>4, <3>2
  <2>5. CASE level # 0
    <3>1. wider = {g \in v[level] : Overlaps(g, lo, hi)}
      BY <2>1, <2>5 DEF GetOverlappingInputs
    <3> HIDE DEF in1, lo, hi, wider
    <3>2. Covered(all \cup wider)
      <4>1. Covered(all) /\ \A g \in wider : Overlaps(g, lo, hi)
        BY <1>11, <3>1
      <4> HIDE DEF all
      <4> QED
        BY ONLY <2>3, <4>1, CoverMore
    <3> QED
      BY <2>1, <2>2, <3>1, <3>2
  <2> QED
    BY <2>4, <2>5
<1>13. ASSUME NEW F \in SUBSET v[level], F # {},
              Covered(F \cup over(level + 1, F)),
              in = <<F, over(level + 1, F)>>
       PROVE  /\ in[1] # {} /\ Covered(in[1] \cup in[2])
              /\ \A g \in v[level + 1] \ in[2] :
                   Apart(g.entries, EntriesIn(in[1] \cup in[2]))
  <2> DEFINE B == over(level + 1, F)
             rest == v[level + 1] \ B
  <2>1. /\ B \in SUBSET v[level + 1] /\ IsRange(F, minKey(F), maxKey(F))
        /\ F \in SUBSET FilesOf(v)
    BY <1>1, <1>4, <1>6, <1>7, <1>13
  <2>2. Sorted(F) /\ Sorted(B) /\ Sorted(rest)
    BY <1>3, <1>8, <2>1
  <2>3. /\ \A b \in B : Overlaps(b, minKey(F), maxKey(F))
        /\ \A g \in rest : ~Overlaps(g, minKey(F), maxKey(F))
    BY <1>5
  <2>4. \A g \in rest, b \in B : Apart(g.entries, b.entries)
    BY <1>1, <2>1 DEF Disjoint
  <2>5. in[1] = F /\ in[2] = B
    BY <1>13
  <2> HIDE DEF B
  <2>6. \A g \in rest : Apart(g.entries, EntriesIn(F \cup B))
    <3> HIDE DEF rest
    <3> QED
      BY ONLY <2>1, <2>2, <2>3, <2>4, RestIsBeside
  <2> QED
    BY <1>13, <2>5, <2>6 DEF B
<1>14. CASE in = <<in0, in1>>
  BY <1>9, <1>11, <1>13, <1>14
<1>15. CASE /\ in = <<wider, over(level + 1, wider)>>
            /\ Cardinality(over(level + 1, wider)) = Cardinality(in1)
  <2> DEFINE in2 == over(level + 1, wider)
  <2>1. IsRange(wider, minKey(wider), maxKey(wider)) /\ wider # {}
        /\ wider \in SUBSET FilesOf(v)
    BY <1>6, <1>7, <1>9, <1>12
  <2>2. in1 \subseteq in2
    <3>1. minKey(wider) <= minKey(in0) /\ maxKey(in0) <= maxKey(wider)
      BY <1>10, <1>12, <2>1 DEF IsRange
    <3>2. /\ minKey(wider) \in Nat /\ minKey(in0) \in Nat
          /\ maxKey(in0) \in Nat /\ maxKey(wider) \in Nat
      BY <1>10, <2>1 DEF IsRange
    <3>3. \A g \in in1 : Lo(g) \in Nat /\ Hi(g) \in Nat
      BY <1>3, <1>8, <1>10 DEF Ranged
    <3>4. \A g \in in1 : Lo(g) <= maxKey(in0) /\ minKey(in0) <= Hi(g)
      BY <1>5, OverlapsRange
    <3>5. \A g \in in1 : Overlaps(g, minKey(wider), maxKey(wider))
      <4> HIDE DEF in1, wider
      <4> QED
        BY <3>1, <3>2, <3>3, <3>4, OverlapsRange
    <3> QED
      BY <1>5, <1>10, <3>5
  <2>3. IsFiniteSet(in2)
    BY <1>1, <1>4, <1>8
  <2>4. in2 = in1
    <3> HIDE DEF in1, wider
    <3> QED
      BY <1>10, <1>15, <2>2, <2>3, FS_Subset
  <2>5. (in0 \cup in1) \cup wider = wider \cup in2
    BY <1>12, <2>4
  <2> HIDE DEF in1, wider
  <2> QED
    BY <1>12, <1>13, <1>15, <2>1, <2>5
<1>16. in = <<in0, in1>>
       \/ /\ in = <<wider, over(level + 1, wider)>>
          /\ Cardinality(over(level + 1, wider)) = Cardinality(in1)
  BY DEF CompactionInputs, over, in0
<1> QED
  BY <1>14, <1>15, <1>16

-----------------------------------------------------------------------------
(* Levels and compactions *)

\* The entries of the memtables and the tables, and those of the logs too.
Tabled == mem \cup imm \cup EntriesIn(flush.files)
            \cup EntriesIn(FilesOf(current))
            \cup EntriesIn(FilesOf(manifest.files))

Known == Tabled \cup UNION {Entries(logs[n].recs) : n \in needed}

\* A sequence number stands for one entry.
Identified ==
  /\ Distinct(Known)
  /\ up # "down" => \A e \in Tabled : e.seq <= lastSequence
  /\ \A e \in EntriesIn(FilesOf(manifest.files)) : e.seq <= manifest.last

\* While a compaction is merging, what its level + 1 holds beside its inputs
\* stays apart from them, and so from its outputs.
Compacting ==
  compaction.pc = "merge" =>
    LET in == compaction.in
        taken == EntriesIn(in[1] \cup in[2])
    IN  /\ Covered(in[1] \cup in[2])
        /\ \A g \in manifest.files[compaction.level + 1] \ in[2] :
             Apart(g.entries, taken)
        /\ UNION compaction.todo \subseteq taken
        /\ EntriesIn(compaction.outs) \subseteq taken
        /\ \A f, g \in compaction.outs : f # g => Apart(f.entries, g.entries)
        /\ \A f \in compaction.outs, t \in compaction.todo : Apart(f.entries, t)

LevelsInv ==
  Identified /\ Disjoint(current) /\ Disjoint(manifest.files) /\ Compacting

LEMMA EntriesInMember ==
  /\ \A F, e : e \in EntriesIn(F) <=> \E f \in F : e \in f.entries
  /\ \A A, B : EntriesIn(A \cup B) = EntriesIn(A) \cup EntriesIn(B)
  /\ \A A, B : A \subseteq B => EntriesIn(A) \subseteq EntriesIn(B)
  /\ EntriesIn({}) = {}
<1>1. \A F, e : e \in EntriesIn(F) <=> \E f \in F : e \in f.entries
  BY DEF EntriesIn
<1>2. \A A, B : EntriesIn(A \cup B) = EntriesIn(A) \cup EntriesIn(B)
  BY <1>1
<1>3. \A A, B : A \subseteq B => EntriesIn(A) \subseteq EntriesIn(B)
  BY <1>1
<1>4. EntriesIn({}) = {}
  BY DEF EntriesIn
<1> QED
  BY <1>1, <1>2, <1>3, <1>4

KnownParts ==
  /\ \A e : e \in Known <=> e \in Tabled \/ InLogs(e)
  /\ Tabled \subseteq Entry /\ \A e : InLogs(e) => e \in Entry

LEMMA KnownMembers == Base => KnownParts
<1> SUFFICES ASSUME Base
             PROVE  KnownParts
  OBVIOUS
<1>1. LogsOK
  BY DEF Base, TypeOK
<1>2. \A n \in needed : \A e :
        e \in Entries(logs[n].recs)
          <=> \E i \in 1 .. Len(logs[n].recs) : e \in logs[n].recs[i]
  BY <1>1, LogMembers DEF needed
<1>3. \A e : e \in Known <=> e \in Tabled \/ InLogs(e)
  BY <1>2 DEF Known, InLogs
<1>4. \A F \in SUBSET File : EntriesIn(F) \subseteq Entry
  BY EntriesInMember DEF File, Table, EntrySets
<1>5. /\ flush.files \in SUBSET File /\ FilesOf(current) \in SUBSET File
      /\ FilesOf(manifest.files) \in SUBSET File
      /\ mem \subseteq Entry /\ imm \subseteq Entry
  BY VersionFiles DEF Base, TypeOK, ManifestOK, FlushOK, Files, EntrySets
<1>6. Tabled \subseteq Entry
  BY <1>4, <1>5 DEF Tabled
<1>7. \A n \in needed : \A i \in 1 .. Len(logs[n].recs) :
        logs[n].recs[i] \subseteq Entry
  BY <1>1, LogMembers DEF needed, Table, EntrySets
<1>8. \A e : InLogs(e) => e \in Entry
  BY <1>7 DEF InLogs
<1> QED
  BY <1>3, <1>6, <1>8 DEF KnownParts

LEMMA KnownMembersThen == Base' => KnownParts'
BY KnownMembers, PTL

\* The entries of the files of a version are known.
LEMMA VersionsSorted ==
  ASSUME Base, Identified
  PROVE  /\ Sorted(FilesOf(current)) /\ Sorted(FilesOf(manifest.files))
         /\ Sorted(flush.files)
<1>1. /\ flush.files \in SUBSET File /\ FilesOf(current) \in SUBSET File
      /\ FilesOf(manifest.files) \in SUBSET File
  BY VersionFiles DEF Base, TypeOK, ManifestOK, FlushOK, Files
<1>2. \A f \in flush.files \cup FilesOf(current) \cup FilesOf(manifest.files) :
        f.entries \subseteq Known
  BY EntriesInMember DEF Known, Tabled
<1>3. \A f : f.entries \subseteq Known => Distinct(f.entries)
  BY DEF Identified, Distinct
<1> QED
  BY <1>1, <1>2, <1>3 DEF Sorted

\* A step that brings no entry.
LEMMA IdentifiedFrame ==
  ASSUME Base, Base', Identified, up # "down", up' # "down",
         Tabled' \subseteq Tabled, \A e : InLogs(e)' => InLogs(e),
         lastSequence <= lastSequence',
         \/ manifest' = manifest
         \/ /\ manifest'.last = lastSequence
            /\ EntriesIn(FilesOf(manifest'.files)) \subseteq Tabled
  PROVE  Identified'
<1>1. lastSequence \in Nat /\ lastSequence' \in Nat
  BY DEF Base, TypeOK
<1>2. \A e \in Tabled : e.seq \in Nat /\ e.seq <= lastSequence
  BY KnownMembers DEF Identified, Entry, KnownParts
<1>3. Known' \subseteq Known
  <2>1. \A e : e \in Known' <=> e \in Tabled' \/ InLogs(e)'
    BY KnownMembersThen DEF KnownParts
  <2> QED
    BY <2>1, KnownMembers DEF KnownParts
<1>4. Distinct(Known')
  BY <1>3 DEF Identified, Distinct
<1>5. \A e \in Tabled' : e.seq <= lastSequence'
  BY <1>1, <1>2
<1>6. \A e \in EntriesIn(FilesOf(manifest'.files)) : e.seq <= manifest'.last
  BY <1>2 DEF Identified
<1> QED
  BY <1>4, <1>5, <1>6 DEF Identified

\* A step that leaves the versions and the compaction alone too.
LEMMA LevelsFrame ==
  ASSUME Base, Base', LevelsInv, up # "down", up' # "down",
         UNCHANGED <<manifest, current, compaction>>,
         Tabled' \subseteq Tabled, \A e : InLogs(e)' => InLogs(e),
         lastSequence <= lastSequence'
  PROVE  LevelsInv'
<1>1. Identified'
  BY IdentifiedFrame DEF LevelsInv
<1>2. Compacting'
  BY DEF LevelsInv, Compacting
<1>3. Disjoint(current') /\ Disjoint(manifest'.files)
  BY DEF LevelsInv
<1> QED
  BY <1>1, <1>2, <1>3 DEF LevelsInv

LEMMA SameLogs ==
  ASSUME logs' = logs, manifest' = manifest
  PROVE  \A e : InLogs(e)' <=> InLogs(e)
BY DEF InLogs, needed

LEMMA QuietKeepsLevels ==
  ASSUME Base, Base', LevelsInv,
         Write \/ RefuseWrite \/ FailSync \/ StartFlush \/ Reader
  PROVE  LevelsInv'
<1>1. /\ up # "down" /\ up' # "down"
      /\ UNCHANGED <<manifest, current, compaction, logs, mem, imm>>
      /\ flush'.files \in {flush.files, {[num |-> nextFile, entries |-> imm]}}
      /\ lastSequence' \in {lastSequence, lastSequence + logged}
  <2>1. CASE Write
    BY <2>1 DEF Write, diskVars, fileVars, threadVars
  <2>2. CASE RefuseWrite
    BY <2>2 DEF RefuseWrite, Leading, diskVars, fileVars, threadVars
  <2>3. CASE FailSync
    BY <2>3 DEF FailSync, answerGroup, diskVars, fileVars, threadVars, Base,
       Phases
  <2>4. CASE StartFlush
    BY <2>4 DEF StartFlush, CanStartFlush, writeVars
  <2>5. CASE Reader
    <3> USE <2>5 DEF Reader, GetSnapshot, ReleaseSnapshot, Pin, Unpin,
                     diskVars, writeVars, fileVars, threadVars
    <3>1. up # "down"
      BY DEF Base, Phases
    <3>2. UNCHANGED <<up, manifest, current, compaction, logs, mem, imm, flush,
                      lastSequence>>
      OBVIOUS
    <3> QED
      BY ONLY <3>1, <3>2
  <2> QED
    BY <2>1, <2>2, <2>3, <2>4, <2>5
<1>2. lastSequence <= lastSequence'
  BY <1>1 DEF Base, TypeOK
<1>3. EntriesIn(flush'.files) \subseteq EntriesIn(flush.files) \cup imm
  BY <1>1, EntriesInMember
<1>4. Tabled' \subseteq Tabled
  BY <1>1, <1>3 DEF Tabled
<1>5. \A e : InLogs(e)' => InLogs(e)
  BY <1>1, SameLogs
<1> QED
  BY ONLY Base, Base', LevelsInv, <1>1, <1>2, <1>4, <1>5, LevelsFrame

LEMMA SwitchKeepsLevels ==
  ASSUME Base, Base', LevelsInv, SwitchMemTable
  PROVE  LevelsInv'
<1>1. /\ up # "down" /\ up' # "down"
      /\ UNCHANGED <<manifest, current, compaction, lastSequence, flush>>
      /\ imm' = mem /\ mem' = {} /\ logs' = withLog(nextFile)
  BY DEF SwitchMemTable, Leading
<1>2. nextFile \in Nat \ {0} /\ \A m \in DOMAIN logs : m < nextFile
  <2>1. /\ logfile \in DOMAIN logs /\ \A m \in DOMAIN logs : m <= logfile
        /\ logfile < nextFile /\ nextFile \in Nat
    BY <1>1 DEF Base, TypeOK, Numbers
  <2>2. \A m \in DOMAIN logs : m \in Nat
    BY DEF Base, TypeOK, LogsOK
  <2> QED
    BY <2>1, <2>2
<1>3. /\ needed' = needed \cup {nextFile}
      /\ \A m \in needed : logs'[m] = logs[m]
      /\ Len(logs'[nextFile].recs) = 0
  BY <1>1, <1>2, NewLog
<1>4. \A i : ~(i \in 1 .. Len(logs'[nextFile].recs))
  BY <1>3
<1>5. \A e : InLogs(e)' => InLogs(e)
  BY <1>3, <1>4 DEF InLogs
<1>6. Tabled' \subseteq Tabled
  BY <1>1 DEF Tabled
<1>7. lastSequence <= lastSequence'
  BY <1>1 DEF Base, TypeOK
<1> QED
  BY ONLY Base, Base', LevelsInv, <1>1, <1>5, <1>6, <1>7, LevelsFrame

LEMMA SyncLogKeepsLevels ==
  ASSUME Base, Base', LevelsInv, SyncLog
  PROVE  LevelsInv'
<1>1. /\ up # "down" /\ up' # "down" /\ LogsOK /\ logfile \in DOMAIN logs
      /\ UNCHANGED <<manifest, current, compaction, lastSequence, flush, mem, imm>>
  BY DEF SyncLog, writeVars, fileVars, threadVars, Base, TypeOK, Phases, Numbers
<1>2. DOMAIN logs' = DOMAIN logs /\ \A n \in DOMAIN logs : logs'[n].recs = logs[n].recs
  <2>1. \A n \in DOMAIN logs : logs[n] \in Log
    BY <1>1 DEF LogsOK
  <2>2. logs' = [logs EXCEPT ![logfile] =
                   [logs[logfile] EXCEPT !.synced = Len(logs[logfile].recs)]]
    BY DEF SyncLog
  <2> QED
    BY <1>1, <2>1, <2>2, LogFields DEF LogsOK
<1>3. \A e : InLogs(e)' => InLogs(e)
  BY <1>1, <1>2 DEF InLogs, needed
<1>4. Tabled' \subseteq Tabled
  BY <1>1 DEF Tabled
<1>5. lastSequence <= lastSequence'
  BY <1>1 DEF Base, TypeOK
<1> QED
  BY ONLY Base, Base', LevelsInv, <1>1, <1>3, <1>4, <1>5, LevelsFrame

\* The group that is logged has new numbers.
LEMMA LogGroupKeepsLevels ==
  ASSUME Base, Base', SyncInv, LevelsInv, LogGroup
  PROVE  LevelsInv'
<1>1. /\ logged = 0 /\ up = "up" /\ up' = "up" /\ LogsOK /\ logfile \in DOMAIN logs
      /\ UNCHANGED <<manifest, current, compaction, lastSequence, flush, mem, imm>>
  BY DEF LogGroup, Leading, fileVars, threadVars, Base, TypeOK, Numbers
<1>2. PICK n \in groupSizes :
        logs' = [logs EXCEPT ![logfile].recs = Append(@, entriesOf(n))]
  BY DEF LogGroup
<1>3. /\ n \in 1 .. Len(writers) /\ writers \in Seq(Calls) /\ lastSequence \in Nat
  BY DEF groupSizes, Base, TypeOK
<1>4. /\ entriesOf(n) \subseteq Entry
      /\ \A e \in entriesOf(n) : lastSequence < e.seq
      /\ Distinct(entriesOf(n)) /\ entriesOf(n) \in Table
  BY <1>3, EntriesOfType DEF Table, EntrySets, Distinct
<1> DEFINE l == logs[logfile]
<1>5. /\ DOMAIN logs' = DOMAIN logs /\ l.recs \in Seq(Table)
      /\ \A m \in DOMAIN logs : m # logfile => logs'[m] = logs[m]
      /\ logs'[logfile].recs = Append(l.recs, entriesOf(n))
  <2>1. l \in Log
    BY <1>1 DEF LogsOK
  <2>2. logs' = [logs EXCEPT ![logfile] = [l EXCEPT !.recs = Append(@, entriesOf(n))]]
    BY <1>2
  <2>3. [l EXCEPT !.recs = Append(@, entriesOf(n))]
          = [recs |-> Append(l.recs, entriesOf(n)), synced |-> l.synced]
    BY <2>1, LogFields
  <2> QED
    BY <1>1, <2>1, <2>2, <2>3 DEF LogsOK, Log
<1>6. \A e : InLogs(e)' => InLogs(e) \/ e \in entriesOf(n)
  <2>1. needed' = needed
    BY <1>1, <1>5 DEF needed
  <2>2. /\ Len(logs'[logfile].recs) = Len(l.recs) + 1 /\ Len(l.recs) \in Nat
        /\ logs'[logfile].recs[Len(l.recs) + 1] = entriesOf(n)
        /\ \A i \in 1 .. Len(l.recs) : logs'[logfile].recs[i] = l.recs[i]
    BY <1>4, <1>5, AppendProperties
  <2>3. \A i \in 1 .. Len(l.recs) + 1 : i = Len(l.recs) + 1 \/ i \in 1 .. Len(l.recs)
    BY <2>2
  <2>4. ASSUME NEW e, NEW m \in needed, NEW i \in 1 .. Len(logs'[m].recs),
               e \in logs'[m].recs[i]
        PROVE  InLogs(e) \/ e \in entriesOf(n)
    <3>1. CASE m = logfile
      <4>1. i = Len(l.recs) + 1 \/ i \in 1 .. Len(l.recs)
        BY ONLY <2>2, <2>3, <2>4, <3>1
      <4>2. CASE i = Len(l.recs) + 1
        BY ONLY <2>2, <2>4, <3>1, <4>2
      <4>3. CASE i \in 1 .. Len(l.recs)
        BY ONLY <2>2, <2>4, <3>1, <4>3 DEF InLogs
      <4> QED
        BY <4>1, <4>2, <4>3
    <3>2. CASE m # logfile
      <4>1. logs'[m] = logs[m]
        BY ONLY <1>5, <3>2, m \in needed DEF needed
      <4> QED
        BY ONLY <2>4, <4>1, m \in needed, i \in 1 .. Len(logs'[m].recs) DEF InLogs
    <3> QED
      BY <3>1, <3>2
  <2> QED
    BY ONLY <2>1, <2>4 DEF InLogs
<1>7. Tabled' = Tabled
  BY <1>1 DEF Tabled
<1>8. \A e \in Known : e.seq \in Nat /\ e.seq <= lastSequence
  <2>1. \A e \in Tabled : e.seq <= lastSequence
    BY <1>1 DEF LevelsInv, Identified
  <2>2. \A m \in needed : \A i \in 1 .. Len(logs[m].recs) :
          \A e \in logs[m].recs[i] : e.seq <= lastSequence
    BY <1>1 DEF SyncInv, Numbered, Pending
  <2>3. \A e : InLogs(e) => e.seq <= lastSequence
    BY <2>2 DEF InLogs
  <2> QED
    BY <2>1, <2>3, KnownMembers DEF KnownParts, Entry
<1>9. \A e \in Known' : e \in Known \/ e \in entriesOf(n)
  BY <1>6, <1>7, KnownMembers, KnownMembersThen DEF KnownParts
<1>10. Distinct(Known')
  <2>1. Distinct(Known)
    BY DEF LevelsInv, Identified
  <2>2. \A e \in entriesOf(n) : e.seq \in Nat
    BY <1>4 DEF Entry
  <2>3. \A a \in Known, b \in entriesOf(n) : a.seq # b.seq
    BY <1>3, <1>4, <1>8, <2>2
  <2> QED
    BY <1>4, <1>9, <2>1, <2>3 DEF Distinct
<1>11. Identified'
  BY <1>1, <1>7, <1>10 DEF LevelsInv, Identified
<1>12. Compacting'
  BY <1>1 DEF LevelsInv, Compacting
<1> QED
  BY <1>1, <1>11, <1>12 DEF LevelsInv

LEMMA FinishGroupKeepsLevels ==
  ASSUME Base, Base', SyncInv, LevelsInv, FinishGroup
  PROVE  LevelsInv'
<1>1. /\ up = "up" /\ up' = "up" /\ LogsOK /\ logged > 0
      /\ UNCHANGED <<manifest, current, compaction, flush, imm, logs>>
      /\ mem' = mem \cup entriesOf(logged) /\ lastSequence' = lastSequence + logged
  BY DEF FinishGroup, answerGroup, diskVars, fileVars, threadVars, Base, TypeOK, Phases
<1>2. /\ logged \in 1 .. Len(writers) /\ lastSequence \in Nat
      /\ writers \in Seq(Calls) /\ logged \in Nat
  BY <1>1 DEF Base, TypeOK
<1>3. \A e \in entriesOf(logged) : InLogs(e) /\ e.seq <= lastSequence'
  <2>1. logfile \in needed /\ Len(logs[logfile].recs) \in Nat
    BY <1>1, LogMembers DEF Base, Numbers, needed
  <2>2. /\ Len(logs[logfile].recs) > 0
        /\ logs[logfile].recs[Len(logs[logfile].recs)] = entriesOf(logged)
    BY <1>1 DEF SyncInv, Grouped
  <2>3. \A e \in entriesOf(logged) : InLogs(e)
    BY <2>1, <2>2 DEF InLogs
  <2> QED
    BY <1>1, <1>2, <2>3, EntriesOfType
<1>4. \A e \in Tabled' : e \in Tabled \/ e \in entriesOf(logged)
  BY <1>1 DEF Tabled
<1>5. \A e : InLogs(e)' => InLogs(e)
  BY <1>1, SameLogs
<1>6. Known' \subseteq Known
  BY <1>3, <1>4, <1>5, KnownMembers, KnownMembersThen DEF KnownParts
<1>7. Distinct(Known')
  BY <1>6 DEF LevelsInv, Identified, Distinct
<1>8. \A e \in Tabled' : e.seq <= lastSequence'
  <2>1. \A e \in Tabled : e.seq \in Nat /\ e.seq <= lastSequence
    BY <1>1, KnownMembers DEF LevelsInv, Identified, KnownParts, Entry
  <2>2. \A e \in Tabled : e.seq <= lastSequence'
    BY <1>1, <1>2, <2>1
  <2> QED
    BY <1>3, <1>4, <2>2
<1>9. Identified'
  BY <1>1, <1>7, <1>8 DEF LevelsInv, Identified
<1>10. Compacting'
  BY <1>1 DEF LevelsInv, Compacting
<1> QED
  BY <1>1, <1>9, <1>10 DEF LevelsInv

\* A crash takes entries and recovery brings none.
LEMMA CrashKeepsLevels ==
  ASSUME Base, Base', LevelsInv, Crash
  PROVE  LevelsInv'
<1>1. /\ up' = "down" /\ manifest' = manifest /\ mem' = {} /\ imm' = {}
      /\ current' = EmptyVersion /\ flush' = NoFlush /\ compaction' = NoCompaction
      /\ LogsOK
  BY DEF Crash, Base, TypeOK
<1>2. FilesOf(current') = {} /\ flush'.files = {} /\ compaction'.pc = "none"
  BY <1>1, EmptyVersionType, NothingType
<1>3. Tabled' \subseteq Tabled
  BY <1>1, <1>2, EntriesInMember DEF Tabled
<1>4. \A e : InLogs(e)' => InLogs(e)
  <2>1. /\ DOMAIN logs' = DOMAIN logs
        /\ \A n \in DOMAIN logs :
             /\ Len(logs'[n].recs) <= Len(logs[n].recs)
             /\ \A i \in 1 .. Len(logs'[n].recs) : logs'[n].recs[i] = logs[n].recs[i]
    BY <1>1, CrashLogs
  <2>2. needed' = needed
    BY <1>1, <2>1 DEF needed
  <2>3. \A n \in needed : Len(logs[n].recs) \in Nat /\ Len(logs'[n].recs) \in Nat
    <3>1. LogsOK'
      BY DEF Base, TypeOK
    <3> QED
      BY <1>1, <2>1, <3>1 DEF LogsOK, Log, needed
  <2>4. \A n \in needed : \A i \in 1 .. Len(logs'[n].recs) : i \in 1 .. Len(logs[n].recs)
    BY <2>1, <2>3 DEF needed
  <2> QED
    BY <2>1, <2>2, <2>4 DEF InLogs, needed
<1>5. Known' \subseteq Known
  BY <1>3, <1>4, KnownMembers, KnownMembersThen DEF KnownParts
<1>6. Identified'
  BY <1>1, <1>5 DEF LevelsInv, Identified, Distinct
<1>7. Disjoint(current')
  BY <1>1 DEF Disjoint, EmptyVersion
<1>8. Compacting'
  BY <1>2 DEF Compacting
<1> QED
  BY <1>1, <1>6, <1>7, <1>8 DEF LevelsInv

LEMMA RecoverKeepsLevels ==
  ASSUME Base, Base', LevelsInv, Recover
  PROVE  LevelsInv'
<1>1. /\ Replayed(replay, Max(DOMAIN logs))
      /\ \A n \in needed : n <= Max(DOMAIN logs)
      /\ \A n \in DOMAIN logs : n < replay.next
      /\ replay.next \in Nat \ {0} /\ replay.last \in Nat
      /\ lastSequence' = replay.last /\ logs' = withLog(replay.next)
      /\ flush' = [pc |-> "open", files |-> replay.files, level |-> 0]
      /\ current' = manifest.files
      /\ UNCHANGED <<manifest, mem, imm, compaction>> /\ up = "down" /\ up' = "opening"
  BY RecoverFacts
<1>2. /\ needed' = needed \cup {replay.next}
      /\ \A m \in needed : logs'[m] = logs[m]
      /\ Len(logs'[replay.next].recs) = 0
  BY <1>1, NewLog
<1>3. \A i : ~(i \in 1 .. Len(logs'[replay.next].recs))
  BY <1>2
<1>4. \A e : InLogs(e)' => InLogs(e)
  BY <1>2, <1>3 DEF InLogs
<1>5. mem = {} /\ imm = {} /\ compaction = NoCompaction /\ manifest.last \in Nat
      /\ LogsOK
  BY <1>1 DEF Base, Phases, TypeOK, ManifestOK
<1>6. \A e \in EntriesIn(replay.files) : InLogs(e) /\ e.seq <= replay.last
  <2> SUFFICES ASSUME NEW e \in EntriesIn(replay.files)
               PROVE  InLogs(e) /\ e.seq <= replay.last
    OBVIOUS
  <2>1. PICK f \in replay.files : e \in f.entries
    BY EntriesInMember
  <2>2. PICK n \in filled(Max(DOMAIN logs)) : f.entries = Entries(logs[n].recs)
    BY <1>1 DEF Replayed
  <2>3. n \in needed /\ n \in DOMAIN logs
    BY DEF filled, needed
  <2>4. InLogs(e)
    BY <1>5, <2>1, <2>2, <2>3, LogMembers DEF InLogs
  <2>5. e.seq <= replay.last
    BY <1>1, <2>1, <2>2 DEF Replayed
  <2> QED
    BY <2>4, <2>5
<1>7. \A e \in Tabled' : \/ e \in EntriesIn(FilesOf(manifest.files))
                         \/ e \in EntriesIn(replay.files)
  BY <1>1, <1>5 DEF Tabled
<1>8. EntriesIn(FilesOf(manifest.files)) \subseteq Tabled
  BY DEF Tabled
<1>9. Known' \subseteq Known
  BY <1>4, <1>6, <1>7, <1>8, KnownMembers, KnownMembersThen DEF KnownParts
<1>10. \A e \in Tabled' : e.seq <= lastSequence'
  <2>1. \A e \in EntriesIn(FilesOf(manifest.files)) :
          e.seq \in Nat /\ e.seq <= manifest.last
    BY <1>8, KnownMembers DEF LevelsInv, Identified, KnownParts, Entry
  <2>2. manifest.last <= replay.last
    BY <1>1 DEF Replayed
  <2>3. \A e \in EntriesIn(FilesOf(manifest.files)) : e.seq <= replay.last
    BY <1>1, <1>5, <2>1, <2>2
  <2> QED
    BY <1>1, <1>6, <1>7, <2>3
<1>11. Identified'
  BY <1>1, <1>9, <1>10 DEF LevelsInv, Identified, Distinct
<1>12. Compacting'
  BY <1>1, <1>5, NothingType DEF Compacting
<1> QED
  BY <1>1, <1>11, <1>12 DEF LevelsInv

\* What StartCompaction has in hand.
LEMMA StartCompactionKeepsLevels ==
  ASSUME Base, Base', LevelsInv, NEW level \in CompactableLevels,
         NEW f \in current[level], StartCompaction(level, f)
  PROVE  LevelsInv'
<1> USE DEF StartCompaction, diskVars, writeVars, fileVars, readVars
<1>1. /\ up = "up" /\ up' = "up" /\ flush.pc = "none" /\ compaction.pc = "none"
      /\ current \in Version /\ level \in 0 .. NumLevels - 2
      /\ manifest.files = current
  BY DEF CanCompact, Base, TypeOK, CompactableLevels, Installing
<1>2. PICK in \in CompactionInputs(current, level, f) :
        LET kept == Kept(current, level,
                         UNION {g.entries : g \in in[1] \cup in[2]},
                         smallestSnapshot)
        IN  \/ /\ Cardinality(in[1]) = 1 /\ in[2] = {}
               /\ compaction' = [NoCompaction EXCEPT
                    !.pc = "merge", !.level = level, !.in = in,
                    !.outs = in[1], !.move = TRUE]
            \/ \E outs \in Outputs(kept) :
                 compaction' = [NoCompaction EXCEPT
                      !.pc = "merge", !.level = level, !.in = in, !.todo = outs]
  BY Zenon
<1>3. /\ UNCHANGED <<manifest, current, logs, mem, imm, flush, lastSequence>>
  OBVIOUS
<1> HIDE DEF StartCompaction
<1> DEFINE all == in[1] \cup in[2]
           taken == EntriesIn(all)
           kept == Kept(current, level, taken, smallestSnapshot)
<1>4. /\ in \in Files \X Files /\ in[1] \in Files /\ in[2] \in Files
      /\ in[1] \in SUBSET current[level] /\ in[2] \in SUBSET current[level + 1]
  BY ONLY <1>1, f \in current[level], CompactionInputsType,
          in \in CompactionInputs(current, level, f), ZenonT(30)
<1>5. /\ Covered(all)
      /\ \A g \in current[level + 1] \ in[2] : Apart(g.entries, taken)
  <2>1. Sorted(FilesOf(current)) /\ Disjoint(current)
    BY VersionsSorted DEF LevelsInv
  <2> QED
    BY ONLY <1>1, <2>1, f \in current[level], InputsFit,
            in \in CompactionInputs(current, level, f)
<1>6. kept \in EntrySets /\ kept \subseteq taken
  <2>1. taken \in EntrySets
    BY <1>4, FilesUnion, EntriesInType
  <2> HIDE DEF taken
  <2> QED
    BY <2>1, KeptType
<1>7. \E todo, outs :
        /\ compaction'.level = level /\ compaction'.in = in
        /\ compaction'.todo = todo /\ compaction'.outs = outs
        /\ UNION todo \subseteq taken /\ EntriesIn(outs) \subseteq taken
        /\ \A g, h \in outs : g = h
        /\ todo = {} \/ outs = {}
  <2>1. CASE /\ Cardinality(in[1]) = 1 /\ in[2] = {}
             /\ compaction' = [NoCompaction EXCEPT
                  !.pc = "merge", !.level = level, !.in = in,
                  !.outs = in[1], !.move = TRUE]
    <3>1. \A g, h \in in[1] : g = h
      <4>1. IsFiniteSet(in[1]) /\ Cardinality(in[1]) = 1
        BY <1>4, <2>1 DEF Files
      <4>2. PICK x : in[1] = {x}
        BY ONLY <4>1, FS_Singleton, Zenon
      <4> QED
        BY <4>2
    <3>2. /\ compaction'.level = level /\ compaction'.in = in
          /\ compaction'.todo = {} /\ compaction'.outs = in[1]
      BY <2>1 DEF NoCompaction
    <3>3. EntriesIn(in[1]) \subseteq taken
      BY EntriesInMember
    <3> HIDE DEF taken
    <3> QED
      BY <3>1, <3>2, <3>3
  <2>2. ASSUME NEW todo \in Outputs(kept),
               compaction' = [NoCompaction EXCEPT
                 !.pc = "merge", !.level = level, !.in = in, !.todo = todo]
        PROVE  \E todo_1, outs :
                 /\ compaction'.level = level /\ compaction'.in = in
                 /\ compaction'.todo = todo_1 /\ compaction'.outs = outs
                 /\ UNION todo_1 \subseteq taken /\ EntriesIn(outs) \subseteq taken
                 /\ \A g, h \in outs : g = h
                 /\ todo_1 = {} \/ outs = {}
    <3>1. UNION todo = kept
      BY <1>6, OutputsType
    <3>2. /\ compaction'.level = level /\ compaction'.in = in
          /\ compaction'.todo = todo /\ compaction'.outs = {}
      BY <2>2 DEF NoCompaction
    <3>3. UNION todo \subseteq taken
      BY <1>6, <3>1
    <3>4. EntriesIn({}) = {}
      BY EntriesInMember
    <3> HIDE DEF taken, kept
    <3> QED
      BY <3>2, <3>3, <3>4
  <2>3. kept = Kept(current, level, UNION {g.entries : g \in in[1] \cup in[2]},
                    smallestSnapshot)
    BY DEF EntriesIn
  <2> HIDE DEF kept
  <2> QED
    BY <1>2, <2>1, <2>2, <2>3
<1>8. PICK todo, outs :
        /\ compaction'.level = level /\ compaction'.in = in
        /\ compaction'.todo = todo /\ compaction'.outs = outs
        /\ UNION todo \subseteq taken /\ EntriesIn(outs) \subseteq taken
        /\ \A g, h \in outs : g = h
        /\ todo = {} \/ outs = {}
  BY <1>7
<1> HIDE DEF taken
<1>9. Compacting'
  BY <1>1, <1>3, <1>5, <1>8 DEF Compacting, taken
<1>10. Tabled' = Tabled /\ \A e : InLogs(e)' => InLogs(e)
  BY <1>3, SameLogs DEF Tabled
<1>11. Identified'
  <2>1. lastSequence <= lastSequence'
    BY <1>3 DEF Base, TypeOK
  <2> QED
    BY ONLY Base, Base', LevelsInv, <1>1, <1>3, <1>10, <2>1, IdentifiedFrame
    DEF LevelsInv
<1> QED
  BY <1>3, <1>9, <1>11 DEF LevelsInv

LEMMA WriteOutputKeepsLevels ==
  ASSUME Base, Base', LevelsInv, WriteOutput
  PROVE  LevelsInv'
<1> DEFINE o == CHOOSE o \in compaction.todo :
                  \A p \in compaction.todo \ {o} :
                    \A a \in o, b \in p : Before(a, b)
           f == [num |-> nextFile, entries |-> o]
           c == compaction
           taken == EntriesIn(c.in[1] \cup c.in[2])
<1>1. /\ compaction' = [compaction EXCEPT !.todo = @ \ {o},
                                          !.outs = @ \cup {f}]
      /\ UNCHANGED <<up, manifest, current, flush, mem, imm, logs, lastSequence>>
      /\ compaction.pc = "merge"
  BY DEF WriteOutput, writeVars, readVars
<1>2. /\ c.todo \in Slices /\ c.todo # {} /\ CompactionOK
      /\ \A s, t \in c.todo : s # t => Apart(s, t)
      /\ up # "down"
  BY DEF WriteOutput, Base, TypeOK, CompactionOK, Working, Phases, NoCompaction
<1>3. o \in c.todo
  BY <1>2, FirstSlice
<1> HIDE DEF o
<1>4. f.entries = o
  OBVIOUS
<1> HIDE DEF f
<1>5. /\ compaction'.todo = c.todo \ {o} /\ compaction'.outs = c.outs \cup {f}
      /\ compaction'.in = c.in /\ compaction'.level = c.level
  <2>1. compaction' = [pc |-> compaction.pc, level |-> compaction.level,
                       in |-> compaction.in, todo |-> compaction.todo \ {o},
                       outs |-> compaction.outs \cup {f},
                       move |-> compaction.move]
    BY <1>1, <1>2, CompactionFields
  <2> QED
    BY ONLY <2>1
<1>6. /\ Covered(c.in[1] \cup c.in[2])
      /\ \A g \in manifest.files[c.level + 1] \ c.in[2] : Apart(g.entries, taken)
      /\ UNION c.todo \subseteq taken /\ EntriesIn(c.outs) \subseteq taken
      /\ \A g, h \in c.outs : g # h => Apart(g.entries, h.entries)
      /\ \A g \in c.outs, t \in c.todo : Apart(g.entries, t)
  BY <1>1 DEF LevelsInv, Compacting
<1>7. UNION compaction'.todo \subseteq taken
  <2>1. \A t \in c.todo : t \subseteq taken
    BY <1>6
  <2> HIDE DEF taken
  <2> QED
    BY ONLY <1>5, <2>1
<1>8. EntriesIn(compaction'.outs) \subseteq taken
  <2>1. o \subseteq taken /\ EntriesIn(c.outs) \subseteq taken
    BY <1>3, <1>6
  <2> HIDE DEF taken
  <2>2. \A e \in EntriesIn(c.outs \cup {f}) : e \in EntriesIn(c.outs) \/ e \in o
    BY ONLY <1>4, EntriesInMember
  <2> QED
    BY ONLY <1>5, <2>1, <2>2
<1>9. \A g, h \in compaction'.outs : g # h => Apart(g.entries, h.entries)
  BY <1>3, <1>4, <1>5, <1>6 DEF Apart
<1>10. \A g \in compaction'.outs, t \in compaction'.todo : Apart(g.entries, t)
  BY <1>2, <1>3, <1>4, <1>5, <1>6
<1>11. Compacting'
  BY <1>1, <1>5, <1>6, <1>7, <1>8, <1>9, <1>10 DEF Compacting
<1>12. Tabled' = Tabled /\ \A e : InLogs(e)' => InLogs(e)
  BY <1>1, SameLogs DEF Tabled
<1>13. Identified'
  <2>1. lastSequence <= lastSequence'
    BY <1>1 DEF Base, TypeOK
  <2> QED
    BY ONLY Base, Base', LevelsInv, <1>1, <1>2, <1>12, <2>1, IdentifiedFrame
    DEF LevelsInv
<1> QED
  BY <1>1, <1>11, <1>13 DEF LevelsInv

\* A file whose range none of some others overlaps.
LEMMA BesideNone ==
  ASSUME NEW f \in File, NEW g \in File, Distinct(f.entries),
         Distinct(g.entries), ~Overlaps(g, Lo(f), Hi(f))
  PROVE  Apart(f.entries, g.entries) /\ Apart(g.entries, f.entries)
<1>1. /\ Lo(f) \in Nat /\ Hi(f) \in Nat /\ Lo(g) \in Nat /\ Hi(g) \in Nat
  BY FileBounds
<1>2. Hi(f) < Lo(g) \/ Hi(g) < Lo(f)
  BY <1>1, OverlapsRange
<1> QED
  BY <1>2, ApartRanges DEF Apart

\* A memtable goes to a level where it overlaps nothing, nor does it in the
\* levels before, so it is beside a compaction into that level as well.
LEMMA LogFlushKeepsLevels ==
  ASSUME Base, Base', LevelsInv, LogFlush
  PROVE  LevelsInv'
<1>1. PICK l \in PickLevelForMemTableOutput(current, minKey(flush.files),
                                            maxKey(flush.files)) :
        LogEdit([current EXCEPT ![l] = @ \cup flush.files], logfile)
  BY DEF LogFlush
<1>2. /\ l \in Levels
      /\ l = 0 \/ \A j \in 0 .. l : ~OverlapInLevel(current, j, minKey(flush.files),
                                                    maxKey(flush.files))
  BY ONLY PickLevelType, l \in PickLevelForMemTableOutput(current, minKey(flush.files),
                                            maxKey(flush.files))
<1>3. /\ manifest'.files = [current EXCEPT ![l] = @ \cup flush.files]
      /\ manifest'.last = lastSequence
  BY <1>1 DEF LogEdit
<1>4. /\ flush.pc = "build" /\ up # "down" /\ up' = up /\ FlushOK
      /\ UNCHANGED <<current, compaction, mem, imm, logs, lastSequence>>
      /\ current \in Version /\ CompactionOK
  BY NothingType DEF LogFlush, writeVars, Base, TypeOK, Phases
<1>5. flush'.files = flush.files
  BY <1>4 DEF LogFlush, FlushOK
<1>6. manifest.files = current
  BY <1>4 DEF Base, Installing, Working
<1>7. PICK f \in File : flush.files = {f}
  <2>1. \E n \in Nat : flush.files = {[num |-> n, entries |-> imm]}
    BY <1>4 DEF Base, Working
  <2> QED
    BY <1>4, <2>1 DEF FlushOK, Files
<1>8. /\ Distinct(f.entries) /\ Sorted(FilesOf(current)) /\ Sorted({f})
  BY <1>7, VersionsSorted DEF LevelsInv, Sorted
<1>9. minKey(flush.files) = Lo(f) /\ maxKey(flush.files) = Hi(f)
      /\ Lo(f) \in Nat /\ Hi(f) \in Nat
  <2>1. IsRange({f}, minKey({f}), maxKey({f}))
    BY <1>7, <1>8, FilesOne, SortedRanged, RangeOfFiles
  <2> QED
    BY <1>7, <2>1 DEF IsRange
<1>10. /\ manifest'.files[l] = current[l] \cup {f}
       /\ \A k \in Levels : k # l => manifest'.files[k] = current[k]
  BY <1>2, <1>3, <1>4, <1>7 DEF Version
<1>11. \A k \in Levels : \A g \in current[k] : g \in File /\ Distinct(g.entries)
  BY <1>4, <1>8, VersionFiles DEF Sorted
<1>12. l # 0 => \A j \in 0 .. l : \A g \in current[j] : ~Overlaps(g, Lo(f), Hi(f))
  BY <1>2, <1>9 DEF OverlapInLevel
<1>13. \A j \in 0 .. l : j \in Levels
  BY <1>2, LevelsAssumption DEF Levels
<1>14. l # 0 => \A g \in current[l] : Apart(f.entries, g.entries)
                                      /\ Apart(g.entries, f.entries)
  <2>1. l \in 0 .. l
    BY <1>2 DEF Levels
  <2> QED
    BY <1>2, <1>8, <1>11, <1>12, <2>1, BesideNone
<1>15. Disjoint(manifest'.files)
  <2> SUFFICES ASSUME NEW k \in Levels \ {0}, NEW g \in manifest'.files[k],
                      NEW h \in manifest'.files[k], g # h
               PROVE  Apart(g.entries, h.entries)
    BY DEF Disjoint
  <2>1. CASE k = l
    <3>1. g \in current[l] /\ h \in current[l] => Apart(g.entries, h.entries)
      BY <2>1 DEF LevelsInv, Disjoint
    <3> QED
      BY <1>10, <1>14, <2>1, <3>1
  <2>2. CASE k # l
    BY <1>10, <2>2 DEF LevelsInv, Disjoint
  <2> QED
    BY <2>1, <2>2
<1>16. Compacting'
  <2> SUFFICES ASSUME compaction.pc = "merge"
               PROVE  Compacting'
    BY <1>4 DEF Compacting
  <2> DEFINE lev == compaction.level
             all == compaction.in[1] \cup compaction.in[2]
             taken == EntriesIn(all)
  <2>1. /\ Covered(all)
        /\ \A g \in current[lev + 1] \ compaction.in[2] : Apart(g.entries, taken)
        /\ UNION compaction.todo \subseteq taken
        /\ EntriesIn(compaction.outs) \subseteq taken
        /\ \A g, h \in compaction.outs : g # h => Apart(g.entries, h.entries)
        /\ \A g \in compaction.outs, t \in compaction.todo : Apart(g.entries, t)
    BY <1>6 DEF LevelsInv, Compacting
  <2>2. lev \in Levels /\ lev + 1 \in Levels /\ lev \in Nat
    BY <1>4, LevelsType DEF CompactionOK
  <2>3. l = lev + 1 => Apart(f.entries, taken)
    <3> SUFFICES ASSUME l = lev + 1
                 PROVE  Apart(f.entries, taken)
      OBVIOUS
    <3>1. l # 0 /\ lev \in 0 .. l /\ l \in 0 .. l
      BY <2>2
    <3>2. \A g \in all : g \in current[lev] \/ g \in current[l]
      BY DEF Base, Installing
    <3>3. Sorted(all)
      BY <1>2, <1>11, <2>2, <3>2 DEF Sorted
    <3>4. \A g \in all : ~Overlaps(g, Lo(f), Hi(f))
      BY <1>12, <3>1, <3>2
    <3> HIDE DEF all
    <3> QED
      BY ONLY <1>8, f \in File, <2>1, <3>3, <3>4, BesideCovered
  <2>4. \A g \in manifest'.files[lev + 1] \ compaction.in[2] : Apart(g.entries, taken)
    <3> HIDE DEF taken
    <3> QED
      BY <1>10, <2>1, <2>2, <2>3
  <2> QED
    BY <1>4, <2>1, <2>4 DEF Compacting
<1>17. /\ EntriesIn(FilesOf(manifest'.files)) \subseteq Tabled
  <2>1. FilesOf([current EXCEPT ![l] = @ \cup flush.files])
          = FilesOf(current) \cup flush.files
    BY ONLY <1>2, <1>4, FilesOfAdded
  <2>2. FilesOf(manifest'.files) = FilesOf(current) \cup flush.files
    BY ONLY <1>3, <2>1
  <2> QED
    BY <2>2, EntriesInMember DEF Tabled
<1>18. Tabled' \subseteq Tabled
  BY <1>4, <1>5, <1>17 DEF Tabled
<1>19. \A e : InLogs(e)' => InLogs(e)
  <2>1. needed' \subseteq needed
    <3>1. manifest'.log = logfile /\ manifest.log <= logfile
      BY <1>1, <1>4 DEF LogEdit, Base, Numbers
    <3>2. manifest.log \in Nat /\ logfile \in Nat /\ LogsOK
      BY DEF Base, TypeOK, ManifestOK
    <3> QED
      BY <1>4, <3>1, <3>2 DEF needed, LogsOK
  <2> QED
    BY <1>4, <2>1 DEF InLogs
<1>20. Identified'
  <2>1. lastSequence <= lastSequence'
    BY <1>4 DEF Base, TypeOK
  <2> QED
    BY ONLY Base, Base', LevelsInv, <1>3, <1>4, <1>17, <1>18, <1>19, <2>1, IdentifiedFrame
    DEF LevelsInv
<1> QED
  BY <1>4, <1>15, <1>16, <1>20 DEF LevelsInv

\* What is apart from some entries is apart from any of them.
LEMMA ApartFromSome ==
  ASSUME NEW E, NEW T, Apart(E, T), NEW S \in SUBSET T
  PROVE  Apart(E, S) /\ Apart(S, E)
BY DEF Apart, InOrder

\* Fewer logs, or fewer that count, have no new entry.
LEMMA FewerLogs ==
  ASSUME LogsOK, ManifestOK, ManifestOK', manifest.log <= manifest'.log,
         DOMAIN logs' \subseteq DOMAIN logs,
         \A n \in DOMAIN logs' : logs'[n] = logs[n]
  PROVE  \A e : InLogs(e)' => InLogs(e)
<1>1. \A n \in needed' : n \in needed /\ logs'[n] = logs[n]
  BY DEF LogsOK, ManifestOK, needed
<1> QED
  BY <1>1 DEF InLogs

\* The outputs of a compaction take the place of its inputs.
LEMMA LogCompactionKeepsLevels ==
  ASSUME Base, Base', LevelsInv, LogCompaction
  PROVE  LevelsInv'
<1> DEFINE lev == compaction.level
           in == compaction.in
           outs == compaction.outs
           taken == EntriesIn(in[1] \cup in[2])
<1>1. /\ up # "down" /\ up' = up /\ flush.pc = "none" /\ compaction.pc = "merge"
      /\ UNCHANGED <<current, mem, imm, flush, logs, lastSequence>>
      /\ manifest'.files = compacted /\ manifest'.last = lastSequence
      /\ manifest'.log = logNumber /\ compaction'.pc = "install"
      /\ current \in Version /\ CompactionOK
  BY NothingType DEF LogCompaction, LogEdit, writeVars, fileVars, Base, TypeOK,
     Phases, CompactionOK
<1>2. manifest.files = current /\ logNumber = manifest.log
  BY <1>1 DEF Base, Installing, Numbers
<1>3. lev \in Levels /\ lev + 1 \in Levels /\ lev # lev + 1
  BY <1>1, LevelsType DEF CompactionOK
<1>4. /\ in[1] \subseteq current[lev] /\ in[2] \subseteq current[lev + 1]
  BY DEF Base, Installing
<1>5. /\ \A g \in current[lev + 1] \ in[2] : Apart(g.entries, taken)
      /\ EntriesIn(outs) \subseteq taken
      /\ \A f, g \in outs : f # g => Apart(f.entries, g.entries)
  BY <1>1, <1>2 DEF LevelsInv, Compacting
<1>6. \A k \in Levels : compacted[k] =
        IF k = lev THEN current[k] \ in[1]
        ELSE IF k = lev + 1 THEN (current[k] \ in[2]) \cup outs
        ELSE current[k]
  BY <1>1, CompactedType
<1>7. \A g \in current[lev + 1] \ in[2], h \in outs :
        Apart(g.entries, h.entries) /\ Apart(h.entries, g.entries)
  <2>1. \A h \in outs : h.entries \subseteq taken
    BY <1>5, EntriesInMember
  <2> HIDE DEF taken, outs, in, lev
  <2> QED
    BY <1>5, <2>1, ApartFromSome
<1>8. taken \subseteq EntriesIn(FilesOf(current))
  <2>1. in[1] \cup in[2] \subseteq FilesOf(current)
    BY <1>3, <1>4, FilesOfMember
  <2> QED
    BY <2>1, EntriesInMember
<1> HIDE DEF taken, outs, in, lev
<1>9. Disjoint(manifest'.files)
  <2> SUFFICES ASSUME NEW k \in Levels \ {0}, NEW g \in compacted[k],
                      NEW h \in compacted[k], g # h
               PROVE  Apart(g.entries, h.entries)
    BY <1>1 DEF Disjoint
  <2>1. g \in current[k] /\ h \in current[k] => Apart(g.entries, h.entries)
    BY DEF LevelsInv, Disjoint
  <2>2. CASE k = lev + 1
    <3>1. /\ g \in current[k] \ in[2] \/ g \in outs
          /\ h \in current[k] \ in[2] \/ h \in outs
      BY <1>3, <1>6, <2>2
    <3> QED
      BY <1>5, <1>7, <2>1, <2>2, <3>1
  <2>3. CASE k # lev + 1
    BY <1>6, <2>1, <2>3
  <2> QED
    BY <2>2, <2>3
<1>10. EntriesIn(FilesOf(manifest'.files)) \subseteq Tabled
  <2>1. FilesOf(compacted) \subseteq FilesOf(current) \cup outs
    BY <1>1, FilesOfCompacted DEF outs
  <2>2. EntriesIn(FilesOf(compacted)) \subseteq
          EntriesIn(FilesOf(current)) \cup EntriesIn(outs)
    BY <2>1, EntriesInMember
  <2>3. EntriesIn(FilesOf(compacted)) \subseteq EntriesIn(FilesOf(current))
    BY <1>5, <1>8, <2>2
  <2> QED
    BY <1>1, <2>3 DEF Tabled
<1>11. Tabled' \subseteq Tabled
  BY <1>1, <1>10 DEF Tabled
<1>12. \A e : InLogs(e)' => InLogs(e)
  BY <1>1, <1>2 DEF InLogs, needed
<1>13. Identified'
  <2>1. lastSequence <= lastSequence'
    BY <1>1 DEF Base, TypeOK
  <2> QED
    BY ONLY Base, Base', LevelsInv, <1>1, <1>10, <1>11, <1>12, <2>1, IdentifiedFrame
    DEF LevelsInv
<1>14. Compacting'
  BY <1>1 DEF Compacting
<1> QED
  BY <1>1, <1>9, <1>13, <1>14 DEF LevelsInv

\* Installing a version drops what it has replaced.
LEMMA InstallKeepsLevels ==
  ASSUME Base, Base', LevelsInv, InstallFlush \/ InstallCompaction
  PROVE  LevelsInv'
<1>1. /\ up # "down" /\ up' = up /\ manifest' = manifest
      /\ current' = manifest.files /\ LogsOK /\ tables \in SUBSET File
      /\ UNCHANGED <<mem, lastSequence>> /\ imm' \subseteq imm
      /\ flush'.files \subseteq flush.files
      /\ compaction' = compaction \/ compaction' = NoCompaction
      /\ ManifestOK /\ manifest.log \in Nat
  BY NothingType DEF InstallFlush, InstallCompaction, Base, TypeOK, Phases, ManifestOK
<1>2. /\ DOMAIN logs' \subseteq DOMAIN logs
      /\ \A n \in DOMAIN logs' : logs'[n] = logs[n]
  <2>1. CASE logs' = logs
    BY <2>1
  <2>2. CASE \E log \in Nat : \E pending : DeleteObsoleteFiles(current', log, pending)
    BY <1>1, <2>2, DeleteType
  <2>3. \/ logs' = logs
        \/ \E log \in Nat : \E pending : DeleteObsoleteFiles(current', log, pending)
    <3>1. logNumber \in Nat
      BY DEF Base, TypeOK
    <3>2. CASE InstallFlush
      <4>1. logNumber' = manifest.log
            /\ DeleteObsoleteFiles(current', logNumber', pendingOutputs)
        BY <3>2 DEF InstallFlush
      <4> QED
        BY ONLY <1>1, <4>1
    <3>3. CASE InstallCompaction
      <4>1. \/ logs' = logs
            \/ DeleteObsoleteFiles(current', logNumber, pendingOutputs')
        BY <3>3 DEF InstallCompaction
      <4> QED
        BY ONLY <3>1, <4>1
    <3> QED
      BY <3>2, <3>3
  <2> QED
    BY <2>1, <2>2, <2>3
<1>3. \A e : InLogs(e)' => InLogs(e)
  <2>1. ManifestOK' /\ manifest.log <= manifest'.log
    BY <1>1 DEF Base, TypeOK
  <2> QED
    BY <1>1, <1>2, <2>1, FewerLogs
<1>4. Tabled' \subseteq Tabled
  BY <1>1, EntriesInMember DEF Tabled
<1>5. Identified'
  <2>1. lastSequence <= lastSequence'
    BY <1>1 DEF Base, TypeOK
  <2> QED
    BY ONLY Base, Base', LevelsInv, <1>1, <1>3, <1>4, <2>1, IdentifiedFrame
    DEF LevelsInv
<1>6. Compacting'
  <2>1. CASE compaction' = compaction
    BY <1>1, <2>1 DEF LevelsInv, Compacting
  <2>2. CASE compaction' = NoCompaction
    BY <2>2, NothingType DEF Compacting
  <2> QED
    BY <1>1, <2>1, <2>2
<1> QED
  BY <1>1, <1>5, <1>6 DEF LevelsInv

\* What DB::Open adds is in level 0.
LEMMA FinishOpenKeepsLevels ==
  ASSUME Base, Base', LevelsInv, FinishOpen
  PROVE  LevelsInv'
<1>1. /\ up = "opening" /\ up' = "up" /\ LogsOK /\ tables \in SUBSET File
      /\ UNCHANGED <<mem, imm, lastSequence, compaction>>
      /\ compaction = NoCompaction /\ logfile \in Nat
      /\ current' = manifest'.files /\ flush' = NoFlush /\ logNumber' = logfile
      /\ ManifestOK /\ manifest.log <= logfile /\ current \in Version
  BY DEF FinishOpen, Base, TypeOK, Phases, Numbers
<1>2. /\ manifest'.files = [current EXCEPT ![0] = @ \cup flush.files]
      /\ manifest'.last = lastSequence /\ manifest'.log = logfile
  BY DEF FinishOpen, LogEdit
<1>3. Disjoint(manifest'.files)
  <2>1. \A l \in Levels \ {0} : manifest'.files[l] = current[l]
    BY <1>1, <1>2 DEF Version
  <2> QED
    BY <2>1 DEF LevelsInv, Disjoint
<1>4. EntriesIn(FilesOf(manifest'.files)) \subseteq Tabled
  <2>1. FilesOf([current EXCEPT ![0] = @ \cup flush.files])
          = FilesOf(current) \cup flush.files
    BY ONLY <1>1, LevelsType, FilesOfAdded
  <2>2. FilesOf(manifest'.files) = FilesOf(current) \cup flush.files
    BY ONLY <1>2, <2>1
  <2> QED
    BY <2>2, EntriesInMember DEF Tabled
<1>5. Tabled' \subseteq Tabled
  BY <1>1, <1>4, NothingType, EntriesInMember DEF Tabled
<1>6. \A e : InLogs(e)' => InLogs(e)
  <2>1. DeleteObsoleteFiles(current', logfile, pendingOutputs)
    BY <1>1 DEF FinishOpen
  <2>2. /\ DOMAIN logs' \subseteq DOMAIN logs
        /\ \A n \in DOMAIN logs' : logs'[n] = logs[n]
    BY ONLY <1>1, <2>1, DeleteType
  <2>3. ManifestOK'
    BY DEF Base, TypeOK
  <2> QED
    BY ONLY <1>1, <1>2, <2>2, <2>3, FewerLogs
<1>7. Identified'
  <2>1. lastSequence <= lastSequence' /\ up # "down" /\ up' # "down"
    BY <1>1 DEF Base, TypeOK
  <2> QED
    BY ONLY Base, Base', LevelsInv, <1>2, <1>4, <1>5, <1>6, <2>1, IdentifiedFrame
    DEF LevelsInv
<1>8. Compacting'
  BY <1>1, NothingType DEF Compacting
<1> QED
  BY <1>1, <1>3, <1>7, <1>8 DEF LevelsInv

LEMMA StutterKeepsLevels ==
  ASSUME LevelsInv, UNCHANGED vars
  PROVE  LevelsInv'
BY ZenonT(60)
DEF LevelsInv, Identified, Known, Tabled, Compacting, Disjoint, needed, vars,
   diskVars, writeVars, fileVars, threadVars

LEMMA InitLevels == Init => LevelsInv
<1> SUFFICES ASSUME Init
             PROVE  LevelsInv
  OBVIOUS
<1>1. Base
  BY InitBase
<1>2. /\ mem = {} /\ imm = {} /\ flush.files = {} /\ compaction.pc = "none"
      /\ current = EmptyVersion /\ manifest.files = EmptyVersion
      /\ logs = [n \in {3} |-> EmptyLog]
  BY NothingType DEF Init
<1>3. Tabled = {} /\ EntriesIn(FilesOf(manifest.files)) = {}
  BY <1>2, EmptyVersionType, EntriesInMember DEF Tabled
<1>4. \A e : ~InLogs(e)
  <2>1. \A n \in needed : Len(logs[n].recs) = 0
    <3>1. Len(EmptyLog.recs) = 0
      BY DEF EmptyLog
    <3> QED
      BY <1>2, <3>1 DEF needed
  <2>2. \A n \in needed : \A i : ~(i \in 1 .. Len(logs[n].recs))
    BY <2>1
  <2> QED
    BY <2>2 DEF InLogs
<1>5. \A e : e \notin Known
  BY <1>1, <1>3, <1>4, KnownMembers DEF KnownParts
<1>6. Identified
  BY <1>3, <1>5 DEF Identified, Distinct
<1>7. Disjoint(current) /\ Disjoint(manifest.files)
  BY <1>2 DEF Disjoint, EmptyVersion
<1> QED
  BY <1>2, <1>6, <1>7 DEF LevelsInv, Compacting

LEMMA NextLevels == Base /\ Base' /\ SyncInv /\ LevelsInv /\ [Next]_vars => LevelsInv'
BY QuietKeepsLevels, SwitchKeepsLevels, LogGroupKeepsLevels, SyncLogKeepsLevels,
   FinishGroupKeepsLevels, LogFlushKeepsLevels, InstallKeepsLevels,
   StartCompactionKeepsLevels, WriteOutputKeepsLevels, LogCompactionKeepsLevels,
   CrashKeepsLevels, RecoverKeepsLevels, FinishOpenKeepsLevels, StutterKeepsLevels
DEF Next, Leader, Background, SizeCompaction, OtherCompaction

\* The files of a level above 0 never overlap (version_set.cc:763): not when
\* a memtable is flushed past level 0 in the middle of a compaction into its
\* level, nor when a compaction takes more files of its level.
THEOREM LevelsSafe == Spec => []LevelsAreDisjoint
<1>1. Init => Base /\ SyncInv /\ LevelsInv
  BY InitBase, InitPromises, InitLevels
<1>2. Base /\ SyncInv /\ LevelsInv /\ [Next]_vars => (Base /\ SyncInv /\ LevelsInv)'
  BY NextBase, NextPromises, NextLevels
<1>3. Base /\ LevelsInv => LevelsAreDisjoint
  <2> SUFFICES ASSUME Base, LevelsInv, NEW l \in Levels \ {0},
                      NEW f \in current[l], NEW g \in current[l], f # g
               PROVE  \/ Before(largest(f), smallest(g))
                      \/ Before(largest(g), smallest(f))
    BY DEF LevelsAreDisjoint
  <2>1. Apart(f.entries, g.entries)
    BY DEF LevelsInv, Disjoint
  <2>2. /\ f \in File /\ Distinct(f.entries)
        /\ g \in File /\ Distinct(g.entries)
    BY VersionsSorted, FilesOfMember DEF Sorted, LevelsInv
  <2>3. /\ smallest(f) \in f.entries /\ largest(f) \in f.entries
        /\ smallest(g) \in g.entries /\ largest(g) \in g.entries
    BY <2>2, FileBounds
  <2> QED
    BY <2>1, <2>3 DEF Apart, InOrder
<1> QED
  BY <1>1, <1>2, <1>3, PTL DEF Spec

-----------------------------------------------------------------------------
(* What a reader finds *)

\* Of a key outside K everything in A is newer than everything in B.
Newer(A, B, K) ==
  \A a \in A, b \in B : a.key = b.key /\ a.key \notin K => b.seq < a.seq

\* No key outside K is in both A and B.
Parted(A, B, K) == \A a \in A, b \in B : a.key = b.key => a.key \in K

Later(A, B) == \A a \in A, b \in B : b.seq < a.seq

\* A lookup that goes from level to level, and in level 0 from the newest
\* file to the oldest, meets the entries of a key outside K from the newest
\* to the oldest; in another level they are all in one file.
Ordered(v, K) ==
  /\ \A i, j \in Levels : i < j => Newer(EntriesIn(v[i]), EntriesIn(v[j]), K)
  /\ \A f, g \in v[0] : f # g => /\ f.num # g.num
                                 /\ g.num < f.num => Newer(f.entries, g.entries, K)
  /\ \A l \in Levels \ {0} : \A f, g \in v[l] :
       f # g => Parted(f.entries, g.entries, K)

IsSeen(e, k, s) == e.key = k /\ e.seq <= s

LEMMA NewestMember ==
  \A E, k, s, e : e \in Newest(E, k, s) <=>
    /\ e \in E /\ IsSeen(e, k, s)
    /\ \A x \in E : IsSeen(x, k, s) => x.seq <= e.seq
BY DEF Newest, IsSeen

\* The newest of the entries a reader may see exists.
LEMMA HasNewest ==
  ASSUME NEW E \in SUBSET Entry, NEW k, NEW s \in Nat, NEW e \in E,
         IsSeen(e, k, s)
  PROVE  Newest(E, k, s) # {}
<1> DEFINE T == {n \in Nat : \E x \in E : IsSeen(x, k, s) /\ x.seq + n = s}
<1>1. \A x \in E : IsSeen(x, k, s) => x.seq \in Nat /\ s - x.seq \in T
  BY DEF IsSeen, Entry
<1>2. T # {} /\ T \in SUBSET Nat
  BY <1>1
<1>3. PICK n \in T : \A m \in T : n <= m
  <2> HIDE DEF T
  <2> QED
    BY <1>2, LeastOf
<1>4. PICK x \in E : IsSeen(x, k, s) /\ x.seq + n = s
  OBVIOUS
<1>5. \A y \in E : IsSeen(y, k, s) => y.seq <= x.seq
  <2> SUFFICES ASSUME NEW y \in E, IsSeen(y, k, s)
               PROVE  y.seq <= x.seq
    OBVIOUS
  <2>1. n <= s - y.seq /\ x.seq \in Nat /\ y.seq \in Nat /\ n \in Nat
    BY <1>1, <1>3, <1>4
  <2> QED
    BY <1>4, <2>1
<1> QED
  BY <1>4, <1>5, NewestMember

\* When A has something to show and what it shows is newer than all that
\* the rest of B has of the key, A answers for B.
LEMMA NewestAbove ==
  ASSUME NEW B \in SUBSET Entry, NEW A \in SUBSET B, NEW k, NEW s \in Nat,
         Newest(A, k, s) # {},
         \A a \in A, b \in B : IsSeen(a, k, s) /\ IsSeen(b, k, s) /\ b \notin A
                                 => b.seq < a.seq
  PROVE  Newest(B, k, s) = Newest(A, k, s)
<1>1. PICK a \in A : /\ IsSeen(a, k, s)
                     /\ \A x \in A : IsSeen(x, k, s) => x.seq <= a.seq
  BY NewestMember
<1>2. \A e \in B : e.seq \in Nat
  BY DEF Entry
<1>3. ASSUME NEW e, e \in Newest(A, k, s)
      PROVE  e \in Newest(B, k, s)
  <2>1. e \in A /\ IsSeen(e, k, s) /\ \A x \in A : IsSeen(x, k, s) => x.seq <= e.seq
    BY <1>3, NewestMember
  <2>2. \A x \in B : IsSeen(x, k, s) => x.seq <= e.seq
    BY <1>2, <2>1
  <2> QED
    BY <2>1, <2>2, NewestMember
<1>4. ASSUME NEW e, e \in Newest(B, k, s)
      PROVE  e \in Newest(A, k, s)
  <2>1. /\ e \in B /\ IsSeen(e, k, s)
        /\ \A x \in B : IsSeen(x, k, s) => x.seq <= e.seq
    BY <1>4, NewestMember
  <2>2. a.seq <= e.seq /\ a.seq \in Nat /\ e.seq \in Nat
    BY <1>1, <1>2, <2>1
  <2>3. e \in A
    BY <1>1, <2>1, <2>2
  <2> QED
    BY <2>1, <2>3, NewestMember
<1> QED
  BY <1>3, <1>4

LEMMA NewestNone ==
  ASSUME NEW E \in SUBSET Entry, NEW k, NEW s \in Nat
  PROVE  Newest(E, k, s) = {} <=> \A e \in E : ~IsSeen(e, k, s)
<1>1. (\A e \in E : ~IsSeen(e, k, s)) => Newest(E, k, s) = {}
  BY NewestMember
<1> QED
  BY <1>1, HasNewest

-----------------------------------------------------------------------------
(* Reading a version *)

\* Level 0 answers with the newest of its entries.
LEMMA LevelGetZero ==
  ASSUME NEW v \in Version, NEW K, Ordered(v, K), NEW k, k \notin K, NEW s \in Nat
  PROVE  LevelGet(v, 0, k, s) = Newest(EntriesIn(v[0]), k, s)
<1> DEFINE E == EntriesIn(v[0])
           hits == {f \in v[0] : Newest(f.entries, k, s) # {}}
           file == {f \in hits : \A g \in hits : g.num <= f.num}
<1>1. v[0] \in Files /\ E \in SUBSET Entry
  BY LevelsType, EntriesInType DEF Version, EntrySets
<1>2. \A f \in v[0] : /\ f.entries \in SUBSET Entry /\ f.entries \subseteq E
                      /\ f.num \in Nat
  BY <1>1, EntriesInType DEF Table, EntrySets
<1>3. LevelGet(v, 0, k, s) = UNION {Newest(f.entries, k, s) : f \in file}
  BY DEF LevelGet
<1>4. \A e \in E : \E f \in v[0] : e \in f.entries
  BY EntriesInMember
<1>5. \A f \in v[0] \ hits : \A e \in f.entries : ~IsSeen(e, k, s)
  BY <1>2, NewestNone
<1>6. CASE hits = {}
  <2>1. \A e \in E : ~IsSeen(e, k, s)
    BY <1>4, <1>5, <1>6
  <2>2. Newest(E, k, s) = {}
    BY <1>1, <2>1, NewestNone
  <2>3. file = {}
    BY <1>6
  <2> HIDE DEF file
  <2>4. UNION {Newest(f.entries, k, s) : f \in file} = {}
    BY <2>3
  <2> QED
    BY <1>3, <2>2, <2>4
<1>7. CASE hits # {}
  <2>1. IsFiniteSet(v[0])
    BY <1>1 DEF Files
  <2>2. IsFiniteSet(hits)
    BY <2>1, FS_Subset
  <2> DEFINE N == {f.num : f \in hits}
             num == [f \in hits |-> f.num]
  <2>3. N = {num[f] : f \in hits}
    OBVIOUS
  <2>4. N \in SUBSET Nat /\ N # {}
    BY <1>2, <1>7
  <2>5. IsFiniteSet(N)
    <3> HIDE DEF N, num, hits
    <3> QED
      BY <2>2, <2>3, ImageFinite
  <2>6. Max(N) \in N /\ \A x \in N : x <= Max(N)
    <3> HIDE DEF N
    <3> QED
      BY <2>4, <2>5, MinMax
  <2>7. PICK f \in hits : f.num = Max(N)
    BY <2>6
  <2>8. \A g \in hits : g.num <= f.num
    BY <2>6, <2>7
  <2>9. \A g \in v[0] \ {f} : g \in hits => g.num < f.num
    <3> SUFFICES ASSUME NEW g \in v[0] \ {f}, g \in hits
                 PROVE  g.num < f.num
      OBVIOUS
    <3>1. g.num # f.num
      BY DEF Ordered
    <3> QED
      BY <1>2, <2>8, <3>1
  <2>10. file = {f}
    <3>1. f \in file
      BY <2>8
    <3>2. \A g \in file : g = f
      <4> SUFFICES ASSUME NEW g \in file, g # f
                   PROVE  FALSE
        OBVIOUS
      <4>1. g.num < f.num /\ f.num <= g.num /\ g.num \in Nat /\ f.num \in Nat
        BY <1>2, <2>9
      <4> QED
        BY <4>1
    <3> QED
      BY <3>1, <3>2
  <2>11. LevelGet(v, 0, k, s) = Newest(f.entries, k, s)
    <3> HIDE DEF file
    <3> QED
      BY <1>3, <2>10
  <2>12. \A a \in f.entries, b \in E :
            IsSeen(a, k, s) /\ IsSeen(b, k, s) /\ b \notin f.entries
              => b.seq < a.seq
    <3> SUFFICES ASSUME NEW a \in f.entries, NEW b \in E, b \notin f.entries,
                        IsSeen(a, k, s), IsSeen(b, k, s)
                 PROVE  b.seq < a.seq
      OBVIOUS
    <3>1. PICK g \in v[0] : b \in g.entries
      BY <1>4
    <3>2. g # f /\ g \in hits
      BY <1>5, <3>1
    <3>3. Newer(f.entries, g.entries, K)
      BY <2>9, <3>2 DEF Ordered
    <3> QED
      BY <3>1, <3>3 DEF Newer, IsSeen
  <2>13. f.entries \in SUBSET E /\ Newest(f.entries, k, s) # {}
    BY <1>2
  <2> QED
    BY ONLY <1>1, <2>11, <2>12, <2>13, s \in Nat, NewestAbove
<1> QED
  BY <1>6, <1>7

\* So does another level, from the one file a lookup opens.
LEMMA LevelGetOther ==
  ASSUME NEW v \in Version, NEW K, Ordered(v, K), Disjoint(v),
         Sorted(FilesOf(v)), NEW k \in Nat, k \notin K, NEW s \in Nat,
         NEW l \in Levels \ {0}
  PROVE  LevelGet(v, l, k, s) = Newest(EntriesIn(v[l]), k, s)
<1> DEFINE E == EntriesIn(v[l])
           reaching == {f \in v[l] : LET e == largest(f)
                                     IN  e.key > k \/ (e.key = k /\ e.seq <= s)}
           file == FindFile(v[l], k, s)
<1>1. v[l] \in Files /\ E \in SUBSET Entry
  BY EntriesInType DEF Version, EntrySets
<1>2. \A f \in v[l] : /\ f \in File /\ Distinct(f.entries)
                      /\ f.entries \in SUBSET Entry /\ f.entries \subseteq E
  BY <1>1, VersionFiles, EntriesInType DEF Table, EntrySets, Sorted
<1>3. LevelGet(v, l, k, s) = UNION {Newest(f.entries, k, s) : f \in file}
  BY DEF LevelGet
<1>4. file = {f \in reaching : \A g \in reaching \ {f} :
                                 Before(smallest(f), smallest(g))}
  BY DEF FindFile
<1>5. \A e \in E : \E f \in v[l] : e \in f.entries
  BY EntriesInMember
<1>6. file \subseteq v[l]
  BY <1>4
<1> HIDE DEF file
<1>7. CASE \A e \in E : ~IsSeen(e, k, s)
  <2>1. Newest(E, k, s) = {}
    BY <1>1, <1>7, NewestNone
  <2>2. \A f \in file : Newest(f.entries, k, s) = {}
    BY <1>2, <1>6, <1>7, NewestNone
  <2>3. UNION {Newest(f.entries, k, s) : f \in file} = {}
    BY <2>2
  <2> QED
    BY <1>3, <2>1, <2>3
<1>8. ASSUME NEW e \in E, IsSeen(e, k, s)
      PROVE  LevelGet(v, l, k, s) = Newest(E, k, s)
  <2>1. PICK h \in v[l] : e \in h.entries
    BY <1>5
  <2>2. e \in Entry /\ e.key = k /\ e.seq <= s /\ e.seq \in Nat
    BY <1>1, <1>8 DEF IsSeen, Entry
  <2>3. h \in reaching
    <3>1. largest(h) \in Entry /\ (e = largest(h) \/ Before(e, largest(h)))
      BY <1>2, <2>1, FileBounds
    <3> QED
      BY <2>2, <3>1 DEF Before, Entry
  \* A file that reaches the target cannot come before the one that has it.
  <2>4. ASSUME NEW g \in reaching, g # h, InOrder(g.entries, h.entries)
        PROVE  FALSE
    <3>1. largest(g) \in g.entries /\ largest(g) \in Entry
      BY <1>2, FileBounds
    <3>2. Before(largest(g), e)
      BY <2>1, <2>4, <3>1 DEF InOrder
    <3>3. largest(g).key = k
      BY <2>2, <3>1, <3>2 DEF Before, Entry
    <3>4. Parted(g.entries, h.entries, K)
      BY <2>4 DEF Ordered
    <3> QED
      BY <2>1, <2>2, <3>1, <3>3, <3>4 DEF Parted
  <2>5. \A g \in reaching \ {h} : InOrder(h.entries, g.entries)
    BY <2>4 DEF Disjoint, Apart
  <2>6. \A g \in reaching \ {h} : Before(smallest(h), smallest(g))
    <3> SUFFICES ASSUME NEW g \in reaching \ {h}
                 PROVE  Before(smallest(h), smallest(g))
      OBVIOUS
    <3>1. smallest(g) \in g.entries /\ smallest(h) \in h.entries
      BY <1>2, FileBounds
    <3> QED
      BY <2>5, <3>1 DEF InOrder
  <2>7. file = {h}
    <3>1. h \in file
      BY <1>4, <2>3, <2>6
    <3>2. \A g \in file : g = h
      <4> SUFFICES ASSUME NEW g \in file, g # h
                   PROVE  FALSE
        OBVIOUS
      <4>1. g \in reaching \ {h} /\ Before(smallest(g), smallest(h))
        BY <1>4, <2>3
      <4>2. Before(smallest(h), smallest(g))
        BY <2>6, <4>1
      <4>3. smallest(g) \in Entry /\ smallest(h) \in Entry
        BY <1>2, <4>1, FileBounds
      <4> QED
        BY <4>1, <4>2, <4>3, BeforeOrder
    <3> QED
      BY <3>1, <3>2
  <2>8. LevelGet(v, l, k, s) = Newest(h.entries, k, s)
    BY <1>3, <2>7
  <2>9. ASSUME NEW b \in E, b \notin h.entries
        PROVE  ~IsSeen(b, k, s)
    <3>1. PICK g \in v[l] : b \in g.entries /\ g # h
      BY <1>5, <2>9
    <3>2. Parted(g.entries, h.entries, K)
      BY <3>1 DEF Ordered
    <3> QED
      BY <2>1, <2>2, <3>1, <3>2 DEF Parted, IsSeen
  <2>10. Newest(h.entries, k, s) # {} /\ h.entries \in SUBSET E
    BY <1>2, <1>8, <2>1, HasNewest
  <2>11. \A a \in h.entries, b \in E :
           IsSeen(a, k, s) /\ IsSeen(b, k, s) /\ b \notin h.entries
             => b.seq < a.seq
    BY <2>9
  <2> QED
    BY ONLY <1>1, <2>8, <2>10, <2>11, s \in Nat, NewestAbove
<1> QED
  BY <1>7, <1>8

\* A lookup in a version finds the newest of its entries.
LEMMA VersionGetIsNewest ==
  ASSUME NEW v \in Version, NEW K, Ordered(v, K), Disjoint(v),
         Sorted(FilesOf(v)), NEW k \in Nat, k \notin K, NEW s \in Nat
  PROVE  VersionGet(v, k, s) = Newest(EntriesIn(FilesOf(v)), k, s)
<1> DEFINE E(l) == EntriesIn(v[l])
           all == EntriesIn(FilesOf(v))
           hits == {l \in Levels : LevelGet(v, l, k, s) # {}}
<1>1. \A l \in Levels : LevelGet(v, l, k, s) = Newest(E(l), k, s)
  BY LevelGetZero, LevelGetOther
<1>2. \A e : e \in all <=> \E l \in Levels : e \in E(l)
  BY EntriesInMember, FilesOfMember
<1>3. \A l \in Levels : E(l) \in SUBSET Entry
  BY VersionFiles, EntriesInType DEF EntrySets
<1>4. all \in SUBSET Entry
  BY <1>2, <1>3
<1>5. VersionGet(v, k, s) = IF hits = {} THEN {} ELSE LevelGet(v, Min(hits), k, s)
  BY DEF VersionGet
<1>6. \A l \in Levels \ hits : \A e \in E(l) : ~IsSeen(e, k, s)
  BY <1>1, <1>3, NewestNone
<1> HIDE DEF E, all
<1>7. CASE hits = {}
  <2>1. \A e \in all : ~IsSeen(e, k, s)
    BY <1>2, <1>6, <1>7
  <2>2. Newest(all, k, s) = {}
    BY <1>4, <2>1, NewestNone
  <2> QED
    BY <1>5, <1>7, <2>2 DEF all
<1>8. CASE hits # {}
  <2> DEFINE l == Min(hits)
  <2>1. Levels \in SUBSET Nat /\ IsFiniteSet(Levels)
    BY LevelsAssumption, FS_Interval DEF Levels
  <2>2. hits \in SUBSET Nat /\ IsFiniteSet(hits)
    BY <2>1, FS_Subset
  <2>3. l \in hits /\ \A j \in hits : l <= j
    <3> HIDE DEF hits
    <3> QED
      BY <1>8, <2>2, MinMax
  <2> HIDE DEF l
  <2>4. VersionGet(v, k, s) = Newest(E(l), k, s) /\ Newest(E(l), k, s) # {}
    BY <1>1, <1>5, <1>8, <2>3 DEF l
  <2>5. \A a \in E(l), b \in all :
           IsSeen(a, k, s) /\ IsSeen(b, k, s) /\ b \notin E(l) => b.seq < a.seq
    <3> SUFFICES ASSUME NEW a \in E(l), NEW b \in all, b \notin E(l),
                        IsSeen(a, k, s), IsSeen(b, k, s)
                 PROVE  b.seq < a.seq
      OBVIOUS
    <3>1. PICK j \in Levels : b \in E(j)
      BY <1>2
    <3>2. j \in hits /\ j # l
      BY <1>6, <3>1
    <3>3. l < j /\ l \in Levels
      BY <2>1, <2>3, <3>2
    <3>4. Newer(E(l), E(j), K)
      BY <3>1, <3>3 DEF Ordered, E
    <3> QED
      BY <3>1, <3>4 DEF Newer, IsSeen
  <2>6. E(l) \in SUBSET all
    BY <1>2, <2>3
  <2>7. Newest(all, k, s) = Newest(E(l), k, s)
    BY <1>4, <2>4, <2>5, <2>6, NewestAbove
  <2> QED
    BY <2>4, <2>7 DEF all
<1> QED
  BY <1>7, <1>8

-----------------------------------------------------------------------------
(* What is in the memtables, in the tables and in the logs *)

Held(n) == Entries(logs[n].recs)
Logged == UNION {Held(n) : n \in needed}

\* The committed entries a crash leaves to the tables of the MANIFEST, and
\* those a reader finds in the current version.
Settled == committed \ Logged
Flushed == committed \ (mem \cup imm)

\* The sequence numbers no reader asks below.  There is no reader before
\* the database is open.
visible ==
  {q \in Nat : up = "up" => q <= lastSequence /\ \A s \in snapshots : q <= s}

Owned ==
  /\ Distinct(committed \cup Logged)
  /\ mem \cup imm \cup EntriesIn(FilesOf(current)) \subseteq committed
  /\ EntriesIn(FilesOf(manifest.files)) \subseteq Settled
  /\ up # "up" => Logged \subseteq committed
  /\ IsFiniteSet(snapshots) /\ \A s \in snapshots : s <= lastSequence

\* The logs follow each other, and all of them follow the tables.
LogOrder ==
  /\ \A m, n \in needed : m < n => Later(Held(n), Held(m))
  /\ \A n \in needed : Later(Held(n), Settled)

Older == UNION {Held(n) : n \in needed \ {logfile}}

\* The memtable is what the log in use holds of the committed entries, the
\* one being flushed what the other logs hold, until the MANIFEST no longer
\* counts on them.
MemOrder ==
  up = "up" =>
    /\ Later(mem, committed \ mem) /\ Later(imm, Flushed)
    /\ committed \cap Held(logfile) = mem
    /\ committed \cap Older = IF flush.pc = "install" THEN {} ELSE imm
    /\ EntriesIn(FilesOf(current)) \subseteq Flushed

\* A table about to be added has a greater number than all of level 0, and
\* the tables of a recovery are the logs, numbered in their order.
OpenOrder ==
  /\ \A f \in flush.files, g \in current[0] : g.num < f.num
  /\ up = "opening" =>
       /\ Held(logfile) = {} /\ EntriesIn(flush.files) = Logged
       /\ \A f, g \in flush.files :
            f # g => f.num # g.num /\ (g.num < f.num => Later(f.entries, g.entries))

\* A newer entry of E hides e from every reader.
Hidden(e, E, W) == \E x \in E : x.key = e.key /\ e.seq < x.seq /\ x.seq \in W

\* The deletion marker e has nothing to hide in E.
Obsolete(e, E, W) ==
  /\ e.del /\ e.seq \in W
  /\ \A y \in E : y.key = e.key => e.seq < y.seq

\* What the version v lacks of S no reader misses.
Shown(v, S, K, W) ==
  \A e \in S : e \notin EntriesIn(FilesOf(v)) /\ e.key \notin K =>
    Hidden(e, S, W) \/ Obsolete(e, EntriesIn(FilesOf(v)), W)

\* What compaction c makes of its inputs may take their place in v.
Merges(c, v, K, W) ==
  LET taken == EntriesIn(c.in[1] \cup c.in[2])
      result == (UNION c.todo) \cup EntriesIn(c.outs)
  IN  /\ Newer(EntriesIn(v[c.level] \ c.in[1]), taken, K)
      /\ Parted(EntriesIn(v[c.level + 1] \ c.in[2]), taken, K)
      /\ result \subseteq taken
      /\ \A e \in taken : e \notin result /\ e.key \notin K =>
           \/ Hidden(e, taken, W)
           \/ /\ Obsolete(e, result, W)
              /\ \A j \in Levels : j > c.level + 1 =>
                   \A y \in EntriesIn(v[j]) : y.key # e.key
      /\ \A s, t \in c.todo : s # t => Parted(s, t, K)
      /\ \A f \in c.outs, t \in c.todo : Parted(f.entries, t, K)
      /\ \A f, g \in c.outs : f # g => Parted(f.entries, g.entries, K)

MergeInv ==
  compaction.pc = "merge" => Merges(compaction, manifest.files, split, visible)

OrderedInv == Ordered(current, split) /\ Ordered(manifest.files, split)

ShownInv ==
  /\ Shown(manifest.files, Settled, split, visible)
  /\ up = "up" => Shown(current, Flushed, split, visible)

ReadsInv ==
  Owned /\ LogOrder /\ MemOrder /\ OpenOrder /\ OrderedInv /\ ShownInv /\ MergeInv

\* The entries a reader may still see of a key are in the memtables and the
\* current version, the newest first.
LEMMA ReadsFollow == Base /\ SyncInv /\ LevelsInv /\ ReadsInv => ReadsAreRight
<1> SUFFICES ASSUME Base, SyncInv, LevelsInv, ReadsInv, up = "up",
                    NEW k \in {c.key : c \in Calls}, k \notin split,
                    NEW s \in snapshots \cup {lastSequence}
             PROVE  valueOf(Get(k, s)) = valueOf(Newest(committed, k, s))
  BY DEF ReadsAreRight
<1>1. k \in Nat /\ s \in Nat /\ \A q \in visible : q <= s
  <2>1. k \in Nat
    BY LevelDBAssumption
  <2>2. s \in Nat
    BY DEF Base, TypeOK
  <2>3. \A q \in visible : q <= s
    BY DEF visible
  <2> QED
    BY <2>1, <2>2, <2>3
<1> DEFINE E == EntriesIn(FilesOf(current))
<1>2. /\ committed \in SUBSET Entry
      /\ mem \in SUBSET committed /\ imm \in SUBSET committed /\ E \in SUBSET Flushed
  BY DEF Base, TypeOK, ReadsInv, Owned, MemOrder
<1>3. \A e \in committed : e.seq \in Nat
  BY <1>2 DEF Entry
<1>4. CASE Newest(mem, k, s) # {}
  <2>1. \A a \in mem, b \in committed :
          IsSeen(a, k, s) /\ IsSeen(b, k, s) /\ b \notin mem => b.seq < a.seq
    BY DEF ReadsInv, MemOrder, Later
  <2>2. Newest(committed, k, s) = Newest(mem, k, s)
    BY ONLY <1>1, <1>2, <1>4, <2>1, NewestAbove
  <2>3. Get(k, s) = Newest(mem, k, s)
    BY <1>4 DEF Get
  <2> QED
    BY <2>2, <2>3
<1>5. CASE Newest(mem, k, s) = {} /\ Newest(imm, k, s) # {}
  <2>1. \A a \in mem : ~IsSeen(a, k, s)
    <3>1. mem \in SUBSET Entry
      BY <1>2
    <3> QED
      BY <1>1, <1>5, <3>1, NewestNone
  <2>2. \A a \in imm, b \in committed :
          IsSeen(a, k, s) /\ IsSeen(b, k, s) /\ b \notin imm => b.seq < a.seq
    <3> SUFFICES ASSUME NEW a \in imm, NEW b \in committed, IsSeen(b, k, s), b \notin imm
                 PROVE  b.seq < a.seq
      OBVIOUS
    <3>1. b \in Flushed
      BY <2>1 DEF Flushed
    <3> QED
      BY <3>1 DEF ReadsInv, MemOrder, Later
  <2>3. Newest(committed, k, s) = Newest(imm, k, s)
    BY ONLY <1>1, <1>2, <1>5, <2>2, NewestAbove
  <2>4. Get(k, s) = Newest(imm, k, s)
    BY <1>5 DEF Get
  <2> QED
    BY <2>3, <2>4
<1>6. CASE Newest(mem, k, s) = {} /\ Newest(imm, k, s) = {}
  <2>1. \A a \in mem \cup imm : ~IsSeen(a, k, s)
    <3>1. mem \in SUBSET Entry /\ imm \in SUBSET Entry
      BY <1>2
    <3> QED
      BY <1>1, <1>6, <3>1, NewestNone
  <2>2. Get(k, s) = Newest(E, k, s)
    <3>1. Get(k, s) = VersionGet(current, k, s)
      BY <1>6 DEF Get
    <3>2. current \in Version /\ Sorted(FilesOf(current)) /\ Disjoint(current)
          /\ Ordered(current, split)
      BY VersionsSorted DEF Base, TypeOK, LevelsInv, ReadsInv, OrderedInv
    <3> QED
      BY <1>1, <3>1, <3>2, VersionGetIsNewest
  <2>3. \A e \in committed : IsSeen(e, k, s) => e \in Flushed
    BY <2>1 DEF Flushed
  <2>4. E \in SUBSET committed /\ E \in SUBSET Entry
    BY <1>2 DEF Flushed
  <2> HIDE DEF E
  <2>5. CASE Newest(committed, k, s) = {}
    <3>1. \A e \in committed : ~IsSeen(e, k, s)
      BY <1>1, <1>2, <2>5, NewestNone
    <3>2. Newest(E, k, s) = {}
      BY <1>1, <2>4, <3>1, NewestNone
    <3> QED
      BY <2>2, <2>5, <3>2
  <2>6. ASSUME NEW n \in Newest(committed, k, s), n \in E
        PROVE  Newest(committed, k, s) = Newest(E, k, s)
    <3>1. /\ n \in committed /\ IsSeen(n, k, s)
          /\ \A x \in committed : IsSeen(x, k, s) => x.seq <= n.seq
      BY NewestMember
    <3>2. Distinct(committed)
      BY DEF ReadsInv, Owned, Distinct
    <3>3. Newest(E, k, s) # {}
      BY <1>1, <2>4, <2>6, <3>1, HasNewest
    <3>5. ASSUME NEW e, e \in Newest(committed, k, s)
          PROVE  e = n
      <4>1. /\ e \in committed /\ IsSeen(e, k, s)
            /\ \A x \in committed : IsSeen(x, k, s) => x.seq <= e.seq
        BY <3>5, NewestMember
      <4>2. e.seq = n.seq
        BY <1>3, <3>1, <4>1
      <4> QED
        BY <3>1, <3>2, <4>1, <4>2 DEF Distinct
    <3>6. ASSUME NEW e, e \in Newest(E, k, s)
          PROVE  e = n
      <4>1. e \in E /\ IsSeen(e, k, s) /\ n.seq <= e.seq
        BY <2>6, <3>1, <3>6, NewestMember
      <4>2. e.seq = n.seq /\ e \in committed
        BY <1>3, <2>4, <3>1, <4>1
      <4> QED
        BY <3>1, <3>2, <4>2 DEF Distinct
    <3> QED
      BY <3>3, <3>5, <3>6
  <2>7. ASSUME NEW n \in Newest(committed, k, s), n \notin E
        PROVE  /\ n.del /\ Newest(E, k, s) = {}
    <3>1. /\ n \in committed /\ IsSeen(n, k, s)
          /\ \A x \in committed : IsSeen(x, k, s) => x.seq <= n.seq
      BY NewestMember
    <3>2. n \in Flushed /\ n.key = k /\ n.seq \in Nat
      BY <1>3, <2>3, <3>1 DEF IsSeen
    <3>3. Hidden(n, Flushed, visible) \/ Obsolete(n, E, visible)
      BY <2>7, <3>2 DEF ReadsInv, ShownInv, Shown, E
    <3>4. ~Hidden(n, Flushed, visible)
      <4> SUFFICES ASSUME NEW x \in Flushed, x.key = n.key, n.seq < x.seq,
                          x.seq \in visible
                   PROVE  FALSE
        BY DEF Hidden
      <4>1. x \in committed /\ IsSeen(x, k, s) /\ x.seq \in Nat
        BY <1>1, <1>3, <3>2 DEF Flushed, IsSeen
      <4> QED
        BY <3>1, <3>2, <4>1
    <3>5. n.del /\ \A y \in E : y.key = n.key => n.seq < y.seq
      BY <3>3, <3>4 DEF Obsolete
    <3>6. \A y \in E : ~IsSeen(y, k, s)
      <4> SUFFICES ASSUME NEW y \in E, IsSeen(y, k, s)
                   PROVE  FALSE
        OBVIOUS
      <4>1. y \in committed /\ y.seq \in Nat /\ y.key = k
        BY <1>3, <2>4 DEF IsSeen
      <4> QED
        BY <3>1, <3>2, <3>5, <4>1
    <3> QED
      BY <1>1, <2>4, <3>5, <3>6, NewestNone
  <2>8. ASSUME NEW n \in Newest(committed, k, s), n \notin E
        PROVE  valueOf(Newest(committed, k, s)) = valueOf(Newest(E, k, s))
    <3>1. \A x \in Newest(committed, k, s) : x.del
      <4> SUFFICES ASSUME NEW x \in Newest(committed, k, s)
                   PROVE  x.del
        OBVIOUS
      <4>1. x \in E => Newest(E, k, s) # {}
        BY <1>1, <2>4, NewestMember, HasNewest
      <4> QED
        BY <2>7, <2>8, <4>1
    <3>2. valueOf(Newest(committed, k, s)) = {} /\ valueOf({}) = {}
      BY <3>1 DEF valueOf
    <3> QED
      BY <2>7, <2>8, <3>2
  <2> QED
    BY <2>2, <2>5, <2>6, <2>8
<1> QED
  BY <1>4, <1>5, <1>6

-----------------------------------------------------------------------------
(* Steps that leave entries where they are *)

LEMMA LaterPart ==
  ASSUME NEW A, NEW B, Later(A, B), NEW C \in SUBSET A, NEW D \in SUBSET B
  PROVE  Later(C, D)
BY DEF Later

LEMMA NewerPart ==
  ASSUME NEW A, NEW B, NEW K, Newer(A, B, K), NEW C \in SUBSET A,
         NEW D \in SUBSET B, NEW L, K \subseteq L
  PROVE  Newer(C, D, L)
BY DEF Newer

LEMMA PartedPart ==
  ASSUME NEW A, NEW B, NEW K, Parted(A, B, K), NEW C \in SUBSET A,
         NEW D \in SUBSET B, NEW L, K \subseteq L
  PROVE  Parted(C, D, L) /\ Parted(D, C, L)
BY DEF Parted

LEMMA OrderedMore ==
  ASSUME NEW v, NEW K, Ordered(v, K), NEW L, K \subseteq L
  PROVE  Ordered(v, L)
BY DEF Ordered, Newer, Parted

LEMMA ShownMore ==
  ASSUME NEW v, NEW S, NEW K, NEW W, Shown(v, S, K, W), NEW L, K \subseteq L,
         NEW X, W \subseteq X
  PROVE  Shown(v, S, L, X)
<1>1. \A e, E : Hidden(e, E, W) => Hidden(e, E, X)
  BY DEF Hidden
<1>2. \A e, E : Obsolete(e, E, W) => Obsolete(e, E, X)
  BY DEF Obsolete
<1> QED
  BY <1>1, <1>2 DEF Shown

LEMMA MergesMore ==
  ASSUME NEW c, NEW v, NEW K, NEW W, Merges(c, v, K, W), NEW L, K \subseteq L,
         NEW X, W \subseteq X
  PROVE  Merges(c, v, L, X)
<1>1. \A e, E : Hidden(e, E, W) => Hidden(e, E, X)
  BY DEF Hidden
<1>2. \A e, E : Obsolete(e, E, W) => Obsolete(e, E, X)
  BY DEF Obsolete
<1>3. \A A, B : Newer(A, B, K) => Newer(A, B, L)
  BY DEF Newer
<1>4. \A A, B : Parted(A, B, K) => Parted(A, B, L)
  BY DEF Parted
<1> DEFINE taken == EntriesIn(c.in[1] \cup c.in[2])
           result == (UNION c.todo) \cup EntriesIn(c.outs)
<1>5. \A e \in taken : e \notin result /\ e.key \notin L =>
           \/ Hidden(e, taken, X)
           \/ /\ Obsolete(e, result, X)
              /\ \A j \in Levels : j > c.level + 1 =>
                   \A y \in EntriesIn(v[j]) : y.key # e.key
  BY <1>1, <1>2 DEF Merges
<1> QED
  BY <1>3, <1>4, <1>5 DEF Merges

\* What the logs hold.
LogParts ==
  /\ \A n \in needed : Held(n) \in SUBSET Entry /\ Held(n) \in SUBSET Logged
  /\ Logged \in SUBSET Entry
  /\ \A e : e \in Logged <=> InLogs(e)
  /\ \A n \in needed : \A e : e \in Held(n) <=>
       \E i \in 1 .. Len(logs[n].recs) : e \in logs[n].recs[i]

LEMMA LogsHold == Base => LogParts
<1> SUFFICES ASSUME Base
             PROVE  LogParts
  OBVIOUS
<1>1. \A n \in needed : /\ Held(n) \in SUBSET Entry
                        /\ \A e : e \in Held(n) <=>
                             \E i \in 1 .. Len(logs[n].recs) : e \in logs[n].recs[i]
  BY LogMembers DEF Held, needed, Base, TypeOK, EntrySets
<1>2. \A e : e \in Logged <=> \E n \in needed : e \in Held(n)
  BY DEF Logged
<1>3. \A e : e \in Logged <=> InLogs(e)
  BY <1>1, <1>2 DEF InLogs
<1> QED
  BY <1>1, <1>2, <1>3 DEF LogParts

LEMMA LogsHoldThen == Base' => LogParts'
BY LogsHold, PTL

\* The entries of the memtables are in the logs.
LEMMA SettledIsFlushed ==
  ASSUME Base, Owned, MemOrder, up = "up"
  PROVE  /\ flush.pc # "install" => Settled = Flushed
         /\ flush.pc = "install" => Settled = committed \ mem
         /\ logfile \in needed
<1>1. logfile \in needed
  BY DEF Base, Numbers, needed
<1>2. Logged = Held(logfile) \cup Older
  BY <1>1 DEF Logged, Older
<1>3. /\ committed \cap Held(logfile) = mem
      /\ committed \cap Older = IF flush.pc = "install" THEN {} ELSE imm
  BY DEF MemOrder
<1>4. Settled = committed \ (mem \cup (IF flush.pc = "install" THEN {} ELSE imm))
  BY <1>2, <1>3 DEF Settled
<1> QED
  BY <1>1, <1>4 DEF Flushed

LEMMA VisibleGrows ==
  ASSUME Base, Base', Owned, up = "up", lastSequence <= lastSequence',
         snapshots' \subseteq snapshots \cup {lastSequence}
  PROVE  /\ visible \subseteq visible'
         /\ IsFiniteSet(snapshots') /\ \A s \in snapshots' : s <= lastSequence'
<1>1. lastSequence \in Nat /\ lastSequence' \in Nat /\ snapshots \in SUBSET Nat
  BY DEF Base, TypeOK
<1>2. visible \subseteq visible'
  BY <1>1 DEF visible
<1>3. \A s \in snapshots' : s <= lastSequence'
  BY <1>1 DEF Owned
<1>4. IsFiniteSet(snapshots \cup {lastSequence})
  BY FS_AddElement DEF Owned
<1> QED
  BY <1>2, <1>3, <1>4, FS_Subset

\* A step that changes no more than what readers, writers in the queue and
\* a compaction that merges do.
LEMMA QuietFrame ==
  ASSUME Base, Base', ReadsInv, up = "up", up' = "up",
         UNCHANGED <<committed, mem, imm, current, manifest, logfile>>,
         DOMAIN logs' = DOMAIN logs,
         \A n \in DOMAIN logs : logs'[n].recs = logs[n].recs,
         flush'.pc = "install" <=> flush.pc = "install",
         split \subseteq split', lastSequence <= lastSequence',
         snapshots' \subseteq snapshots \cup {lastSequence},
         OpenOrder', MergeInv'
  PROVE  ReadsInv'
<1>1. /\ visible \subseteq visible'
      /\ IsFiniteSet(snapshots') /\ \A s \in snapshots' : s <= lastSequence'
  BY VisibleGrows DEF ReadsInv
<1>2. needed' = needed /\ needed \subseteq DOMAIN logs /\ logfile \in DOMAIN logs
  BY DEF needed, Base, Numbers
<1>3. \A n \in DOMAIN logs : Held(n)' = Held(n)
  BY DEF Held
<1>4. Logged' = Logged /\ Older' = Older /\ Held(logfile)' = Held(logfile)
  BY <1>2, <1>3 DEF Logged, Older, Held
<1>5. Settled' = Settled /\ Flushed' = Flushed
  BY <1>4 DEF Settled, Flushed
<1>6. Owned'
  BY <1>1, <1>4, <1>5 DEF ReadsInv, Owned
<1>7. LogOrder'
  <2>1. \A m, n \in needed : m < n => Later(Held(n)', Held(m)')
    BY <1>2, <1>3 DEF ReadsInv, LogOrder
  <2>2. \A n \in needed : Later(Held(n)', Settled)
    BY <1>2, <1>3 DEF ReadsInv, LogOrder
  <2> QED
    BY <1>2, <1>5, <2>1, <2>2 DEF LogOrder
<1>8. MemOrder'
  BY <1>4, <1>5 DEF ReadsInv, MemOrder
<1>9. OrderedInv'
  BY OrderedMore DEF ReadsInv, OrderedInv
<1>10. ShownInv'
  BY <1>1, <1>5, ShownMore DEF ReadsInv, ShownInv
<1> QED
  BY <1>6, <1>7, <1>8, <1>9, <1>10 DEF ReadsInv

\* The parts of the invariant that speak of tables and of compactions, when
\* those stay.
LEMMA SameMerge ==
  ASSUME MergeInv, UNCHANGED <<compaction, manifest>>, split \subseteq split',
         visible \subseteq visible'
  PROVE  MergeInv'
BY MergesMore DEF MergeInv

LEMMA SameOpen ==
  ASSUME OpenOrder, UNCHANGED <<flush, current>>, up' = "up"
  PROVE  OpenOrder'
BY DEF OpenOrder

LEMMA QuietKeepsReads ==
  ASSUME Base, Base', FilesInv, ReadsInv,
         Write \/ RefuseWrite \/ SyncLog \/ FailSync \/ StartFlush \/ Reader
  PROVE  ReadsInv'
<1>1. /\ up = "up" /\ up' = "up"
      /\ UNCHANGED <<committed, mem, imm, current, manifest, logfile, compaction,
                     split>>
      /\ flush' = flush \/ StartFlush
      /\ logs' = logs \/ SyncLog
      /\ lastSequence' = lastSequence \/ lastSequence' = lastSequence + logged
      /\ snapshots' = snapshots \/ Reader
  <2>1. CASE Write
    BY <2>1 DEF Write, diskVars, fileVars, threadVars, historyVars, readVars
  <2>2. CASE RefuseWrite
    BY <2>2 DEF RefuseWrite, Leading, diskVars, fileVars, threadVars,
       historyVars, readVars
  <2>3. CASE FailSync
    <3>1. up = "up"
      BY <2>3 DEF FailSync, Base, Phases
    <3> QED
      BY <2>3, <3>1 DEF FailSync, answerGroup, diskVars, fileVars, threadVars,
         historyVars, readVars
  <2>4. CASE StartFlush
    BY <2>4 DEF StartFlush, CanStartFlush, writeVars, historyVars, readVars
  <2>5. CASE SyncLog
    <3>1. up = "up"
      BY <2>5 DEF SyncLog, Base, Phases
    <3> QED
      BY <2>5, <3>1 DEF SyncLog, writeVars, fileVars, threadVars, historyVars,
         readVars
  <2>6. CASE Reader
    <3> USE <2>6 DEF Reader, GetSnapshot, ReleaseSnapshot, Pin, Unpin,
                     diskVars, writeVars, fileVars, threadVars, historyVars
    <3>1. up = "up"
      BY DEF Base, Phases
    <3>2. UNCHANGED <<up, manifest, current, compaction, logs, mem, imm, flush,
                      lastSequence, committed, logfile, split>>
      OBVIOUS
    <3> QED
      BY ONLY <3>1, <3>2, <2>6
  <2> QED
    BY <2>1, <2>2, <2>3, <2>4, <2>5, <2>6
<1>2. lastSequence <= lastSequence'
  BY <1>1 DEF Base, TypeOK
<1>3. snapshots' \subseteq snapshots \cup {lastSequence}
  <2>1. CASE Reader
    BY <2>1 DEF Reader, GetSnapshot, ReleaseSnapshot, Pin, Unpin
  <2> QED
    BY <1>1, <2>1
<1>4. DOMAIN logs' = DOMAIN logs /\ \A n \in DOMAIN logs : logs'[n].recs = logs[n].recs
  <2>1. CASE SyncLog
    <3>1. \A n \in DOMAIN logs : logs[n] \in Log
      BY DEF Base, TypeOK, LogsOK
    <3>2. logs' = [logs EXCEPT ![logfile] =
                     [logs[logfile] EXCEPT !.synced = Len(logs[logfile].recs)]]
      BY <2>1 DEF SyncLog
    <3>3. logfile \in DOMAIN logs /\ LogsOK
      BY <1>1 DEF Base, TypeOK, Numbers
    <3> QED
      BY <3>1, <3>2, <3>3, LogFields DEF LogsOK
  <2> QED
    BY <1>1, <2>1
<1>5. flush'.pc = "install" <=> flush.pc = "install"
  <2>1. CASE StartFlush
    BY <2>1 DEF StartFlush, CanStartFlush
  <2> QED
    BY <1>1, <2>1
<1>6. OpenOrder'
  <2>1. CASE StartFlush
    <3>1. flush'.files = {[num |-> nextFile, entries |-> imm]}
      BY <2>1 DEF StartFlush
    <3>2. \A g \in current[0] : g.num < nextFile
      BY <1>1, LevelsType, VersionFiles DEF FilesInv, InUse, Base, TypeOK
    <3> QED
      BY <1>1, <3>1, <3>2 DEF OpenOrder
  <2>2. CASE flush' = flush
    BY <1>1, <2>2, SameOpen DEF ReadsInv
  <2> QED
    BY <1>1, <2>1, <2>2
<1>7. MergeInv'
  <2>1. visible \subseteq visible'
    BY <1>1, <1>2, <1>3, VisibleGrows DEF ReadsInv
  <2>2. MergeInv /\ split \subseteq split' /\ UNCHANGED <<compaction, manifest>>
    BY <1>1 DEF ReadsInv
  <2> QED
    BY ONLY <2>1, <2>2, SameMerge
<1>8. split \subseteq split'
  BY <1>1
<1> QED
  BY ONLY Base, Base', ReadsInv, <1>1, <1>2, <1>3, <1>4, <1>5, <1>6, <1>7, <1>8,
          QuietFrame

-----------------------------------------------------------------------------
(* Steps of the writers *)

LEMMA WriterFrame ==
  ASSUME ReadsInv, up = "up", UNCHANGED <<up, current, manifest, flush, compaction, split>>,
         Owned', LogOrder', MemOrder', Settled' = Settled, Flushed' = Flushed,
         visible \subseteq visible'
  PROVE  ReadsInv'
<1>1. OpenOrder'
  BY SameOpen DEF ReadsInv
<1>2. MergeInv'
  BY SameMerge DEF ReadsInv
<1>3. OrderedInv'
  BY DEF ReadsInv, OrderedInv
<1>4. ShownInv'
  BY ShownMore DEF ReadsInv, ShownInv
<1> QED
  BY <1>1, <1>2, <1>3, <1>4 DEF ReadsInv

\* What is logged has new numbers and is not committed yet.
LEMMA LogGroupKeepsReads ==
  ASSUME Base, Base', SyncInv, ReadsInv, LogGroup
  PROVE  ReadsInv'
<1>1. /\ logged = 0 /\ up = "up" /\ up' = "up" /\ LogsOK /\ logfile \in DOMAIN logs
      /\ UNCHANGED <<manifest, current, compaction, lastSequence, flush, mem,
                     imm, committed, snapshots, logfile, split>>
  BY DEF LogGroup, Leading, fileVars, threadVars, readVars, historyVars, Base,
     TypeOK, Numbers
<1>2. PICK n \in groupSizes :
        logs' = [logs EXCEPT ![logfile].recs = Append(@, entriesOf(n))]
  BY DEF LogGroup
<1>3. /\ n \in 1 .. Len(writers) /\ writers \in Seq(Calls) /\ lastSequence \in Nat
  BY DEF groupSizes, Base, TypeOK
<1> DEFINE G == entriesOf(n)
<1>4. /\ G \subseteq Entry /\ Distinct(G) /\ G \in Table
      /\ \A e \in G : lastSequence < e.seq /\ e.seq \in Nat
  BY <1>3, EntriesOfType DEF Table, EntrySets, Distinct, Entry
<1> HIDE DEF G
<1> DEFINE l == logs[logfile]
<1>5. /\ DOMAIN logs' = DOMAIN logs /\ l.recs \in Seq(Table)
      /\ \A m \in DOMAIN logs : m # logfile => logs'[m] = logs[m]
      /\ logs'[logfile].recs = Append(l.recs, G)
  <2>1. l \in Log
    BY <1>1 DEF LogsOK
  <2>2. logs' = [logs EXCEPT ![logfile] = [l EXCEPT !.recs = Append(@, G)]]
    BY <1>2 DEF G
  <2>3. [l EXCEPT !.recs = Append(@, G)]
          = [recs |-> Append(l.recs, G), synced |-> l.synced]
    BY <2>1, LogFields
  <2> QED
    BY <1>1, <2>1, <2>2, <2>3 DEF LogsOK, Log
<1>6. needed' = needed /\ logfile \in needed /\ needed \subseteq Nat
  BY <1>1, <1>5 DEF needed, LogsOK, Base, Numbers
<1>7. \A m \in needed : m # logfile => Held(m)' = Held(m)
  BY <1>5 DEF Held, needed
<1>8. Held(logfile)' = Held(logfile) \cup G
  <2>1. /\ Len(logs'[logfile].recs) = Len(l.recs) + 1 /\ Len(l.recs) \in Nat
        /\ logs'[logfile].recs[Len(l.recs) + 1] = G
        /\ \A i \in 1 .. Len(l.recs) : logs'[logfile].recs[i] = l.recs[i]
    BY <1>4, <1>5, AppendProperties
  <2>2. \A i \in 1 .. Len(l.recs) + 1 : i = Len(l.recs) + 1 \/ i \in 1 .. Len(l.recs)
    BY <2>1
  <2>3. \A e : e \in Held(logfile) <=> \E i \in 1 .. Len(l.recs) : e \in l.recs[i]
    BY <1>6, LogsHold DEF LogParts
  <2>4. \A e : e \in Held(logfile)' <=>
                 \E i \in 1 .. Len(l.recs) + 1 : e \in logs'[logfile].recs[i]
    <3>1. \A e : e \in Held(logfile)' <=>
                 \E i \in 1 .. Len(logs'[logfile].recs) : e \in logs'[logfile].recs[i]
      <4>1. \A m \in needed' : \A e : e \in Held(m)' <=>
                 \E i \in 1 .. Len(logs'[m].recs) : e \in logs'[m].recs[i]
        BY LogsHoldThen DEF LogParts
      <4> QED
        BY <1>1, <1>6, <4>1 DEF Held
    <3> QED
      BY <2>1, <3>1
  <2>5. 1 .. Len(l.recs) \subseteq 1 .. Len(l.recs) + 1
        /\ Len(l.recs) + 1 \in 1 .. Len(l.recs) + 1
    BY <2>1
  <2>6. \A e : e \in Held(logfile)' <=> e \in Held(logfile) \/ e \in G
    BY <2>1, <2>2, <2>3, <2>4, <2>5
  <2> QED
    BY <2>6
<1>9. \A e \in Logged \cup committed : e.seq \in Nat /\ e.seq <= lastSequence
  <2>1. \A m \in needed : \A i \in 1 .. Len(logs[m].recs) :
          \A e \in logs[m].recs[i] : e.seq <= lastSequence
    BY <1>1 DEF SyncInv, Numbered, Pending
  <2>2. \A e : InLogs(e) => e.seq <= lastSequence
    BY <2>1 DEF InLogs
  <2>3. \A e \in committed : e.seq <= lastSequence
    BY <1>1 DEF SyncInv, Numbered
  <2>4. Logged \in SUBSET Entry /\ committed \in SUBSET Entry
    BY LogsHold DEF LogParts, Base, TypeOK
  <2> QED
    BY <2>2, <2>3, <2>4, LogsHold DEF LogParts, Entry
<1>10. \A a \in G, b \in Logged \cup committed : b.seq < a.seq /\ a \notin committed
  BY <1>3, <1>4, <1>9
<1>11. Logged' = Logged \cup G /\ Older' = Older
  BY <1>1, <1>6, <1>7, <1>8 DEF Logged, Older
<1>12. Settled' = Settled /\ Flushed' = Flushed
  BY <1>1, <1>10, <1>11 DEF Settled, Flushed
<1>13. Owned'
  <2>1. Distinct(committed \cup Logged)
    BY DEF ReadsInv, Owned
  <2>2. \A a \in G, b \in Logged \cup committed : a.seq # b.seq
    BY <1>4, <1>9, <1>10
  <2>3. Distinct(committed \cup (Logged \cup G))
    BY <1>4, <2>1, <2>2 DEF Distinct
  <2> QED
    BY <1>1, <1>11, <1>12, <2>3 DEF ReadsInv, Owned
<1>14. LogOrder'
  <2>1. \A m \in needed : m <= logfile /\ Held(m) \in SUBSET Logged
    BY <1>1, LogsHold DEF LogParts, Base, Numbers, needed
  <2>2. \A m, k \in needed : m < k => Later(Held(k)', Held(m)')
    <3> SUFFICES ASSUME NEW m \in needed, NEW k \in needed, m < k
                 PROVE  Later(Held(k)', Held(m)')
      OBVIOUS
    <3>1. m # logfile /\ Later(Held(k), Held(m))
      BY <1>6, <2>1 DEF ReadsInv, LogOrder
    <3>2. Later(G, Held(m))
      BY <1>10, <2>1 DEF Later
    <3> QED
      BY <1>1, <1>7, <1>8, <3>1, <3>2 DEF Later
  <2>3. \A k \in needed : Later(Held(k)', Settled)
    <3>1. Later(G, Settled)
      BY <1>10 DEF Later, Settled
    <3> QED
      BY <1>1, <1>7, <1>8, <3>1 DEF ReadsInv, LogOrder, Later
  <2> QED
    BY <1>6, <1>12, <2>2, <2>3 DEF LogOrder
<1>15. MemOrder'
  <2>1. committed \cap Held(logfile)' = committed \cap Held(logfile)
    BY <1>8, <1>10
  <2> QED
    BY <1>1, <1>11, <1>12, <2>1 DEF ReadsInv, MemOrder, Held
<1>16. visible \subseteq visible'
  BY <1>1 DEF visible
<1> QED
  BY ONLY ReadsInv, <1>1, <1>12, <1>13, <1>14, <1>15, <1>16, WriterFrame

\* The memtable that is full goes with the log it was written to.
LEMMA SwitchKeepsReads ==
  ASSUME Base, Base', ReadsInv, SwitchMemTable
  PROVE  ReadsInv'
<1>1. /\ up = "up" /\ up' = "up" /\ imm = {}
      /\ UNCHANGED <<manifest, current, compaction, lastSequence, flush,
                     committed, snapshots, split>>
      /\ imm' = mem /\ mem' = {} /\ logs' = withLog(nextFile) /\ logfile' = nextFile
  <2>1. /\ up = "up" /\ imm = {}
        /\ UNCHANGED <<up, manifest, current, compaction, lastSequence, flush,
                       committed, snapshots, split>>
    BY DEF SwitchMemTable, Leading, readVars, historyVars
  <2>2. imm' = mem /\ mem' = {} /\ logs' = withLog(nextFile) /\ logfile' = nextFile
    BY DEF SwitchMemTable
  <2> QED
    BY ONLY <2>1, <2>2
<1>2. /\ nextFile \in Nat \ {0} /\ \A m \in DOMAIN logs : m < nextFile
      /\ logfile \in needed /\ needed \subseteq Nat
  BY <1>1 DEF Base, TypeOK, LogsOK, Numbers, needed
<1>3. /\ needed' = needed \cup {nextFile} /\ nextFile \notin DOMAIN logs
      /\ \A m \in needed : logs'[m] = logs[m]
      /\ Len(logs'[nextFile].recs) = 0
  BY <1>1, <1>2, NewLog
<1> PICK new \in Nat : new = nextFile
  BY <1>2
<1>4. \A m \in needed : Held(m)' = Held(m) /\ m # new /\ m < new
  BY <1>2, <1>3 DEF Held, needed
<1>5. Held(new)' = {} /\ needed' = needed \cup {new} /\ logfile' = new
  <2>1. \A i : ~(i \in 1 .. Len(logs'[new].recs))
    BY <1>3
  <2>2. \A m \in needed' : \A e : e \in Held(m)' <=>
               \E i \in 1 .. Len(logs'[m].recs) : e \in logs'[m].recs[i]
    BY LogsHoldThen DEF LogParts
  <2> QED
    BY <1>1, <1>3, <2>1, <2>2
<1>6. Logged' = Logged /\ Older' = Logged /\ Held(logfile)' = {}
  <2>1. Held(logfile)' = {}
    BY <1>5 DEF Held
  <2>2. Logged' = Logged
    BY <1>4, <1>5 DEF Logged
  <2>3. needed' \ {logfile'} = needed
    BY <1>4, <1>5
  <2>4. Older' = Logged
    BY <1>4, <2>3 DEF Logged, Older
  <2> QED
    BY <2>1, <2>2, <2>4
<1>7. flush.pc # "install"
  BY <1>1 DEF Base, Working
<1>8. Settled' = Settled /\ Flushed' = Flushed
  BY <1>1, <1>6 DEF Settled, Flushed
<1>9. Owned'
  BY <1>1, <1>6, <1>8 DEF ReadsInv, Owned
<1>10. LogOrder'
  <2>1. Later(Held(new)', Settled') /\ \A m \in needed : Later(Held(new)', Held(m)')
    BY <1>5 DEF Later
  <2>2. \A m, k \in needed : m < k => Later(Held(k)', Held(m)')
    BY <1>4 DEF ReadsInv, LogOrder
  <2>3. \A m \in needed : Later(Held(m)', Settled')
    BY <1>4, <1>8 DEF ReadsInv, LogOrder
  <2>4. \A m \in needed' : ~(new < m)
    BY <1>2, <1>4, <1>5
  <2> QED
    BY <1>5, <2>1, <2>2, <2>3, <2>4 DEF LogOrder
<1>11. MemOrder'
  <2>1. Logged = Held(logfile) \cup Older
    BY <1>2 DEF Logged, Older
  <2>2. committed \cap Logged = mem
    BY <1>1, <1>7, <2>1 DEF ReadsInv, MemOrder
  <2>3. Later(mem, Flushed) /\ Later({}, committed)
    BY <1>1 DEF ReadsInv, MemOrder, Later, Flushed
  <2> QED
    BY <1>1, <1>6, <1>7, <1>8, <2>2, <2>3 DEF ReadsInv, MemOrder
<1>12. visible \subseteq visible'
  BY <1>1 DEF visible
<1> QED
  BY ONLY ReadsInv, <1>1, <1>8, <1>9, <1>10, <1>11, <1>12, WriterFrame

\* The group that is applied is the last thing in the log in use.
LEMMA FinishGroupKeepsReads ==
  ASSUME Base, Base', SyncInv, ReadsInv, FinishGroup
  PROVE  ReadsInv'
<1> DEFINE G == entriesOf(logged)
<1>1. /\ up = "up" /\ up' = "up" /\ LogsOK /\ logged > 0
      /\ UNCHANGED <<manifest, current, compaction, flush, imm, logs, logfile,
                     snapshots, split>>
      /\ mem' = mem \cup G /\ committed' = committed \cup G
      /\ lastSequence' = lastSequence + logged
  BY DEF FinishGroup, answerGroup, diskVars, fileVars, threadVars, readVars,
     Base, TypeOK, Phases
<1>2. /\ logged \in 1 .. Len(writers) /\ lastSequence \in Nat
      /\ writers \in Seq(Calls) /\ logged \in Nat
  BY <1>1 DEF Base, TypeOK
<1>3. /\ logfile \in needed /\ needed \subseteq Nat
      /\ needed' = needed /\ \A m \in needed : Held(m)' = Held(m)
  BY <1>1 DEF Base, TypeOK, LogsOK, Numbers, needed, Held
<1>4. G \subseteq Held(logfile)
  <2>1. Len(logs[logfile].recs) \in Nat
    BY <1>1, <1>3, LogMembers DEF needed
  <2>2. /\ Len(logs[logfile].recs) > 0
        /\ logs[logfile].recs[Len(logs[logfile].recs)] = G
    BY <1>1 DEF SyncInv, Grouped
  <2> QED
    BY <1>3, <2>1, <2>2, LogsHold DEF LogParts
<1>5. \A e \in G : lastSequence < e.seq /\ e.seq \in Nat
  BY <1>2, EntriesOfType DEF Table, EntrySets, Entry
<1> HIDE DEF G
<1>6. \A e \in committed \cup Older : e.seq \in Nat /\ e.seq <= lastSequence
  <2>1. \A m \in needed \ {logfile} : \A i \in 1 .. Len(logs[m].recs) :
          \A e \in logs[m].recs[i] : e.seq <= lastSequence
    BY <1>1 DEF SyncInv, Numbered, Pending
  <2>2. \A m \in needed \ {logfile} : \A e \in Held(m) : e.seq <= lastSequence
    BY <2>1, LogsHold DEF LogParts
  <2>3. \A e \in committed : e.seq <= lastSequence
    BY <1>1 DEF SyncInv, Numbered
  <2>4. Older \in SUBSET Entry /\ committed \in SUBSET Entry
    BY LogsHold DEF LogParts, Base, TypeOK, Older
  <2> QED
    BY <2>2, <2>3, <2>4 DEF Entry, Older
<1>7. \A a \in G, b \in committed \cup Older : b.seq < a.seq /\ a # b
  BY <1>2, <1>5, <1>6
<1>8. /\ Logged' = Logged /\ Older' = Older /\ G \subseteq Logged
      /\ Held(logfile)' = Held(logfile)
  BY <1>1, <1>3, <1>4 DEF Logged, Older
<1>9. Settled' = Settled /\ Flushed' = Flushed
  <2>1. Settled' = Settled
    BY <1>1, <1>8 DEF Settled
  <2>2. G \cap committed = {}
    BY <1>7
  <2> QED
    BY <1>1, <2>1, <2>2 DEF Flushed
<1>10. /\ visible \subseteq visible' 
       /\ IsFiniteSet(snapshots') /\ \A s \in snapshots' : s <= lastSequence'
  <2>1. lastSequence <= lastSequence' /\ snapshots' \subseteq snapshots \cup {lastSequence}
    BY <1>1, <1>2
  <2> QED
    BY <1>1, <2>1, VisibleGrows DEF ReadsInv
<1>11. Owned'
  <2>1. committed' \cup Logged' = committed \cup Logged
    BY <1>1, <1>8
  <2>2. mem' \cup imm' \cup EntriesIn(FilesOf(current')) \subseteq committed'
    BY <1>1 DEF ReadsInv, Owned
  <2> QED
    BY <1>1, <1>9, <1>10, <2>1, <2>2 DEF ReadsInv, Owned
<1>12. LogOrder'
  BY <1>3, <1>9 DEF ReadsInv, LogOrder
<1>13. MemOrder'
  <2>1. Later(mem, committed \ mem)
    BY <1>1 DEF ReadsInv, MemOrder
  <2>2. Later(mem', committed' \ mem')
    BY <1>1, <1>7, <2>1 DEF Later
  <2>3. committed' \cap Held(logfile) = mem'
    BY <1>1, <1>4 DEF ReadsInv, MemOrder
  <2>4. committed' \cap Older = committed \cap Older
    BY <1>1, <1>7
  <2> QED
    BY <1>1, <1>8, <1>9, <2>2, <2>3, <2>4 DEF ReadsInv, MemOrder
<1> QED
  BY ONLY ReadsInv, <1>1, <1>9, <1>10, <1>11, <1>12, <1>13, WriterFrame

-----------------------------------------------------------------------------
(* A memtable, or a log, becomes a table *)

\* The files F may be added to level l of v: they are newer than v, numbered
\* in their order, and share no key with the levels down to l unless that is
\* level 0.
Fits(v, l, F) ==
  /\ l \in Levels
  /\ Later(EntriesIn(F), EntriesIn(FilesOf(v)))
  /\ \A f \in F, g \in v[0] : g.num < f.num
  /\ \A f, g \in F : f # g => /\ l = 0 /\ f.num # g.num
                              /\ g.num < f.num => Later(f.entries, g.entries)
  /\ l # 0 => \A j \in Levels : j <= l => Parted(EntriesIn(F), EntriesIn(v[j]), {})

\* The version that has them.
Added(v, w, l, F) ==
  /\ w[l] = v[l] \cup F
  /\ \A k \in Levels : k # l => w[k] = v[k]

LEMMA LevelEntries ==
  ASSUME NEW v, NEW k \in Levels
  PROVE  EntriesIn(v[k]) \subseteq EntriesIn(FilesOf(v))
<1>1. v[k] \subseteq FilesOf(v)
  BY FilesOfMember
<1> QED
  BY <1>1, EntriesInMember

LEMMA AddedEntries ==
  ASSUME NEW v, NEW w, NEW l \in Levels, NEW F, Added(v, w, l, F)
  PROVE  /\ EntriesIn(w[l]) = EntriesIn(v[l]) \cup EntriesIn(F)
         /\ EntriesIn(FilesOf(w)) = EntriesIn(FilesOf(v)) \cup EntriesIn(F)
<1>1. EntriesIn(w[l]) = EntriesIn(v[l]) \cup EntriesIn(F)
  BY EntriesInMember DEF Added
<1>2. FilesOf(w) = FilesOf(v) \cup F
  <2>1. \A x : x \in FilesOf(w) <=> x \in FilesOf(v) \/ x \in F
    BY FilesOfMember DEF Added
  <2> QED
    BY <2>1
<1> QED
  BY <1>1, <1>2, EntriesInMember

LEMMA OrderedAdded ==
  ASSUME NEW v, NEW w, NEW l, NEW F, NEW K, Ordered(v, K), Fits(v, l, F),
         Added(v, w, l, F), \A g \in FilesOf(v) \cup F : g.num \in Nat
  PROVE  Ordered(w, K)
<1>1. /\ l \in Levels
      /\ EntriesIn(w[l]) = EntriesIn(v[l]) \cup EntriesIn(F)
      /\ \A k \in Levels : /\ EntriesIn(v[k]) \subseteq EntriesIn(FilesOf(v))
                           /\ k # l => w[k] = v[k]
      /\ w[l] = v[l] \cup F
  <2>1. l \in Levels
    BY DEF Fits
  <2>2. (\A k \in Levels : k # l => w[k] = v[k]) /\ w[l] = v[l] \cup F
    BY DEF Added
  <2>3. EntriesIn(w[l]) = EntriesIn(v[l]) \cup EntriesIn(F)
    BY ONLY <2>1, Added(v, w, l, F), AddedEntries
  <2> QED
    BY <2>1, <2>2, <2>3, LevelEntries
<1>2. Levels \subseteq Nat /\ 0 \in Levels
  BY LevelsType DEF Levels
<1>3. \A f \in F : f.entries \subseteq EntriesIn(F)
  BY EntriesInMember
<1>4. \A k \in Levels : \A g \in v[k] : g.entries \subseteq EntriesIn(v[k]) /\ g.num \in Nat
  BY EntriesInMember, FilesOfMember
<1>5. ASSUME NEW i \in Levels, NEW j \in Levels, i < j
      PROVE  Newer(EntriesIn(w[i]), EntriesIn(w[j]), K)
  <2>1. Newer(EntriesIn(v[i]), EntriesIn(v[j]), K)
    BY <1>5 DEF Ordered
  <2>2. CASE i = l
    <3>1. Later(EntriesIn(F), EntriesIn(v[j]))
      BY <1>1 DEF Fits, Later
    <3>2. j # l /\ w[j] = v[j]
      BY <1>1, <1>2, <1>5, <2>2
    <3>3. EntriesIn(w[i]) = EntriesIn(v[i]) \cup EntriesIn(F)
      BY <1>1, <2>2
    <3> QED
      BY <2>1, <3>1, <3>2, <3>3 DEF Newer, Later
  <2>3. CASE j = l
    <3>1. Parted(EntriesIn(F), EntriesIn(v[i]), {})
      BY <1>2, <1>5, <2>3 DEF Fits
    <3>2. i # l /\ w[i] = v[i]
      BY <1>1, <1>2, <1>5, <2>3
    <3>3. EntriesIn(w[j]) = EntriesIn(v[j]) \cup EntriesIn(F)
      BY <1>1, <2>3
    <3> QED
      BY <2>1, <3>1, <3>2, <3>3 DEF Newer, Parted
  <2>4. CASE i # l /\ j # l
    BY <1>1, <2>1, <2>4
  <2> QED
    BY <2>2, <2>3, <2>4
<1>6. ASSUME NEW f \in w[0], NEW g \in w[0], f # g
      PROVE  f.num # g.num /\ (g.num < f.num => Newer(f.entries, g.entries, K))
  <2>1. CASE f \in v[0] /\ g \in v[0]
    BY <1>6, <2>1 DEF Ordered
  <2>2. CASE f \in F /\ g \in v[0]
    <3>1. g.num < f.num /\ Later(f.entries, g.entries)
      BY <1>1, <1>2, <1>3, <1>4, <2>2 DEF Fits, Later
    <3> QED
      BY <1>2, <1>4, <2>2, <3>1 DEF Newer, Later
  <2>3. CASE f \in v[0] /\ g \in F
    <3>1. f.num < g.num
      BY <2>3 DEF Fits
    <3>2. f.num \in Nat /\ g.num \in Nat
      BY <1>2, <1>4, <2>3
    <3> QED
      BY <3>1, <3>2
  <2>4. CASE f \in F /\ g \in F
    BY <1>6, <2>4 DEF Fits, Newer, Later
  <2>5. w[0] \subseteq v[0] \cup F
    BY <1>1, <1>2
  <2> QED
    BY <1>6, <2>1, <2>2, <2>3, <2>4, <2>5
<1>7. ASSUME NEW k \in Levels \ {0}, NEW f \in w[k], NEW g \in w[k], f # g
      PROVE  Parted(f.entries, g.entries, K)
  <2>1. CASE k # l
    BY <1>1, <1>7, <2>1 DEF Ordered
  <2>2. CASE k = l
    <3>1. Parted(EntriesIn(F), EntriesIn(v[l]), {})
      BY <1>2, <2>2 DEF Fits
    <3>2. CASE f \in v[l] /\ g \in v[l]
      BY <1>7, <2>2, <3>2 DEF Ordered
    <3>3. CASE f \in F /\ g \in v[l]
      BY <1>1, <1>3, <1>4, <3>1, <3>3 DEF Parted
    <3>4. CASE f \in v[l] /\ g \in F
      BY <1>1, <1>3, <1>4, <3>1, <3>4 DEF Parted
    <3>5. ~(f \in F /\ g \in F)
      BY <1>7, <2>2 DEF Fits
    <3> QED
      BY <1>1, <1>7, <2>2, <3>2, <3>3, <3>4, <3>5
  <2> QED
    BY <2>1, <2>2
<1> QED
  BY <1>5, <1>6, <1>7 DEF Ordered

\* The entries that join S join the version too.
LEMMA ShownAdded ==
  ASSUME NEW v, NEW w, NEW S, NEW T, NEW D, NEW K, NEW W, NEW X,
         Shown(v, S, K, W), S \subseteq T, T \subseteq S \cup D, Later(D, S),
         EntriesIn(FilesOf(w)) = EntriesIn(FilesOf(v)) \cup D,
         \A e \in S : e.seq \in W => e.seq \in X
  PROVE  Shown(w, T, K, X)
<1> SUFFICES ASSUME NEW e \in T, e \notin EntriesIn(FilesOf(w)), e.key \notin K
             PROVE  Hidden(e, T, X) \/ Obsolete(e, EntriesIn(FilesOf(w)), X)
  BY DEF Shown
<1>1. e \in S /\ e \notin EntriesIn(FilesOf(v))
  OBVIOUS
<1>2. CASE Hidden(e, S, W)
  BY <1>2 DEF Hidden
<1>3. CASE Obsolete(e, EntriesIn(FilesOf(v)), W)
  BY <1>1, <1>3 DEF Obsolete, Later
<1> QED
  BY <1>1, <1>2, <1>3 DEF Shown

\* A flush in the middle of a compaction.
LEMMA MergesAdded ==
  ASSUME NEW v, NEW w, NEW l, NEW F, NEW K, NEW W, NEW c,
         Merges(c, v, K, W), Fits(v, l, F), Added(v, w, l, F),
         c.level \in 0 .. NumLevels - 2,
         c.in[1] \subseteq v[c.level], c.in[2] \subseteq v[c.level + 1]
  PROVE  Merges(c, w, K, W)
<1> DEFINE taken == EntriesIn(c.in[1] \cup c.in[2])
           result == (UNION c.todo) \cup EntriesIn(c.outs)
           a == c.level
<1>1. /\ a \in Levels /\ a + 1 \in Levels /\ a \in Nat /\ l \in Levels
      /\ Levels \subseteq Nat
  BY LevelsType DEF Fits, Levels
<1>2. /\ \A k \in Levels : /\ EntriesIn(v[k]) \subseteq EntriesIn(FilesOf(v))
                           /\ k # l => w[k] = v[k]
      /\ w[l] = v[l] \cup F
      /\ EntriesIn(w[l]) = EntriesIn(v[l]) \cup EntriesIn(F)
  <2>1. (\A k \in Levels : k # l => w[k] = v[k]) /\ w[l] = v[l] \cup F
    BY DEF Added
  <2>3. EntriesIn(w[l]) = EntriesIn(v[l]) \cup EntriesIn(F)
    BY ONLY <1>1, Added(v, w, l, F), AddedEntries
  <2> QED
    BY <1>1, <2>1, <2>3, LevelEntries
<1>3. /\ taken \subseteq EntriesIn(v[a]) \cup EntriesIn(v[a + 1])
      /\ result \subseteq taken
  <2>1. taken \subseteq EntriesIn(v[a]) \cup EntriesIn(v[a + 1])
    BY EntriesInMember
  <2>2. result \subseteq taken
    BY DEF Merges
  <2> QED
    BY <2>1, <2>2
<1> HIDE DEF taken, result, a
<1>4. Newer(EntriesIn(w[a] \ c.in[1]), taken, K)
  <2>1. Newer(EntriesIn(v[a] \ c.in[1]), taken, K)
    BY DEF Merges, taken, a
  <2>2. CASE a # l
    BY <1>1, <1>2, <2>1, <2>2
  <2>3. CASE a = l
    <3>1. \A e \in EntriesIn(w[a] \ c.in[1]) :
            e \in EntriesIn(v[a] \ c.in[1]) \/ e \in EntriesIn(F)
      BY <1>2, <2>3, EntriesInMember
    <3>2. Later(EntriesIn(F), taken)
      BY <1>1, <1>2, <1>3 DEF Fits, Later
    <3> QED
      BY <2>1, <3>1, <3>2 DEF Newer, Later
  <2> QED
    BY <2>2, <2>3
<1>5. l > a => Parted(EntriesIn(F), taken, {})
  <2> SUFFICES ASSUME l > a
               PROVE  Parted(EntriesIn(F), taken, {})
    OBVIOUS
  <2>1. l # 0 /\ a <= l /\ a + 1 <= l
    BY <1>1
  <2>2. Parted(EntriesIn(F), EntriesIn(v[a]), {})
        /\ Parted(EntriesIn(F), EntriesIn(v[a + 1]), {})
    BY <1>1, <2>1 DEF Fits
  <2> QED
    BY <1>3, <2>2 DEF Parted
<1>6. Parted(EntriesIn(w[a + 1] \ c.in[2]), taken, K)
  <2>1. Parted(EntriesIn(v[a + 1] \ c.in[2]), taken, K)
    BY DEF Merges, taken, a
  <2>2. CASE a + 1 # l
    BY <1>1, <1>2, <2>1, <2>2
  <2>3. CASE a + 1 = l
    <3>1. \A e \in EntriesIn(w[a + 1] \ c.in[2]) :
            e \in EntriesIn(v[a + 1] \ c.in[2]) \/ e \in EntriesIn(F)
      BY <1>2, <2>3, EntriesInMember
    <3>2. Parted(EntriesIn(F), taken, {})
      BY <1>1, <1>5, <2>3
    <3> QED
      BY <2>1, <3>1, <3>2 DEF Parted
  <2> QED
    BY <2>2, <2>3
<1>7. ASSUME NEW e \in taken, e \notin result, e.key \notin K
      PROVE  \/ Hidden(e, taken, W)
             \/ /\ Obsolete(e, result, W)
                /\ \A j \in Levels : j > a + 1 =>
                     \A y \in EntriesIn(w[j]) : y.key # e.key
  <2>1. \/ Hidden(e, taken, W)
        \/ /\ Obsolete(e, result, W)
           /\ \A j \in Levels : j > a + 1 =>
                \A y \in EntriesIn(v[j]) : y.key # e.key
    BY <1>7 DEF Merges, taken, result, a
  <2>2. \A j \in Levels : j > a + 1 => \A y \in EntriesIn(w[j]) :
           y \in EntriesIn(v[j]) \/ y.key # e.key
    <3> SUFFICES ASSUME NEW j \in Levels, j > a + 1, NEW y \in EntriesIn(w[j]),
                        y \notin EntriesIn(v[j])
                 PROVE  y.key # e.key
      OBVIOUS
    <3>1. j = l /\ y \in EntriesIn(F)
      BY <1>2
    <3>2. l > a
      BY <1>1, <3>1
    <3> QED
      BY <1>5, <1>7, <3>1, <3>2 DEF Parted
  <2> QED
    BY <2>1, <2>2
<1> QED
  BY <1>4, <1>6, <1>7 DEF Merges, taken, result, a

LEMMA NoOverlapParted ==
  ASSUME NEW f \in File, NEW g \in File, Distinct(f.entries), Distinct(g.entries),
         ~Overlaps(g, Lo(f), Hi(f))
  PROVE  Parted(f.entries, g.entries, {})
<1>1. /\ \A e \in f.entries : Lo(f) <= e.key /\ e.key <= Hi(f)
      /\ \A e \in g.entries : Lo(g) <= e.key /\ e.key <= Hi(g)
      /\ Lo(f) \in Nat /\ Hi(f) \in Nat /\ Lo(g) \in Nat /\ Hi(g) \in Nat
  BY FileBounds
<1>2. \A e \in f.entries \cup g.entries : e.key \in Nat
  BY DEF File, Table, EntrySets, Entry
<1>3. Hi(f) < Lo(g) \/ Hi(g) < Lo(f)
  BY <1>1, OverlapsRange
<1> QED
  BY <1>1, <1>2, <1>3 DEF Parted

LEMMA EntriesInOne == \A f : EntriesIn({f}) = f.entries
<1> SUFFICES ASSUME NEW f PROVE EntriesIn({f}) = f.entries
  OBVIOUS
<1>1. \A e : e \in EntriesIn({f}) <=> e \in f.entries
  BY EntriesInMember
<1> QED
  BY <1>1

\* The table that is being built.
LEMMA FlushOne ==
  ASSUME Base, flush.pc \in {"build", "install"}
  PROVE  \E f \in File : /\ flush.files = {f} /\ f.entries = imm
                         /\ EntriesIn(flush.files) = imm
<1>1. PICK n \in Nat : flush.files = {[num |-> n, entries |-> imm]}
  BY DEF Base, Working
<1> DEFINE f == [num |-> n, entries |-> imm]
<1>2. f.entries = imm /\ flush.files = {f}
  BY <1>1
<1>3. f \in flush.files /\ flush.files \subseteq File
  BY <1>2 DEF Base, TypeOK, FlushOK, Files
<1> HIDE DEF f
<1> QED
  BY <1>2, <1>3, EntriesInOne

\* The memtable being flushed fits into the version it is added to.
LEMMA FlushFits ==
  ASSUME Base, LevelsInv, ReadsInv, LogFlush
  PROVE  \E l : /\ Fits(current, l, flush.files)
                /\ Added(current, manifest'.files, l, flush.files)
<1>1. PICK l \in PickLevelForMemTableOutput(current, minKey(flush.files),
                                            maxKey(flush.files)) :
        LogEdit([current EXCEPT ![l] = @ \cup flush.files], logfile)
  BY DEF LogFlush
<1>2. /\ l \in Levels
      /\ l = 0 \/ \A j \in 0 .. l : ~OverlapInLevel(current, j, minKey(flush.files),
                                                    maxKey(flush.files))
  BY ONLY PickLevelType, l \in PickLevelForMemTableOutput(current, minKey(flush.files),
                                            maxKey(flush.files))
<1>3. manifest'.files = [current EXCEPT ![l] = @ \cup flush.files]
  BY <1>1 DEF LogEdit
<1>4. flush.pc = "build" /\ up = "up" /\ current \in Version /\ FlushOK
  BY NothingType DEF LogFlush, Base, TypeOK, Phases
<1>5. PICK f \in File : /\ flush.files = {f} /\ f.entries = imm
                        /\ EntriesIn(flush.files) = imm
  BY <1>4, FlushOne
<1>6. /\ Distinct(f.entries) /\ Sorted(FilesOf(current)) /\ Sorted({f})
  BY <1>5, VersionsSorted DEF LevelsInv, Sorted
<1>7. minKey(flush.files) = Lo(f) /\ maxKey(flush.files) = Hi(f)
  <2>1. IsRange({f}, minKey({f}), maxKey({f}))
    BY <1>5, <1>6, FilesOne, SortedRanged, RangeOfFiles
  <2> QED
    BY <1>5, <2>1 DEF IsRange
<1>8. Added(current, manifest'.files, l, flush.files)
  BY <1>2, <1>3, <1>4 DEF Version, Added
<1>9. \A k \in Levels : \A g \in current[k] : g \in File /\ Distinct(g.entries)
  BY <1>4, <1>6, VersionFiles DEF Sorted
<1>10. EntriesIn(flush.files) = imm
  BY <1>5
<1>11. Later(imm, EntriesIn(FilesOf(current)))
  BY <1>4 DEF ReadsInv, MemOrder, Later
<1>12. ASSUME l # 0, NEW j \in Levels, j <= l
       PROVE  Parted(imm, EntriesIn(current[j]), {})
  <2>1. j \in 0 .. l
    BY <1>2, <1>12 DEF Levels
  <2>2. \A g \in current[j] : ~Overlaps(g, Lo(f), Hi(f))
    BY <1>2, <1>7, <1>12, <2>1 DEF OverlapInLevel
  <2>3. \A g \in current[j] : Parted(imm, g.entries, {})
    BY <1>5, <1>6, <1>9, <2>2, NoOverlapParted
  <2> QED
    BY <2>3, EntriesInMember DEF Parted
<1>13. \A g \in current[0] : g.num < f.num
  BY <1>5 DEF ReadsInv, OpenOrder
<1>14. Fits(current, l, flush.files)
  BY <1>2, <1>5, <1>10, <1>11, <1>12, <1>13 DEF Fits
<1> QED
  BY <1>8, <1>14

LEMMA LogFlushKeepsReads ==
  ASSUME Base, Base', LevelsInv, ReadsInv, LogFlush
  PROVE  ReadsInv'
<1>1. PICK l : /\ Fits(current, l, flush.files)
               /\ Added(current, manifest'.files, l, flush.files)
  BY FlushFits
<1>2. /\ flush.pc = "build" /\ up = "up" /\ up' = "up"
      /\ UNCHANGED <<current, compaction, mem, imm, logs, logfile, lastSequence,
                     snapshots, committed, split>>
      /\ current \in Version /\ CompactionOK /\ FlushOK
  BY NothingType DEF LogFlush, writeVars, readVars, historyVars, Base, TypeOK, Phases
<1>3. flush'.pc = "install" /\ flush'.files = flush.files
  BY <1>2 DEF LogFlush, FlushOK
<1>4. manifest'.log = logfile
  BY DEF LogFlush, LogEdit
<1>5. manifest.files = current /\ compaction.pc # "install"
  BY <1>2 DEF Base, Installing, Working
<1>6. /\ logfile \in needed /\ needed' = {logfile} /\ \A n \in needed : n <= logfile
      /\ needed \subseteq Nat
  <2>1. LogsOK /\ logfile \in DOMAIN logs /\ \A n \in DOMAIN logs : n <= logfile
    BY <1>2 DEF Base, TypeOK, Numbers
  <2>2. manifest.log <= logfile /\ manifest.log \in Nat /\ logfile \in Nat
    BY <1>2 DEF Base, TypeOK, ManifestOK, Numbers
  <2> QED
    BY <1>2, <1>4, <2>1, <2>2 DEF needed, LogsOK
<1>7. \A n \in needed : Held(n)' = Held(n)
  BY <1>2 DEF Held
<1>8. Logged' = Held(logfile) /\ Older' = {} /\ Held(logfile)' = Held(logfile)
  BY <1>2, <1>6, <1>7 DEF Logged, Older, Held
<1>9. Settled = Flushed
  BY <1>2, SettledIsFlushed DEF ReadsInv
<1>10. /\ Settled' = committed \ mem /\ Flushed' = Flushed
       /\ Settled \subseteq Settled' /\ Settled' \subseteq Settled \cup imm
  <2>1. committed \cap Held(logfile) = mem
    BY <1>2 DEF ReadsInv, MemOrder
  <2> QED
    BY <1>2, <1>8, <1>9, <2>1 DEF Settled, Flushed
<1>11. EntriesIn(flush.files) = imm
  BY <1>2, FlushOne
<1>12. EntriesIn(FilesOf(manifest'.files)) = EntriesIn(FilesOf(current)) \cup imm
  BY <1>1, <1>11, AddedEntries DEF Fits
<1>13. /\ Later(mem, committed \ mem) /\ Later(imm, Flushed)
       /\ committed \cap Older = imm
       /\ EntriesIn(FilesOf(current)) \subseteq Flushed
  BY <1>2 DEF ReadsInv, MemOrder
<1>14. mem \cap imm = {}
  <2>1. \A e \in Older : \A x \in Held(logfile) : e.seq < x.seq
    <3> SUFFICES ASSUME NEW m \in needed, m # logfile, NEW e \in Held(m),
                        NEW x \in Held(logfile)
                 PROVE  e.seq < x.seq
      BY DEF Older
    <3>1. m < logfile
      BY <1>6
    <3>2. Later(Held(logfile), Held(m))
      BY <1>6, <3>1 DEF ReadsInv, LogOrder
    <3> QED
      BY <3>2 DEF Later
  <2>2. mem \subseteq Held(logfile) /\ imm \subseteq Older
    BY <1>2, <1>13 DEF ReadsInv, MemOrder
  <2>3. \A e \in mem : e.seq \in Nat
    BY DEF Base, TypeOK, EntrySets, Entry
  <2>4. \A e \in mem \cap imm : e.seq < e.seq
    BY <2>1, <2>2
  <2> QED
    BY <2>3, <2>4
<1>15. Owned'
  <2>1. EntriesIn(FilesOf(manifest'.files)) \subseteq Settled'
    <3>1. imm \subseteq committed \ mem
      BY <1>14 DEF ReadsInv, Owned
    <3>2. EntriesIn(FilesOf(current)) \subseteq committed \ mem
      BY <1>13 DEF Flushed
    <3> QED
      BY <1>10, <1>12, <3>1, <3>2
  <2>2. Logged' \subseteq Logged
    BY <1>6, <1>8 DEF Logged
  <2>3. Distinct(committed' \cup Logged')
    BY <1>2, <2>2 DEF ReadsInv, Owned, Distinct
  <2> QED
    BY <1>2, <2>1, <2>3 DEF ReadsInv, Owned
<1>16. LogOrder'
  <2>1. Later(Held(logfile), Settled) /\ Later(Held(logfile), imm)
    <3>1. Later(Held(logfile), Settled)
      BY <1>6 DEF ReadsInv, LogOrder
    <3>2. \A n \in needed \ {logfile} : Later(Held(logfile), Held(n))
      <4> SUFFICES ASSUME NEW n \in needed \ {logfile}
                   PROVE  Later(Held(logfile), Held(n))
        OBVIOUS
      <4>1. n < logfile
        BY <1>6
      <4> QED
        BY <1>6, <4>1 DEF ReadsInv, LogOrder
    <3>3. Later(Held(logfile), imm)
      BY <1>13, <3>2 DEF Later, Older
    <3> QED
      BY <3>1, <3>3
  <2>2. Later(Held(logfile), Settled')
    BY <1>10, <2>1 DEF Later
  <2>3. logfile \in Nat
    BY <1>6
  <2>4. \A n \in needed' : Held(n)' = Held(logfile) /\ n = logfile
    BY <1>6, <1>7
  <2> QED
    BY <2>2, <2>3, <2>4 DEF LogOrder
<1>17. MemOrder'
  <2>1. committed \cap Held(logfile) = mem
    BY <1>2 DEF ReadsInv, MemOrder
  <2> QED
    BY <1>2, <1>3, <1>8, <1>10, <1>13, <2>1 DEF MemOrder
<1>18. OpenOrder'
  BY <1>2, <1>3 DEF ReadsInv, OpenOrder
<1>19. OrderedInv'
  <2>1. \A g \in FilesOf(current) \cup flush.files : g.num \in Nat
    BY <1>2, VersionFiles DEF FlushOK, Files, File
  <2>2. Ordered(manifest'.files, split)
    BY <1>1, <2>1, OrderedAdded DEF ReadsInv, OrderedInv
  <2> QED
    BY <1>2, <2>2 DEF ReadsInv, OrderedInv
<1>20. visible' = visible
  BY <1>2 DEF visible
<1>21. ShownInv'
  <2>1. Shown(current, Settled, split, visible)
    BY <1>5 DEF ReadsInv, ShownInv
  <2>2. Later(imm, Settled)
    BY <1>9, <1>13
  <2>3. Shown(manifest'.files, Settled', split, visible)
    BY ONLY <1>10, <1>12, <2>1, <2>2, ShownAdded
  <2>4. Shown(current, Flushed, split, visible)
    BY <1>2 DEF ReadsInv, ShownInv
  <2> QED
    BY <1>2, <1>10, <1>20, <2>3, <2>4 DEF ShownInv
<1>22. MergeInv'
  <2> SUFFICES ASSUME compaction.pc = "merge"
               PROVE  Merges(compaction, manifest'.files, split, visible)
    BY <1>2, <1>20 DEF MergeInv
  <2>1. Merges(compaction, current, split, visible)
    BY <1>5 DEF ReadsInv, MergeInv
  <2>2. /\ compaction.level \in 0 .. NumLevels - 2
        /\ compaction.in[1] \subseteq current[compaction.level]
        /\ compaction.in[2] \subseteq current[compaction.level + 1]
    BY <1>2 DEF CompactionOK, Base, Installing
  <2> QED
    BY ONLY <1>1, <2>1, <2>2, MergesAdded
<1> QED
  BY <1>15, <1>16, <1>17, <1>18, <1>19, <1>21, <1>22 DEF ReadsInv

\* The new version is installed and what is in tables twice is dropped.
LEMMA InstallKeepsReads ==
  ASSUME Base, Base', ReadsInv, InstallFlush \/ InstallCompaction
  PROVE  ReadsInv'
<1>1. /\ up = "up" /\ up' = "up" /\ LogsOK /\ tables \in SUBSET File
      /\ flush'.files = {} /\ flush'.pc = "none" /\ current' = manifest.files
      /\ UNCHANGED <<manifest, mem, logfile, lastSequence, snapshots, committed,
                     split>>
      /\ \/ flush.pc = "install" /\ imm' = {}
         \/ flush.pc = "none" /\ imm' = imm
      /\ compaction' = compaction \/ compaction'.pc = "none"
  <2>1. CASE InstallFlush
    BY <2>1, NothingType DEF InstallFlush, Base, TypeOK, Phases, readVars,
       historyVars
  <2>2. CASE InstallCompaction
    <3>1. flush = NoFlush /\ up = "up"
      BY <2>2, NothingType DEF InstallCompaction, Base, Working, Phases
    <3> QED
      BY <2>2, <3>1, NothingType DEF InstallCompaction, Base, TypeOK, readVars,
         historyVars
  <2> QED
    BY <2>1, <2>2
<1>2. /\ DOMAIN logs' \subseteq DOMAIN logs
      /\ \A n \in DOMAIN logs : n >= manifest.log => n \in DOMAIN logs'
      /\ \A n \in DOMAIN logs' : logs'[n] = logs[n]
  <2>1. logs' = logs \/ \E pending : DeleteObsoleteFiles(current', manifest.log, pending)
    <3>1. CASE InstallFlush
      BY <3>1 DEF InstallFlush
    <3>2. CASE InstallCompaction
      <4>1. logNumber = manifest.log
        BY <1>1, <3>2, NothingType DEF InstallCompaction, Base, Working, Numbers
      <4> QED
        BY <3>2, <4>1 DEF InstallCompaction
    <3> QED
      BY <3>1, <3>2
  <2>2. manifest.log \in Nat
    BY DEF Base, TypeOK, ManifestOK
  <2>3. CASE logs' = logs
    BY <2>3
  <2>4. CASE \E pending : DeleteObsoleteFiles(current', manifest.log, pending)
    BY <1>1, <2>2, <2>4, DeleteType
  <2> QED
    BY <2>1, <2>3, <2>4
<1>3. needed' = needed /\ \A n \in needed : Held(n)' = Held(n)
  BY <1>1, <1>2 DEF needed, Held
<1>4. Logged' = Logged /\ Older' = Older
  BY <1>1, <1>3 DEF Logged, Older
<1>5. /\ flush.pc # "install" => Settled = Flushed
      /\ flush.pc = "install" => Settled = committed \ mem
      /\ logfile \in needed
  BY <1>1, SettledIsFlushed DEF ReadsInv
<1>6. Settled' = Settled /\ Flushed' = Settled
  <2>1. Settled' = Settled
    BY <1>1, <1>4 DEF Settled
  <2> QED
    BY <1>1, <1>5, <2>1 DEF Flushed
<1>7. EntriesIn(FilesOf(manifest.files)) \subseteq Settled
  BY DEF ReadsInv, Owned
<1>8. Owned'
  <2>1. mem' \cup imm' \cup EntriesIn(FilesOf(current')) \subseteq committed'
    BY <1>1, <1>7 DEF ReadsInv, Owned, Settled
  <2> QED
    BY <1>1, <1>4, <1>6, <2>1 DEF ReadsInv, Owned
<1>9. LogOrder'
  BY <1>3, <1>6 DEF ReadsInv, LogOrder
<1>10. MemOrder'
  <2>1. /\ Later(mem, committed \ mem) /\ committed \cap Held(logfile) = mem
        /\ committed \cap Older = imm'
    BY <1>1 DEF ReadsInv, MemOrder
  <2>2. Later(imm', Settled)
    BY <1>1, <1>5 DEF ReadsInv, MemOrder, Later
  <2>3. Held(logfile)' = Held(logfile)
    BY <1>1, <1>3, <1>5 DEF Held
  <2> QED
    BY <1>1, <1>4, <1>6, <1>7, <2>1, <2>2, <2>3 DEF MemOrder
<1>11. OpenOrder'
  BY <1>1 DEF OpenOrder
<1>12. OrderedInv'
  BY <1>1 DEF ReadsInv, OrderedInv
<1>13. visible' = visible
  BY <1>1 DEF visible
<1>14. ShownInv'
  BY <1>1, <1>6, <1>13 DEF ReadsInv, ShownInv
<1>15. MergeInv'
  BY <1>1, <1>13 DEF ReadsInv, MergeInv
<1> QED
  BY <1>8, <1>9, <1>10, <1>11, <1>12, <1>14, <1>15 DEF ReadsInv

-----------------------------------------------------------------------------
(* A compaction *)

\* The next output takes its place among the files.
LEMMA MergesOutput ==
  ASSUME NEW c, NEW d, NEW v, NEW K, NEW W, Merges(c, v, K, W),
         NEW o \in c.todo, NEW f, f.entries = o,
         d.in = c.in, d.level = c.level,
         d.todo = c.todo \ {o}, d.outs = c.outs \cup {f}
  PROVE  Merges(d, v, K, W)
<1> DEFINE taken == EntriesIn(c.in[1] \cup c.in[2])
           result == (UNION c.todo) \cup EntriesIn(c.outs)
<1>1. (UNION d.todo) \cup EntriesIn(d.outs) = result
  <2>1. \A e : e \in EntriesIn(d.outs) <=> e \in EntriesIn(c.outs) \/ e \in o
    BY EntriesInMember
  <2>2. \A e : e \in UNION d.todo \/ e \in o <=> e \in UNION c.todo
    <3>1. \A e : e \in UNION d.todo => e \in UNION c.todo
      OBVIOUS
    <3>2. \A e : e \in o => e \in UNION c.todo
      OBVIOUS
    <3>3. \A e : e \in UNION c.todo => e \in UNION d.todo \/ e \in o
      OBVIOUS
    <3> QED
      BY <3>1, <3>2, <3>3
  <2> DEFINE A == UNION d.todo
             B == UNION c.todo
             X == EntriesIn(d.outs)
             Y == EntriesIn(c.outs)
  <2>3. /\ \A e : e \in X <=> e \in Y \/ e \in o
        /\ \A e : e \in A \/ e \in o <=> e \in B
    BY <2>1, <2>2
  <2> HIDE DEF A, B, X, Y
  <2>4. A \cup X = B \cup Y
    <3>1. X = Y \cup o
      BY ONLY <2>3
    <3>2. B = A \cup o
      BY ONLY <2>3
    <3> QED
      BY ONLY <3>1, <3>2
  <2> QED
    BY ONLY <2>4, Zenon DEF A, B, X, Y
<1>2. EntriesIn(d.in[1] \cup d.in[2]) = taken
  OBVIOUS
<1> HIDE DEF taken, result
<1>3. /\ Newer(EntriesIn(v[c.level] \ c.in[1]), taken, K)
      /\ Parted(EntriesIn(v[c.level + 1] \ c.in[2]), taken, K)
      /\ result \subseteq taken
      /\ \A e \in taken : e \notin result /\ e.key \notin K =>
           \/ Hidden(e, taken, W)
           \/ /\ Obsolete(e, result, W)
              /\ \A j \in Levels : j > c.level + 1 =>
                   \A y \in EntriesIn(v[j]) : y.key # e.key
  BY DEF Merges, taken, result
<1>4. /\ \A s, t \in c.todo : s # t => Parted(s, t, K)
      /\ \A g \in c.outs, t \in c.todo : Parted(g.entries, t, K)
      /\ \A g, h \in c.outs : g # h => Parted(g.entries, h.entries, K)
  BY DEF Merges
<1>5. \A s, t \in d.todo : s # t => Parted(s, t, K)
  BY <1>4
<1>6. \A g \in d.outs, t \in d.todo : Parted(g.entries, t, K)
  BY <1>4
<1>7. \A g, h \in d.outs : g # h => Parted(g.entries, h.entries, K)
  <2>1. \A g \in c.outs : Parted(g.entries, o, K) /\ Parted(o, g.entries, K)
    BY <1>4 DEF Parted
  <2> QED
    BY <1>4, <2>1
<1> QED
  BY <1>1, <1>2, <1>3, <1>5, <1>6, <1>7 DEF Merges

LEMMA WriteOutputKeepsReads ==
  ASSUME Base, Base', ReadsInv, WriteOutput
  PROVE  ReadsInv'
<1> DEFINE o == CHOOSE o \in compaction.todo :
                  \A p \in compaction.todo \ {o} :
                    \A a \in o, b \in p : Before(a, b)
           f == [num |-> nextFile, entries |-> o]
           c == compaction
<1>1. /\ compaction' = [compaction EXCEPT !.todo = @ \ {o},
                                          !.outs = @ \cup {f}]
      /\ UNCHANGED <<up, manifest, current, flush, mem, imm, logs, logfile,
                     lastSequence, snapshots, committed, split>>
      /\ compaction.pc = "merge"
  BY DEF WriteOutput, writeVars, readVars, historyVars
<1>2. /\ c.todo \in Slices /\ c.todo # {} /\ CompactionOK
      /\ \A s, t \in c.todo : s # t => Apart(s, t)
      /\ up = "up"
  BY NothingType DEF WriteOutput, Base, TypeOK, CompactionOK, Working, Phases
<1>3. o \in c.todo
  BY <1>2, FirstSlice
<1> HIDE DEF o
<1>4. f.entries = o
  OBVIOUS
<1> HIDE DEF f
<1>5. /\ compaction'.todo = c.todo \ {o} /\ compaction'.outs = c.outs \cup {f}
      /\ compaction'.in = c.in /\ compaction'.level = c.level
  <2>1. compaction' = [pc |-> compaction.pc, level |-> compaction.level,
                       in |-> compaction.in, todo |-> compaction.todo \ {o},
                       outs |-> compaction.outs \cup {f},
                       move |-> compaction.move]
    BY <1>1, <1>2, CompactionFields
  <2> QED
    BY ONLY <2>1
<1>6. visible' = visible
  BY <1>1 DEF visible
<1>7. MergeInv'
  <2>1. Merges(c, manifest.files, split, visible)
    BY <1>1 DEF ReadsInv, MergeInv
  <2>2. Merges(compaction', manifest.files, split, visible)
    BY ONLY <1>3, <1>4, <1>5, <2>1, MergesOutput
  <2> QED
    BY <1>1, <1>6, <2>2 DEF MergeInv
<1>8. OpenOrder'
  BY <1>1, <1>2, SameOpen DEF ReadsInv
<1>9. /\ split \subseteq split' /\ lastSequence <= lastSequence'
      /\ snapshots' \subseteq snapshots \cup {lastSequence}
      /\ DOMAIN logs' = DOMAIN logs
      /\ \A n \in DOMAIN logs : logs'[n].recs = logs[n].recs
  BY <1>1 DEF Base, TypeOK
<1> QED
  BY ONLY Base, Base', ReadsInv, <1>1, <1>2, <1>7, <1>8, <1>9, QuietFrame

LEMMA ClosureClosed ==
  ASSUME NEW v, NEW lo, NEW hi, NEW g \in v[0],
         NEW h \in GetOverlappingInputs(v, 0, lo, hi), Overlaps(g, Lo(h), Hi(h))
  PROVE  g \in GetOverlappingInputs(v, 0, lo, hi)
<1> DEFINE closed(S) == \A x \in v[0] :
             Overlaps(x, lo, hi) \/ (\E y \in S : Overlaps(x, Lo(y), Hi(y)))
               => x \in S
           G == GetOverlappingInputs(v, 0, lo, hi)
<1>1. G = {x \in v[0] : \A S \in SUBSET v[0] : closed(S) => x \in S}
  BY DEF GetOverlappingInputs, Lo, Hi
<1> HIDE DEF G
<1>2. \A S \in SUBSET v[0] : closed(S) => g \in S
  <2> SUFFICES ASSUME NEW S \in SUBSET v[0], closed(S)
               PROVE  g \in S
    OBVIOUS
  <2>1. h \in S
    BY <1>1 DEF G
  <2> QED
    BY <2>1
<1> QED
  BY <1>1, <1>2 DEF G

\* No key of the picked inputs is in a file of the next level that is not
\* among the inputs, nor in one of level 0.
LEMMA InputsApart ==
  ASSUME NEW v \in Version, Sorted(FilesOf(v)), Disjoint(v),
         NEW level \in 0 .. NumLevels - 2, NEW f \in v[level],
         NEW in \in CompactionInputs(v, level, f)
  PROVE  /\ \A g \in v[level + 1] \ in[2], b \in in[1] :
              Parted(g.entries, b.entries, {})
         /\ level = 0 => \A g \in v[0] \ in[1], b \in in[1] :
                           Parted(g.entries, b.entries, {})
<1> DEFINE over(l, F) == GetOverlappingInputs(v, l, minKey(F), maxKey(F))
           in0 == IF level = 0 THEN over(0, {f}) ELSE {f}
           in1 == over(level + 1, in0)
           wider == over(level, in0 \cup in1)
<1>1. /\ level \in Levels /\ level + 1 \in Levels \ {0} /\ level + 1 # 0
  BY LevelsType
<1>2. \A l \in Levels : \A g \in v[l] : g \in FilesOf(v) /\ g \in File /\ Distinct(g.entries)
  BY VersionFiles DEF Sorted
<1>3. \E F : /\ in = <<F, over(level + 1, F)>> /\ F \subseteq v[level]
             /\ level = 0 => \E lo, hi : F = GetOverlappingInputs(v, 0, lo, hi)
  <2>1. in0 \subseteq v[level] /\ wider \subseteq v[level]
    BY DEF GetOverlappingInputs
  <2>2. level = 0 => /\ \E lo, hi : in0 = GetOverlappingInputs(v, 0, lo, hi)
                     /\ \E lo, hi : wider = GetOverlappingInputs(v, 0, lo, hi)
    OBVIOUS
  <2>3. in = <<in0, in1>> \/ in = <<wider, over(level + 1, wider)>>
    BY DEF CompactionInputs
  <2>4. CASE in = <<in0, in1>>
    BY <2>1, <2>2, <2>4
  <2>5. CASE in = <<wider, over(level + 1, wider)>>
    BY <2>1, <2>2, <2>5
  <2> QED
    BY <2>3, <2>4, <2>5
<1> HIDE DEF over
<1>4. PICK F : /\ in = <<F, over(level + 1, F)>> /\ F \subseteq v[level]
               /\ level = 0 => \E lo, hi : F = GetOverlappingInputs(v, 0, lo, hi)
  BY <1>3
<1>5. in[1] = F /\ in[2] = over(level + 1, F)
  BY <1>4
<1>6. F # {}
  BY <1>5, InputsFit
<1>7. IsRange(F, minKey(F), maxKey(F)) /\ Ranged(F)
  <2>1. F \in Files
    BY <1>1, <1>4, FS_Subset DEF Version, Files
  <2>2. Ranged(F)
    BY <1>1, <1>2, <1>4, SortedRanged DEF Sorted
  <2> QED
    BY <1>6, <2>1, <2>2, RangeOfFiles
<1>8. ASSUME NEW g \in v[level + 1] \ in[2], NEW b \in in[1]
      PROVE  Parted(g.entries, b.entries, {})
  <2>1. ~Overlaps(g, minKey(F), maxKey(F))
    BY <1>1, <1>5 DEF over, GetOverlappingInputs
  <2>2. b \in F /\ b \in File /\ Distinct(b.entries) /\ g \in File /\ Distinct(g.entries)
    BY <1>1, <1>2, <1>4, <1>5
  <2>3. /\ Lo(g) \in Nat /\ Hi(g) \in Nat
        /\ minKey(F) \in Nat /\ maxKey(F) \in Nat /\ Lo(b) \in Nat /\ Hi(b) \in Nat
        /\ minKey(F) <= Lo(b) /\ Hi(b) <= maxKey(F)
    BY <1>7, <2>2, FileBounds DEF IsRange
  <2>4. ~Overlaps(g, Lo(b), Hi(b))
    BY <2>1, <2>3, OverlapsRange
  <2> QED
    BY <2>2, <2>4, NoOverlapParted DEF Parted
<1>9. ASSUME level = 0, NEW g \in v[0] \ in[1], NEW b \in in[1]
      PROVE  Parted(g.entries, b.entries, {})
  <2>1. PICK lo, hi : F = GetOverlappingInputs(v, 0, lo, hi)
    BY <1>4, <1>9
  <2>2. ~Overlaps(g, Lo(b), Hi(b))
    BY <1>5, <2>1, ClosureClosed
  <2>3. b \in File /\ Distinct(b.entries) /\ g \in File /\ Distinct(g.entries)
    BY <1>1, <1>2, <1>4, <1>5, <1>9
  <2> QED
    BY <2>2, <2>3, NoOverlapParted DEF Parted
<1> QED
  BY <1>8, <1>9

LEMMA TwoOrMore ==
  ASSUME NEW S, IsFiniteSet(S), NEW a \in S, NEW b \in S, a # b
  PROVE  Cardinality(S) > 1
<1>1. Cardinality(S) \in Nat
  BY FS_CardinalityType
<1>2. Cardinality(S) # 0
  BY FS_EmptySet
<1>3. Cardinality(S) # 1
  <2> SUFFICES ASSUME Cardinality(S) = 1
               PROVE  FALSE
    OBVIOUS
  <2>1. PICK x : S = {x}
    BY ONLY IsFiniteSet(S), Cardinality(S) = 1, FS_Singleton, Zenon
  <2> QED
    BY <2>1
<1> QED
  BY <1>1, <1>2, <1>3

\* What a compaction drops no reader misses (db_impl.cc:956).
LEMMA KeptRight ==
  ASSUME NEW v \in Version, Sorted(FilesOf(v)), NEW level \in 0 .. NumLevels - 2,
         NEW E \in EntrySets, Distinct(E), NEW q \in Nat, NEW W,
         \A s \in Nat : s <= q => s \in W,
         NEW e \in E, e \notin Kept(v, level, E, q)
  PROVE  \/ Hidden(e, E, W)
         \/ /\ Obsolete(e, Kept(v, level, E, q), W)
            /\ \A j \in Levels : j > level + 1 =>
                 \A y \in EntriesIn(v[j]) : y.key # e.key
<1> DEFINE hidden(x) == \E y \in E : /\ y.key = x.key /\ y.seq > x.seq
                                     /\ y.seq <= q
           obsolete(x) == /\ x.del /\ x.seq <= q
                          /\ IsBaseLevelForKey(v, level, x.key)
           kept == Kept(v, level, E, q)
<1>1. \A x \in E : x.seq \in Nat /\ x.key \in Nat
  BY DEF EntrySets, Entry
<1>2. kept = {x \in E : ~hidden(x) /\ ~obsolete(x)}
  BY DEF Kept
<1> HIDE DEF kept
<1>3. hidden(e) \/ obsolete(e)
  BY <1>2 DEF kept
<1>4. CASE hidden(e)
  <2>1. Hidden(e, E, W)
    BY <1>1, <1>4 DEF Hidden
  <2> QED
    BY <2>1
<1>5. CASE obsolete(e)
  <2>1. \A y \in kept : y.key = e.key => e.seq < y.seq
    <3> SUFFICES ASSUME NEW y \in kept, y.key = e.key
                 PROVE  e.seq < y.seq
      OBVIOUS
    <3>1. y \in E /\ ~hidden(y) /\ y.seq \in Nat /\ e.seq \in Nat
      BY <1>1, <1>2
    <3>2. ~(y.seq < e.seq)
      BY <1>5, <3>1
    <3>3. y.seq # e.seq
      BY <3>1 DEF Distinct, kept
    <3> QED
      BY <3>1, <3>2, <3>3
  <2>2. ASSUME NEW j \in Levels, j > level + 1, NEW y \in EntriesIn(v[j])
        PROVE  y.key # e.key
    <3>1. PICK g \in v[j] : y \in g.entries
      BY EntriesInMember
    <3>2. Lo(g) <= y.key /\ y.key <= Hi(g)
      BY <3>1, VersionFiles, FileBounds DEF Sorted
    <3>3. j \in level + 2 .. NumLevels - 1
      BY <2>2 DEF Levels
    <3>4. ~Overlaps(g, e.key, e.key)
      BY <1>5, <3>3 DEF IsBaseLevelForKey, OverlapInLevel
    <3> QED
      BY <3>2, <3>4, OverlapsRange
  <2> QED
    BY <1>1, <1>5, <2>1, <2>2 DEF Obsolete, kept
<1> QED
  BY <1>3, <1>4, <1>5

\* The rest of the two levels answers before the inputs of a compaction, or
\* not at all.
LEMMA InputsAside ==
  ASSUME NEW v \in Version, Sorted(FilesOf(v)), Disjoint(v), NEW K, Ordered(v, K),
         NEW level \in 0 .. NumLevels - 2, NEW f \in v[level],
         NEW in \in CompactionInputs(v, level, f),
         in[1] \subseteq v[level], in[2] \subseteq v[level + 1]
  PROVE  /\ Newer(EntriesIn(v[level] \ in[1]), EntriesIn(in[1] \cup in[2]), K)
         /\ Parted(EntriesIn(v[level + 1] \ in[2]), EntriesIn(in[1] \cup in[2]), K)
<1>1. /\ level \in Levels /\ level + 1 \in Levels \ {0} /\ level < level + 1
  BY LevelsType
<1>2. /\ \A g \in v[level + 1] \ in[2], b \in in[1] :
              Parted(g.entries, b.entries, {})
      /\ level = 0 => \A g \in v[0] \ in[1], b \in in[1] :
                        Parted(g.entries, b.entries, {})
  BY InputsApart
<1>3. ASSUME NEW g \in v[level] \ in[1], NEW h \in in[1] \cup in[2]
      PROVE  Newer(g.entries, h.entries, K)
  <2>1. CASE h \in in[2]
    <3>1. Newer(EntriesIn(v[level]), EntriesIn(v[level + 1]), K)
      BY <1>1 DEF Ordered
    <3>2. /\ g.entries \subseteq EntriesIn(v[level])
          /\ h.entries \subseteq EntriesIn(v[level + 1])
      BY <2>1, EntriesInMember
    <3> QED
      BY <3>1, <3>2 DEF Newer
  <2>2. CASE h \in in[1] /\ level = 0
    BY <1>2, <2>2 DEF Newer, Parted
  <2>3. CASE h \in in[1] /\ level # 0
    <3>1. Parted(g.entries, h.entries, K)
      BY <1>1, <2>3 DEF Ordered
    <3> QED
      BY <3>1 DEF Newer, Parted
  <2> QED
    BY <2>1, <2>2, <2>3
<1>4. ASSUME NEW g \in v[level + 1] \ in[2], NEW h \in in[1] \cup in[2]
      PROVE  Parted(g.entries, h.entries, K)
  <2>1. CASE h \in in[2]
    BY <1>1, <2>1 DEF Ordered
  <2>2. CASE h \in in[1]
    BY <1>2, <2>2 DEF Parted
  <2> QED
    BY <2>1, <2>2
<1>5. Newer(EntriesIn(v[level] \ in[1]), EntriesIn(in[1] \cup in[2]), K)
  <2> SUFFICES ASSUME NEW a \in EntriesIn(v[level] \ in[1]),
                      NEW b \in EntriesIn(in[1] \cup in[2]),
                      a.key = b.key, a.key \notin K
               PROVE  b.seq < a.seq
    BY DEF Newer
  <2>1. PICK g \in v[level] \ in[1] : a \in g.entries
    BY EntriesInMember
  <2>2. PICK h \in in[1] \cup in[2] : b \in h.entries
    BY EntriesInMember
  <2> QED
    BY <1>3, <2>1, <2>2 DEF Newer
<1>6. Parted(EntriesIn(v[level + 1] \ in[2]), EntriesIn(in[1] \cup in[2]), K)
  <2> SUFFICES ASSUME NEW a \in EntriesIn(v[level + 1] \ in[2]),
                      NEW b \in EntriesIn(in[1] \cup in[2]), a.key = b.key
               PROVE  a.key \in K
    BY DEF Parted
  <2>1. PICK g \in v[level + 1] \ in[2] : a \in g.entries
    BY EntriesInMember
  <2>2. PICK h \in in[1] \cup in[2] : b \in h.entries
    BY EntriesInMember
  <2> QED
    BY <1>4, <2>1, <2>2 DEF Parted
<1> QED
  BY <1>5, <1>6

\* A file that is moved as it is.
LEMMA MergesMove ==
  ASSUME NEW c, NEW v, NEW K, NEW W, c.in[2] = {}, c.todo = {}, c.outs = c.in[1],
         \A f, g \in c.in[1] : f = g,
         Newer(EntriesIn(v[c.level] \ c.in[1]), EntriesIn(c.in[1] \cup c.in[2]), K),
         Parted(EntriesIn(v[c.level + 1] \ c.in[2]), EntriesIn(c.in[1] \cup c.in[2]), K)
  PROVE  Merges(c, v, K, W)
<1>1. EntriesIn(c.in[1] \cup c.in[2]) = (UNION c.todo) \cup EntriesIn(c.outs)
  <2>1. c.in[1] \cup c.in[2] = c.outs /\ UNION c.todo = {}
    OBVIOUS
  <2> QED
    BY <2>1
<1> QED
  BY <1>1 DEF Merges

\* The files and what is merged from them.
LEMMA MergesStart ==
  ASSUME NEW c, NEW v \in Version, Sorted(FilesOf(v)), Distinct(EntriesIn(FilesOf(v))),
         NEW K, NEW W, NEW q \in Nat, \A s \in Nat : s <= q => s \in W,
         c.level \in 0 .. NumLevels - 2, c.in[1] \in Files, c.in[2] \in Files,
         c.in[1] \subseteq v[c.level], c.in[2] \subseteq v[c.level + 1], c.outs = {},
         NEW E, E = EntriesIn(c.in[1] \cup c.in[2]),
         c.todo \in Outputs(Kept(v, c.level, E, q)),
         {k \in {e.key : e \in Kept(v, c.level, E, q)} :
            Cardinality({o \in c.todo : \E e \in o : e.key = k}) > 1} \subseteq K,
         Newer(EntriesIn(v[c.level] \ c.in[1]), E, K),
         Parted(EntriesIn(v[c.level + 1] \ c.in[2]), E, K)
  PROVE  Merges(c, v, K, W)
<1> DEFINE kept == Kept(v, c.level, E, q)
           todo == c.todo
           holding(k) == {o \in todo : \E e \in o : e.key = k}
<1>1. E \in EntrySets
  BY FilesUnion, EntriesInType
<1>2. Distinct(E)
  <2>1. c.in[1] \cup c.in[2] \subseteq FilesOf(v)
    <3>1. c.level \in Levels /\ c.level + 1 \in Levels
      BY LevelsType
    <3> QED
      BY <3>1, FilesOfMember
  <2>2. E \subseteq EntriesIn(FilesOf(v))
    BY <2>1, EntriesInMember
  <2> QED
    BY <2>2 DEF Distinct
<1>3. kept \in EntrySets /\ kept \subseteq E
  BY <1>1, KeptType
<1>4. \A e \in E : e \notin kept =>
           \/ Hidden(e, E, W)
           \/ /\ Obsolete(e, kept, W)
              /\ \A j \in Levels : j > c.level + 1 =>
                   \A y \in EntriesIn(v[j]) : y.key # e.key
  BY <1>1, <1>2, KeptRight
<1>5. {k \in {e.key : e \in kept} : Cardinality(holding(k)) > 1} \subseteq K
  OBVIOUS
<1>6. todo \in Outputs(kept)
  OBVIOUS
<1> HIDE DEF kept, todo
<1>7. todo \in Slices /\ UNION todo = kept
  BY <1>3, <1>6, OutputsType
<1>8. ASSUME NEW s \in todo, NEW t \in todo, s # t
      PROVE  Parted(s, t, K)
  <2> SUFFICES ASSUME NEW a \in s, NEW b \in t, a.key = b.key
               PROVE  a.key \in K
    BY DEF Parted
  <2>1. a \in kept
    BY <1>7
  <2>2. s \in holding(a.key) /\ t \in holding(a.key)
    OBVIOUS
  <2>3. IsFiniteSet(holding(a.key))
    BY <1>7, FS_Subset DEF Slices
  <2>4. Cardinality(holding(a.key)) > 1
    <3> DEFINE H == holding(a.key)
    <3>1. s \in H /\ t \in H /\ IsFiniteSet(H)
      BY <2>2, <2>3
    <3> HIDE DEF H
    <3>2. Cardinality(H) > 1
      BY <1>8, <3>1, TwoOrMore
    <3> QED
      BY <3>2 DEF H
  <2> QED
    BY <1>5, <2>1, <2>4
<1>9. (UNION c.todo) \cup EntriesIn(c.outs) = kept
  BY <1>7, EntriesInMember DEF todo
<1> QED
  BY <1>3, <1>4, <1>8, <1>9 DEF Merges, todo

LEMMA SmallestSnapshot ==
  ASSUME Base, Owned, up = "up"
  PROVE  smallestSnapshot \in Nat /\ \A s \in Nat : s <= smallestSnapshot => s \in visible
<1>1. lastSequence \in Nat /\ snapshots \in SUBSET Nat /\ IsFiniteSet(snapshots)
      /\ \A s \in snapshots : s <= lastSequence
  BY DEF Base, TypeOK, Owned
<1>2. CASE snapshots = {}
  BY <1>1, <1>2 DEF smallestSnapshot, visible
<1>3. CASE snapshots # {}
  <2> DEFINE q == Min(snapshots)
  <2>1. q \in snapshots /\ \A s \in snapshots : q <= s
    BY <1>1, <1>3, MinMax
  <2>2. smallestSnapshot = q
    BY <1>3 DEF smallestSnapshot
  <2> HIDE DEF q
  <2>3. q \in Nat /\ q <= lastSequence
    BY <1>1, <2>1
  <2>4. \A s \in Nat : s <= q => s <= lastSequence /\ \A t \in snapshots : s <= t
    BY <1>1, <2>1, <2>3
  <2> QED
    BY <2>2, <2>3, <2>4 DEF visible
<1> QED
  BY <1>2, <1>3

LEMMA StartCompactionKeepsReads ==
  ASSUME Base, Base', LevelsInv, ReadsInv, NEW level \in CompactableLevels,
         NEW f \in current[level], StartCompaction(level, f)
  PROVE  ReadsInv'
<1> USE DEF StartCompaction, diskVars, writeVars, fileVars, readVars
<1>1. /\ up = "up" /\ up' = "up" /\ flush.pc = "none"
      /\ current \in Version /\ level \in 0 .. NumLevels - 2
      /\ manifest.files = current
      /\ UNCHANGED <<manifest, current, logs, mem, imm, flush, logfile,
                     lastSequence, snapshots, committed>>
  BY DEF CanCompact, Base, TypeOK, CompactableLevels, Installing
<1>2. PICK in \in CompactionInputs(current, level, f) :
        LET kept == Kept(current, level,
                         UNION {g.entries : g \in in[1] \cup in[2]},
                         smallestSnapshot)
        IN  \/ /\ Cardinality(in[1]) = 1 /\ in[2] = {}
               /\ compaction' = [NoCompaction EXCEPT
                    !.pc = "merge", !.level = level, !.in = in,
                    !.outs = in[1], !.move = TRUE]
               /\ UNCHANGED split
            \/ \E outs \in Outputs(kept) :
                 /\ compaction' = [NoCompaction EXCEPT
                      !.pc = "merge", !.level = level, !.in = in, !.todo = outs]
                 /\ split' = split \cup
                      {k \in {e.key : e \in kept} :
                         Cardinality({o \in outs :
                                        \E e \in o : e.key = k}) > 1}
  BY Zenon
<1> HIDE DEF StartCompaction
<1>3. visible' = visible
  BY <1>1 DEF visible
<1>4. /\ in[1] \in Files /\ in[2] \in Files
      /\ in[1] \subseteq current[level] /\ in[2] \subseteq current[level + 1]
  <2>1. /\ in \in Files \X Files
        /\ in[1] \in SUBSET current[level] /\ in[2] \in SUBSET current[level + 1]
    BY ONLY <1>1, f \in current[level], CompactionInputsType,
            in \in CompactionInputs(current, level, f), ZenonT(30)
  <2> QED
    BY ONLY <2>1
<1>5. /\ Sorted(FilesOf(current)) /\ Disjoint(current) /\ Ordered(current, split)
      /\ Distinct(EntriesIn(FilesOf(current)))
  <2>1. Sorted(FilesOf(current)) /\ Disjoint(current)
    BY VersionsSorted DEF LevelsInv
  <2>2. Ordered(current, split)
    BY DEF ReadsInv, OrderedInv
  <2>3. Distinct(EntriesIn(FilesOf(current)))
    BY DEF LevelsInv, Identified, Known, Tabled, Distinct
  <2> QED
    BY <2>1, <2>2, <2>3
<1>6. smallestSnapshot \in Nat /\ \A s \in Nat : s <= smallestSnapshot => s \in visible
  BY <1>1, SmallestSnapshot DEF ReadsInv
<1> DEFINE E == EntriesIn(in[1] \cup in[2])
           kept == Kept(current, level, E, smallestSnapshot)
<1>7. UNION {g.entries : g \in in[1] \cup in[2]} = E
  BY DEF EntriesIn
<1>8. split \subseteq split' =>
         /\ Newer(EntriesIn(current[level] \ in[1]), E, split')
         /\ Parted(EntriesIn(current[level + 1] \ in[2]), E, split')
  <2>1. /\ Newer(EntriesIn(current[level] \ in[1]), E, split)
        /\ Parted(EntriesIn(current[level + 1] \ in[2]), E, split)
    BY ONLY <1>1, <1>4, <1>5, f \in current[level], InputsAside,
            in \in CompactionInputs(current, level, f)
  <2> HIDE DEF E
  <2> QED
    BY <2>1 DEF Newer, Parted
<1>9. /\ split \subseteq split'
      /\ compaction'.pc = "merge"
      /\ Merges(compaction', current, split', visible)
  <2>1. CASE /\ Cardinality(in[1]) = 1 /\ in[2] = {}
             /\ compaction' = [NoCompaction EXCEPT
                  !.pc = "merge", !.level = level, !.in = in,
                  !.outs = in[1], !.move = TRUE]
             /\ UNCHANGED split
    <3>1. \A g, h \in in[1] : g = h
      <4>1. IsFiniteSet(in[1]) /\ Cardinality(in[1]) = 1
        BY <1>4, <2>1 DEF Files
      <4>2. PICK x : in[1] = {x}
        BY ONLY <4>1, FS_Singleton, Zenon
      <4> QED
        BY <4>2
    <3>2. /\ compaction'.level = level /\ compaction'.in = in
          /\ compaction'.todo = {} /\ compaction'.outs = in[1]
          /\ compaction'.pc = "merge"
      BY <2>1 DEF NoCompaction
    <3>3. split \subseteq split'
      BY <2>1
    <3>4. in[2] = {}
      BY <2>1
    <3> HIDE DEF E
    <3>5. Merges(compaction', current, split', visible)
      BY ONLY <1>8, <3>1, <3>2, <3>3, <3>4, MergesMove DEF E
    <3> QED
      BY <3>2, <3>3, <3>5
  <2>2. ASSUME NEW outs \in Outputs(kept),
               compaction' = [NoCompaction EXCEPT
                 !.pc = "merge", !.level = level, !.in = in, !.todo = outs],
               split' = split \cup
                 {k \in {e.key : e \in kept} :
                    Cardinality({o \in outs : \E e \in o : e.key = k}) > 1}
        PROVE  /\ split \subseteq split'
               /\ compaction'.pc = "merge"
               /\ Merges(compaction', current, split', visible)
    <3>1. /\ compaction'.level = level /\ compaction'.in = in
          /\ compaction'.todo = outs /\ compaction'.outs = {}
          /\ compaction'.pc = "merge"
      BY <2>2 DEF NoCompaction
    <3>2. /\ split \subseteq split'
          /\ {k \in {e.key : e \in kept} :
                Cardinality({o \in outs : \E e \in o : e.key = k}) > 1} \subseteq split'
      BY <2>2
    <3>3. outs \in Outputs(kept)
      OBVIOUS
    <3> HIDE DEF E
    <3>4. Merges(compaction', current, split', visible)
      BY ONLY <1>1, <1>4, <1>5, <1>6, <1>8, <3>1, <3>2, <3>3, MergesStart DEF E
    <3> QED
      BY <3>1, <3>2, <3>4
  <2> HIDE DEF E
  <2> QED
    BY <1>2, <1>7, <2>1, <2>2
<1>10. MergeInv'
  BY <1>1, <1>3, <1>9 DEF MergeInv
<1>11. OpenOrder'
  BY <1>1, SameOpen DEF ReadsInv
<1>12. /\ lastSequence <= lastSequence'
       /\ snapshots' \subseteq snapshots \cup {lastSequence}
       /\ DOMAIN logs' = DOMAIN logs
       /\ \A n \in DOMAIN logs : logs'[n].recs = logs[n].recs
       /\ flush'.pc = "install" <=> flush.pc = "install"
  BY <1>1 DEF Base, TypeOK
<1> QED
  BY ONLY Base, Base', ReadsInv, <1>1, <1>9, <1>10, <1>11, <1>12, QuietFrame

\* The outputs of compaction c take the place of its inputs in v: w.
Replaced(c, v, w) ==
  /\ c.level \in 0 .. NumLevels - 2
  /\ c.in[1] \subseteq v[c.level] /\ c.in[2] \subseteq v[c.level + 1]
  /\ w[c.level] = v[c.level] \ c.in[1]
  /\ w[c.level + 1] = (v[c.level + 1] \ c.in[2]) \cup c.outs
  /\ \A k \in Levels : k # c.level /\ k # c.level + 1 => w[k] = v[k]

LEMMA ReplacedEntries ==
  ASSUME NEW c, NEW v, NEW w, NEW K, NEW W, Replaced(c, v, w),
         Merges(c, v, K, W), c.todo = {}
  PROVE  LET a == c.level
             taken == EntriesIn(c.in[1] \cup c.in[2])
         IN  /\ a \in Levels /\ a + 1 \in Levels /\ a \in Nat
             /\ EntriesIn(c.outs) \subseteq taken
             /\ taken \subseteq EntriesIn(v[a]) \cup EntriesIn(v[a + 1])
             /\ \A k \in Levels : k # a + 1 =>
                  w[k] \subseteq v[k] /\ EntriesIn(w[k]) \subseteq EntriesIn(v[k])
             /\ EntriesIn(w[a + 1]) = EntriesIn(v[a + 1] \ c.in[2]) \cup EntriesIn(c.outs)
             /\ EntriesIn(v[a + 1] \ c.in[2]) \subseteq EntriesIn(v[a + 1])
<1> DEFINE a == c.level
           taken == EntriesIn(c.in[1] \cup c.in[2])
<1>1. a \in Levels /\ a + 1 \in Levels /\ a \in Nat
  BY LevelsType DEF Replaced, Levels
<1>2. EntriesIn(c.outs) \subseteq taken
  <2>1. (UNION c.todo) \cup EntriesIn(c.outs) \subseteq taken
    BY DEF Merges
  <2> QED
    BY <2>1
<1>3. taken \subseteq EntriesIn(v[a]) \cup EntriesIn(v[a + 1])
  BY EntriesInMember DEF Replaced
<1>4. \A k \in Levels : k # a + 1 =>
        w[k] \subseteq v[k] /\ EntriesIn(w[k]) \subseteq EntriesIn(v[k])
  <2>1. \A k \in Levels : k # a + 1 => w[k] \subseteq v[k]
    BY DEF Replaced
  <2> QED
    BY <2>1, EntriesInMember
<1>5. EntriesIn(w[a + 1]) = EntriesIn(v[a + 1] \ c.in[2]) \cup EntriesIn(c.outs)
  BY EntriesInMember DEF Replaced
<1>6. EntriesIn(v[a + 1] \ c.in[2]) \subseteq EntriesIn(v[a + 1])
  BY EntriesInMember
<1> QED
  BY <1>1, <1>2, <1>3, <1>4, <1>5, <1>6

LEMMA OrderedReplaced ==
  ASSUME NEW c, NEW v, NEW w, NEW K, NEW W, Ordered(v, K), Merges(c, v, K, W),
         c.todo = {}, Replaced(c, v, w)
  PROVE  Ordered(w, K)
<1> DEFINE taken == EntriesIn(c.in[1] \cup c.in[2])
           a == c.level
           rest == EntriesIn(v[a + 1] \ c.in[2])
           made == EntriesIn(c.outs)
<1>1. /\ a \in Levels /\ a + 1 \in Levels /\ a \in Nat
      /\ made \subseteq taken
      /\ taken \subseteq EntriesIn(v[a]) \cup EntriesIn(v[a + 1])
      /\ \A k \in Levels : k # a + 1 =>
           w[k] \subseteq v[k] /\ EntriesIn(w[k]) \subseteq EntriesIn(v[k])
      /\ EntriesIn(w[a + 1]) = rest \cup made
      /\ rest \subseteq EntriesIn(v[a + 1])
  BY ReplacedEntries
<1>2. /\ w[a] = v[a] \ c.in[1]
      /\ w[a + 1] = (v[a + 1] \ c.in[2]) \cup c.outs
  BY DEF Replaced
<1>3. /\ Newer(EntriesIn(v[a] \ c.in[1]), taken, K)
      /\ Parted(rest, taken, K)
      /\ \A f, g \in c.outs : f # g => Parted(f.entries, g.entries, K)
  BY DEF Merges
<1>4. /\ \A f \in v[a + 1] \ c.in[2] : f.entries \subseteq rest
      /\ \A f \in c.outs : f.entries \subseteq made
  BY EntriesInMember
<1>5. Levels \subseteq Nat /\ 0 \in Levels /\ a + 1 # 0
  BY <1>1, LevelsType DEF Levels
<1> HIDE DEF taken, rest, made, a
<1>6. ASSUME NEW i \in Levels, NEW j \in Levels, i < j
      PROVE  Newer(EntriesIn(w[i]), EntriesIn(w[j]), K)
  <2>1. \A k, m \in Levels : k < m => Newer(EntriesIn(v[k]), EntriesIn(v[m]), K)
    BY DEF Ordered
  <2>2. CASE i = a /\ j = a + 1
    <3>1. Newer(EntriesIn(w[i]), taken, K)
      BY <1>2, <1>3, <2>2
    <3>2. Newer(EntriesIn(v[i]), EntriesIn(v[j]), K)
      BY <1>6, <2>1
    <3>3. EntriesIn(w[i]) \subseteq EntriesIn(v[i])
      BY <1>1, <1>5, <2>2
    <3>4. \A e \in EntriesIn(w[j]) : e \in EntriesIn(v[j]) \/ e \in taken
      BY <1>1, <2>2
    <3> QED
      BY <3>1, <3>2, <3>3, <3>4 DEF Newer
  <2>3. CASE i < a /\ j = a + 1
    <3>1. Newer(EntriesIn(v[i]), EntriesIn(v[a]), K)
          /\ Newer(EntriesIn(v[i]), EntriesIn(v[a + 1]), K)
      BY <1>1, <1>6, <2>1, <2>3
    <3>2. EntriesIn(w[i]) \subseteq EntriesIn(v[i])
      BY <1>1, <1>5, <2>3
    <3>3. \A e \in EntriesIn(w[j]) : e \in EntriesIn(v[a]) \/ e \in EntriesIn(v[a + 1])
      BY <1>1, <2>3
    <3> QED
      BY <3>1, <3>2, <3>3 DEF Newer
  <2>4. CASE i = a + 1
    <3>1. Newer(EntriesIn(v[a]), EntriesIn(v[j]), K)
          /\ Newer(EntriesIn(v[a + 1]), EntriesIn(v[j]), K)
      <4>1. a < j
        BY <1>1, <1>5, <1>6, <2>4
      <4> QED
        BY <1>1, <1>6, <2>1, <2>4, <4>1
    <3>2. EntriesIn(w[j]) \subseteq EntriesIn(v[j])
      BY <1>1, <1>5, <1>6, <2>4
    <3>3. \A e \in EntriesIn(w[i]) : e \in EntriesIn(v[a]) \/ e \in EntriesIn(v[a + 1])
      BY <1>1, <2>4
    <3> QED
      BY <3>1, <3>2, <3>3 DEF Newer
  <2>5. CASE i # a + 1 /\ j # a + 1
    <3>1. EntriesIn(w[i]) \subseteq EntriesIn(v[i])
          /\ EntriesIn(w[j]) \subseteq EntriesIn(v[j])
      BY <1>1, <2>5
    <3>2. Newer(EntriesIn(v[i]), EntriesIn(v[j]), K)
      BY <1>6, <2>1
    <3> QED
      BY <3>1, <3>2 DEF Newer
  <2>6. i \in Nat /\ j \in Nat /\ a \in Nat
    BY <1>1, <1>5
  <2>7. j = a + 1 => i < a \/ i = a
    BY <1>6, <2>6
  <2> QED
    BY <2>2, <2>3, <2>4, <2>5, <2>7
<1>7. ASSUME NEW f \in w[0], NEW g \in w[0], f # g
      PROVE  f.num # g.num /\ (g.num < f.num => Newer(f.entries, g.entries, K))
  <2>1. f \in v[0] /\ g \in v[0]
    BY <1>1, <1>5
  <2> QED
    BY <1>7, <2>1 DEF Ordered
<1>8. ASSUME NEW k \in Levels \ {0}, NEW f \in w[k], NEW g \in w[k], f # g
      PROVE  Parted(f.entries, g.entries, K)
  <2>1. \A x, y \in v[k] : x # y => Parted(x.entries, y.entries, K)
    BY DEF Ordered
  <2>2. CASE k # a + 1
    BY <1>1, <1>8, <2>1, <2>2
  <2>3. CASE k = a + 1
    <3> DEFINE old == v[a + 1] \ c.in[2]
    <3>1. CASE f \in old /\ g \in old
      BY <1>8, <2>1, <2>3, <3>1
    <3>2. CASE f \in old /\ g \in c.outs
      BY <1>1, <1>3, <1>4, <3>2 DEF Parted
    <3>3. CASE f \in c.outs /\ g \in old
      BY <1>1, <1>3, <1>4, <3>3 DEF Parted
    <3>4. CASE f \in c.outs /\ g \in c.outs
      BY <1>3, <1>8, <3>4
    <3> QED
      BY <1>2, <2>3, <3>1, <3>2, <3>3, <3>4
  <2> QED
    BY <2>2, <2>3
<1> QED
  BY <1>6, <1>7, <1>8 DEF Ordered

\* What the inputs had and the outputs lack no reader misses.
LEMMA ShownReplaced ==
  ASSUME NEW c, NEW v, NEW w, NEW S, NEW K, NEW W, Ordered(v, K),
         Merges(c, v, K, W), c.todo = {}, Replaced(c, v, w), Shown(v, S, K, W),
         EntriesIn(FilesOf(v)) \subseteq S
  PROVE  /\ Shown(w, S, K, W)
         /\ EntriesIn(FilesOf(w)) \subseteq EntriesIn(FilesOf(v))
<1> DEFINE taken == EntriesIn(c.in[1] \cup c.in[2])
           a == c.level
           rest == EntriesIn(v[a + 1] \ c.in[2])
           made == EntriesIn(c.outs)
<1>1. /\ a \in Levels /\ a + 1 \in Levels /\ a \in Nat
      /\ made \subseteq taken
      /\ taken \subseteq EntriesIn(v[a]) \cup EntriesIn(v[a + 1])
      /\ \A k \in Levels : k # a + 1 =>
           w[k] \subseteq v[k] /\ EntriesIn(w[k]) \subseteq EntriesIn(v[k])
      /\ EntriesIn(w[a + 1]) = rest \cup made
      /\ rest \subseteq EntriesIn(v[a + 1])
  BY ReplacedEntries
<1>2. /\ w[a] = v[a] \ c.in[1]
      /\ \A k \in Levels : k # a /\ k # a + 1 => w[k] = v[k]
      /\ c.in[1] \subseteq v[a] /\ c.in[2] \subseteq v[a + 1]
  BY DEF Replaced
<1>3. /\ Newer(EntriesIn(v[a] \ c.in[1]), taken, K)
      /\ Parted(rest, taken, K)
      /\ \A e \in taken : e \notin made /\ e.key \notin K =>
           \/ Hidden(e, taken, W)
           \/ /\ Obsolete(e, made, W)
              /\ \A j \in Levels : j > a + 1 =>
                   \A y \in EntriesIn(v[j]) : y.key # e.key
  <2>1. (UNION c.todo) \cup EntriesIn(c.outs) = made
    OBVIOUS
  <2> QED
    BY <2>1 DEF Merges
<1>4. \A k \in Levels : EntriesIn(v[k]) \subseteq EntriesIn(FilesOf(v))
  BY LevelEntries
<1>5. /\ \A e : e \in EntriesIn(FilesOf(v)) <=> \E k \in Levels : e \in EntriesIn(v[k])
      /\ \A e : e \in EntriesIn(FilesOf(w)) <=> \E k \in Levels : e \in EntriesIn(w[k])
  BY EntriesInMember, FilesOfMember
<1>6. /\ \A e \in EntriesIn(v[a]) : e \in EntriesIn(w[a]) \/ e \in taken
      /\ \A e \in EntriesIn(v[a + 1]) : e \in rest \/ e \in taken
  <2>1. ASSUME NEW e \in EntriesIn(v[a])
        PROVE  e \in EntriesIn(w[a]) \/ e \in taken
    BY <1>2, EntriesInMember
  <2>2. ASSUME NEW e \in EntriesIn(v[a + 1])
        PROVE  e \in rest \/ e \in taken
    BY EntriesInMember
  <2> QED
    BY <2>1, <2>2
<1> HIDE DEF taken, rest, made, a
<1>7. EntriesIn(FilesOf(w)) \subseteq EntriesIn(FilesOf(v))
  <2> SUFFICES ASSUME NEW k \in Levels, NEW e \in EntriesIn(w[k])
               PROVE  e \in EntriesIn(FilesOf(v))
    BY <1>5
  <2>1. CASE k # a + 1
    BY <1>1, <1>4, <2>1
  <2>2. CASE k = a + 1
    BY <1>1, <1>4, <2>2
  <2> QED
    BY <2>1, <2>2
<1>8. ASSUME NEW e \in S, e \notin EntriesIn(FilesOf(w)), e.key \notin K
      PROVE  Hidden(e, S, W) \/ Obsolete(e, EntriesIn(FilesOf(w)), W)
  <2>1. CASE e \notin EntriesIn(FilesOf(v))
    <3>1. Hidden(e, S, W) \/ Obsolete(e, EntriesIn(FilesOf(v)), W)
      BY <1>8, <2>1 DEF Shown
    <3> QED
      BY <1>7, <3>1 DEF Obsolete
  <2>2. CASE e \in EntriesIn(FilesOf(v))
    <3>1. e \in taken /\ e \notin made
      <4>1. PICK k \in Levels : e \in EntriesIn(v[k])
        BY <1>5, <2>2
      <4>2. \A m \in Levels : e \notin EntriesIn(w[m])
        BY <1>5, <1>8
      <4>3. k = a \/ k = a + 1
        BY <1>2, <4>1, <4>2
      <4>4. e \notin rest /\ e \notin made /\ e \notin EntriesIn(w[a])
        BY <1>1, <4>2
      <4> QED
        BY <1>6, <4>1, <4>3, <4>4
    <3>2. CASE Hidden(e, taken, W)
      <4>1. taken \subseteq S
        BY <1>1, <1>4
      <4> QED
        BY <3>2, <4>1 DEF Hidden
    <3>3. CASE /\ Obsolete(e, made, W)
               /\ \A j \in Levels : j > a + 1 =>
                    \A y \in EntriesIn(v[j]) : y.key # e.key
      <4>1. ASSUME NEW j \in Levels, NEW y \in EntriesIn(w[j]), y.key = e.key
            PROVE  e.seq < y.seq
        <5>1. j \in Nat /\ a \in Nat
          BY <1>1 DEF Levels
        <5>2. CASE j < a
          <6>1. y \in EntriesIn(v[j])
            BY <1>1, <4>1, <5>1, <5>2
          <6>2. /\ Newer(EntriesIn(v[j]), EntriesIn(v[a]), K)
                /\ Newer(EntriesIn(v[j]), EntriesIn(v[a + 1]), K)
            <7>1. j < a + 1
              BY <5>1, <5>2
            <7> QED
              BY <1>1, <5>2, <7>1 DEF Ordered
          <6>3. e \in EntriesIn(v[a]) \/ e \in EntriesIn(v[a + 1])
            BY <1>1, <3>1
          <6> QED
            BY <1>8, <4>1, <6>1, <6>2, <6>3 DEF Newer
        <5>3. CASE j = a
          <6>1. Newer(EntriesIn(w[j]), taken, K)
            BY <1>2, <1>3, <5>3
          <6> QED
            BY <1>8, <3>1, <4>1, <6>1 DEF Newer
        <5>4. CASE j = a + 1
          <6>1. y \in rest \/ y \in made
            BY <1>1, <5>4
          <6>2. y \notin rest
            BY <1>3, <1>8, <3>1, <4>1 DEF Parted
          <6> QED
            BY <3>3, <4>1, <6>1, <6>2 DEF Obsolete
        <5>5. CASE j > a + 1
          <6>1. y \in EntriesIn(v[j])
            BY <1>1, <4>1, <5>1, <5>5
          <6> QED
            BY <3>3, <4>1, <5>5, <6>1
        <5>6. j < a \/ j = a \/ j = a + 1 \/ j > a + 1
          BY <5>1
        <5> QED
          BY <5>2, <5>3, <5>4, <5>5, <5>6
      <4>2. \A y \in EntriesIn(FilesOf(w)) : y.key = e.key => e.seq < y.seq
        BY <1>5, <4>1
      <4> QED
        BY <3>3, <4>2 DEF Obsolete
    <3> QED
      BY <1>3, <1>8, <3>1, <3>2, <3>3
  <2> QED
    BY <2>1, <2>2
<1> QED
  BY <1>7, <1>8 DEF Shown

LEMMA LogCompactionKeepsReads ==
  ASSUME Base, Base', ReadsInv, LogCompaction
  PROVE  ReadsInv'
<1>1. /\ up = "up" /\ up' = "up" /\ flush.pc = "none" /\ compaction.pc = "merge"
      /\ compaction.todo = {}
      /\ UNCHANGED <<current, mem, imm, flush, logs, logfile, lastSequence,
                     snapshots, committed, split>>
      /\ manifest'.files = compacted /\ manifest'.log = logNumber
      /\ compaction'.pc = "install"
      /\ current \in Version /\ CompactionOK
  BY NothingType DEF LogCompaction, LogEdit, writeVars, fileVars, readVars,
     historyVars, Base, TypeOK, Phases, CompactionOK
<1>2. manifest.files = current /\ logNumber = manifest.log
  BY <1>1 DEF Base, Installing, Numbers
<1>3. needed' = needed /\ \A n \in needed : Held(n)' = Held(n)
  BY <1>1, <1>2 DEF needed, Held
<1>4. Logged' = Logged /\ Older' = Older /\ visible' = visible
  BY <1>1, <1>3 DEF Logged, Older, visible
<1>5. Settled' = Settled /\ Flushed' = Flushed /\ Settled = Flushed
  BY <1>1, <1>4, SettledIsFlushed DEF ReadsInv, Settled, Flushed
<1>6. Replaced(compaction, current, compacted)
  <2>1. \A k \in Levels : compacted[k] =
          IF k = compaction.level THEN current[k] \ compaction.in[1]
          ELSE IF k = compaction.level + 1
               THEN (current[k] \ compaction.in[2]) \cup compaction.outs
          ELSE current[k]
    BY <1>1, CompactedType
  <2>2. /\ compaction.level \in 0 .. NumLevels - 2
        /\ compaction.level \in Levels /\ compaction.level + 1 \in Levels
        /\ compaction.level # compaction.level + 1
    BY <1>1, LevelsType DEF CompactionOK
  <2>3. /\ compaction.in[1] \subseteq current[compaction.level]
        /\ compaction.in[2] \subseteq current[compaction.level + 1]
    BY DEF Base, Installing
  <2> QED
    BY <2>1, <2>2, <2>3 DEF Replaced
<1>7. /\ Merges(compaction, current, split, visible)
      /\ Ordered(current, split) /\ Shown(current, Settled, split, visible)
      /\ EntriesIn(FilesOf(current)) \subseteq Settled
  BY <1>1, <1>2, <1>5 DEF ReadsInv, MergeInv, OrderedInv, ShownInv, MemOrder
<1>8. Ordered(compacted, split)
  BY <1>1, <1>6, <1>7, OrderedReplaced
<1>9. /\ Shown(compacted, Settled, split, visible)
      /\ EntriesIn(FilesOf(compacted)) \subseteq EntriesIn(FilesOf(current))
  BY <1>1, <1>6, <1>7, ShownReplaced
<1>10. Owned'
  BY <1>1, <1>4, <1>5, <1>7, <1>9 DEF ReadsInv, Owned
<1>11. LogOrder'
  BY <1>3, <1>5 DEF ReadsInv, LogOrder
<1>12. MemOrder'
  <2>1. Held(logfile)' = Held(logfile)
    BY <1>1 DEF Held
  <2> QED
    BY <1>1, <1>4, <1>5, <2>1 DEF ReadsInv, MemOrder
<1>13. OpenOrder'
  BY <1>1, SameOpen DEF ReadsInv
<1>14. OrderedInv'
  BY <1>1, <1>7, <1>8 DEF OrderedInv
<1>15. ShownInv'
  BY <1>1, <1>4, <1>5, <1>7, <1>9 DEF ShownInv
<1>16. MergeInv'
  BY <1>1 DEF MergeInv
<1> QED
  BY <1>10, <1>11, <1>12, <1>13, <1>14, <1>15, <1>16 DEF ReadsInv

-----------------------------------------------------------------------------
(* Crash and recovery *)

LEMMA OrderedEmpty == \A K : Ordered(EmptyVersion, K)
<1>1. \A l \in Levels : EmptyVersion[l] = {} /\ EntriesIn(EmptyVersion[l]) = {}
  BY EntriesInMember DEF EmptyVersion
<1>2. 0 \in Levels
  BY LevelsType
<1> QED
  BY <1>1, <1>2 DEF Ordered, Newer

\* A crash takes a part of the logs and nothing else.
LEMMA CrashKeepsReads ==
  ASSUME Base, Base', ReadsInv, Crash
  PROVE  ReadsInv'
<1>1. /\ up' = "down" /\ UNCHANGED <<manifest, split>> /\ mem' = {} /\ imm' = {}
      /\ current' = EmptyVersion /\ lastSequence' = 0 /\ snapshots' = {}
      /\ flush' = NoFlush /\ compaction' = NoCompaction /\ LogsOK
  BY DEF Crash, Base, TypeOK
<1>2. /\ LogsOK' /\ DOMAIN logs' = DOMAIN logs
      /\ \A n \in DOMAIN logs :
           /\ Len(logs'[n].recs) <= Len(logs[n].recs)
           /\ \A i \in 1 .. Len(logs'[n].recs) : logs'[n].recs[i] = logs[n].recs[i]
      /\ committed' = (committed \ UNION {Entries(logs[n].recs) : n \in needed})
                        \cup UNION {Entries(logs'[n].recs) : n \in needed}
  BY <1>1, CrashLogs
<1>3. needed' = needed /\ needed \subseteq DOMAIN logs
  BY <1>1, <1>2 DEF needed
<1>4. \A n \in needed : Held(n)' \subseteq Held(n)
  <2>1. LogParts /\ LogParts'
    BY LogsHold, LogsHoldThen
  <2> SUFFICES ASSUME NEW n \in needed, NEW e \in Held(n)'
               PROVE  e \in Held(n)
    OBVIOUS
  <2>2. PICK i \in 1 .. Len(logs'[n].recs) : e \in logs'[n].recs[i]
    BY <1>3, <2>1 DEF LogParts
  <2>3. /\ Len(logs'[n].recs) <= Len(logs[n].recs)
        /\ Len(logs'[n].recs) \in Nat /\ Len(logs[n].recs) \in Nat
    <3>1. LogsOK /\ LogsOK' /\ n \in DOMAIN logs /\ n \in DOMAIN logs'
      BY <1>1, <1>2, <1>3
    <3>2. logs[n].recs \in Seq(Table) /\ logs'[n].recs \in Seq(Table)
      BY <3>1 DEF LogsOK, Log
    <3> QED
      BY <1>2, <3>1, <3>2
  <2>4. i \in 1 .. Len(logs[n].recs) /\ e \in logs[n].recs[i]
    BY <1>2, <1>3, <2>2, <2>3
  <2> QED
    BY <2>1, <2>4 DEF LogParts
<1>5. /\ Logged' \subseteq Logged /\ committed' = Settled \cup Logged'
      /\ Settled' = Settled
  <2>1. Logged' \subseteq Logged
    BY <1>3, <1>4 DEF Logged
  <2>2. committed' = Settled \cup Logged'
    BY <1>2, <1>3 DEF Settled, Logged, Held
  <2>3. Settled' = Settled
    BY <2>1, <2>2 DEF Settled
  <2> QED
    BY <2>1, <2>2, <2>3
<1>6. visible \subseteq visible'
  BY <1>1 DEF visible
<1>7. EntriesIn(FilesOf(current')) = {}
  BY <1>1, EmptyVersionType, EntriesInMember
<1>8. Owned'
  <2>1. committed' \cup Logged' \subseteq committed \cup Logged
    BY <1>5 DEF Settled
  <2>2. Distinct(committed' \cup Logged')
    BY <2>1 DEF ReadsInv, Owned, Distinct
  <2>3. EntriesIn(FilesOf(manifest'.files)) \subseteq Settled'
    BY <1>1, <1>5 DEF ReadsInv, Owned
  <2>4. IsFiniteSet(snapshots')
    BY <1>1, FS_EmptySet
  <2> QED
    BY <1>1, <1>5, <1>7, <2>2, <2>3, <2>4 DEF Owned
<1>9. LogOrder'
  <2>1. \A m, n \in needed : m < n => Later(Held(n)', Held(m)')
    BY <1>4 DEF ReadsInv, LogOrder, Later
  <2>2. \A n \in needed : Later(Held(n)', Settled)
    BY <1>4 DEF ReadsInv, LogOrder, Later
  <2> QED
    BY <1>3, <1>5, <2>1, <2>2 DEF LogOrder
<1>10. MemOrder'
  BY <1>1 DEF MemOrder
<1>11. OpenOrder'
  BY <1>1, NothingType DEF OpenOrder
<1>12. OrderedInv'
  BY <1>1, OrderedEmpty DEF ReadsInv, OrderedInv
<1>13. ShownInv'
  BY <1>1, <1>5, <1>6, ShownMore DEF ReadsInv, ShownInv
<1>14. MergeInv'
  BY <1>1, NothingType DEF MergeInv
<1> QED
  BY <1>8, <1>9, <1>10, <1>11, <1>12, <1>13, <1>14 DEF ReadsInv

\* Recovery makes a table of each log, in their order.
LEMMA RecoverKeepsReads ==
  ASSUME Base, Base', FilesInv, ReadsInv, Recover
  PROVE  ReadsInv'
<1>1. /\ Replayed(replay, Max(DOMAIN logs))
      /\ \A n \in needed : n <= Max(DOMAIN logs)
      /\ \A n \in DOMAIN logs : n < replay.next
      /\ replay.next \in Nat \ {0} /\ replay.last \in Nat
      /\ \A f \in replay.files : manifest.next < f.num
      /\ lastSequence' = replay.last /\ logs' = withLog(replay.next)
      /\ logfile' = replay.next
      /\ flush' = [pc |-> "open", files |-> replay.files, level |-> 0]
      /\ current' = manifest.files
      /\ UNCHANGED <<manifest, mem, imm, compaction, snapshots, committed, split>>
      /\ up = "down" /\ up' = "opening"
  BY RecoverFacts
<1>2. /\ mem = {} /\ imm = {} /\ compaction = NoCompaction /\ snapshots = {}
      /\ LogsOK /\ ManifestOK
  BY <1>1 DEF Base, Phases, TypeOK
<1>3. PICK new \in Nat : new = replay.next
  BY <1>1
<1>4. /\ needed' = needed \cup {new} /\ new \notin DOMAIN logs
      /\ \A m \in needed : logs'[m] = logs[m]
      /\ Len(logs'[new].recs) = 0
  BY <1>1, <1>3, NewLog
<1>5. needed \subseteq DOMAIN logs /\ \A n \in needed : n < new /\ n \in Nat
  BY <1>1, <1>2, <1>3 DEF needed, LogsOK
<1>6. (\A m \in needed : Held(m)' = Held(m)) /\ Held(new)' = {}
  <2>1. LogParts'
    BY LogsHoldThen
  <2>2. new \in needed'
    BY <1>4
  <2>3. \A e : e \in Held(new)'
                <=> \E i \in 1 .. Len(logs'[new].recs) : e \in logs'[new].recs[i]
    BY <2>1, <2>2 DEF LogParts
  <2>4. \A i : ~(i \in 1 .. Len(logs'[new].recs))
    BY <1>4
  <2>5. Held(new)' = {}
    BY <2>3, <2>4
  <2> QED
    BY <1>4, <2>5 DEF Held
<1>7. Logged' = Logged /\ Settled' = Settled
  <2>1. Logged' = Logged
    BY <1>4, <1>6 DEF Logged
  <2> QED
    BY <1>1, <2>1 DEF Settled
<1>8. visible' = visible
  BY <1>1 DEF visible
<1>9. Logged \subseteq committed
  BY <1>1 DEF ReadsInv, Owned
<1>10. Owned'
  <2>1. EntriesIn(FilesOf(current')) \subseteq committed'
    BY <1>1 DEF ReadsInv, Owned, Settled
  <2> QED
    BY <1>1, <1>2, <1>7, <1>9, <2>1, FS_EmptySet DEF ReadsInv, Owned
<1>11. LogOrder'
  <2>1. ASSUME NEW m \in needed', NEW n \in needed', m < n
        PROVE  Later(Held(n)', Held(m)')
    <3>1. CASE n = new \/ m = new
      BY <1>6, <3>1 DEF Later
    <3>2. CASE n # new /\ m # new
      BY <1>4, <1>6, <2>1, <3>2 DEF ReadsInv, LogOrder
    <3> QED
      BY <3>1, <3>2
  <2>2. ASSUME NEW n \in needed'
        PROVE  Later(Held(n)', Settled)
    <3>1. CASE n = new
      BY <1>6, <3>1 DEF Later
    <3>2. CASE n # new
      BY <1>4, <1>6, <3>2 DEF ReadsInv, LogOrder
    <3> QED
      BY <3>1, <3>2
  <2> QED
    BY <1>7, <2>1, <2>2 DEF LogOrder
<1>12. MemOrder'
  BY <1>1 DEF MemOrder
<1>13. OpenOrder'
  <2> DEFINE last == Max(DOMAIN logs)
             replayed == filled(last)
  <2>1. PICK num \in [replayed -> Nat] :
          /\ replay.files = {[num |-> num[m], entries |-> Held(m)] : m \in replayed}
          /\ \A l, m \in replayed : l < m => num[l] < num[m]
    BY <1>1 DEF Replayed, Held
  <2>2. \A m \in needed : Held(m) # {} => m \in replayed
    BY <1>1 DEF filled, Held
  <2>3. \A m \in replayed : m \in needed
    BY DEF filled
  <2> HIDE DEF replayed, last
  <2>4. \A f \in replay.files : \E m \in replayed : f.num = num[m] /\ f.entries = Held(m)
    BY <2>1
  <2>5. ASSUME NEW m \in replayed
        PROVE  \E f \in replay.files : f.entries = Held(m)
    <3> DEFINE f == [num |-> num[m], entries |-> Held(m)]
    <3>1. f \in replay.files
      BY <2>1
    <3> QED
      BY <3>1
  <2>6. EntriesIn(replay.files) = Logged
    <3>1. \A e : e \in EntriesIn(replay.files) => e \in Logged
      BY <2>3, <2>4, EntriesInMember DEF Logged
    <3>2. \A e : e \in Logged => e \in EntriesIn(replay.files)
      <4> SUFFICES ASSUME NEW m \in needed, NEW e \in Held(m)
                   PROVE  e \in EntriesIn(replay.files)
        BY DEF Logged
      <4>1. m \in replayed
        BY <2>2
      <4> QED
        BY <2>5, <4>1, EntriesInMember
    <3> QED
      BY <3>1, <3>2
  <2>7. ASSUME NEW f \in replay.files, NEW g \in replay.files, f # g
        PROVE  f.num # g.num /\ (g.num < f.num => Later(f.entries, g.entries))
    <3>1. PICK l \in replayed : f = [num |-> num[l], entries |-> Held(l)]
      BY <2>1
    <3>2. PICK m \in replayed : g = [num |-> num[m], entries |-> Held(m)]
      BY <2>1
    <3>3. l # m
      BY <2>7, <3>1, <3>2
    <3>4. l \in needed /\ m \in needed /\ l \in Nat /\ m \in Nat
          /\ num[l] \in Nat /\ num[m] \in Nat
      BY <1>5, <2>3
    <3>5. CASE l < m
      <4>1. num[l] < num[m]
        BY <2>1, <3>5
      <4> QED
        BY <3>1, <3>2, <3>4, <4>1
    <3>6. CASE m < l
      <4>1. num[m] < num[l]
        BY <2>1, <3>6
      <4>2. Later(Held(l), Held(m))
        BY <3>4, <3>6 DEF ReadsInv, LogOrder
      <4> QED
        BY <3>1, <3>2, <3>4, <4>1, <4>2
    <3> QED
      BY <3>3, <3>4, <3>5, <3>6
  <2>8. \A f \in replay.files, g \in manifest.files[0] : g.num < f.num
    <3> SUFFICES ASSUME NEW f \in replay.files, NEW g \in manifest.files[0]
                 PROVE  g.num < f.num
      OBVIOUS
    <3>1. g \in FilesOf(manifest.files)
      BY LevelsType, FilesOfMember
    <3>2. g.num < manifest.next
      BY <1>1, <3>1 DEF FilesInv
    <3>3. g.num \in Nat /\ manifest.next \in Nat /\ f.num \in Nat
      <4>1. f.num \in Nat
        BY <2>4
      <4>2. g.num \in Nat
        BY <1>2, <3>1, VersionFiles DEF ManifestOK, File
      <4> QED
        BY <1>2, <4>1, <4>2 DEF ManifestOK
    <3>4. manifest.next < f.num
      BY <1>1
    <3> QED
      BY <3>2, <3>3, <3>4
  <2>9. Held(logfile)' = {}
    <3>1. logfile' = new
      BY <1>1, <1>3
    <3> QED
      BY <1>6, <3>1 DEF Held
  <2>10. flush'.files = replay.files
    BY <1>1
  <2> QED
    BY <1>1, <1>7, <2>6, <2>7, <2>8, <2>9, <2>10 DEF OpenOrder
<1>14. OrderedInv'
  BY <1>1 DEF ReadsInv, OrderedInv
<1>15. ShownInv'
  BY <1>1, <1>7, <1>8 DEF ReadsInv, ShownInv
<1>16. MergeInv'
  BY <1>1, <1>2, NothingType DEF MergeInv
<1> QED
  BY <1>10, <1>11, <1>12, <1>13, <1>14, <1>15, <1>16 DEF ReadsInv

\* The tables of the logs join the recovered version.
LEMMA FinishOpenKeepsReads ==
  ASSUME Base, Base', SyncInv, ReadsInv, FinishOpen
  PROVE  ReadsInv'
<1>1. /\ up = "opening" /\ up' = "up" /\ flush.pc = "open" /\ LogsOK
      /\ compaction = NoCompaction /\ current = manifest.files
      /\ tables \in SUBSET File /\ logfile \in Nat /\ current \in Version
      /\ FlushOK /\ mem = {} /\ imm = {} /\ snapshots = {}
  BY NothingType DEF FinishOpen, Base, TypeOK, Phases, Installing
<1>2. /\ manifest'.files = [current EXCEPT ![0] = @ \cup flush.files]
      /\ manifest'.log = logfile /\ current' = manifest'.files /\ flush' = NoFlush
      /\ UNCHANGED <<mem, imm, logfile, lastSequence, snapshots, compaction,
                     committed, split>>
      /\ DeleteObsoleteFiles(current', logfile, pendingOutputs)
  BY DEF FinishOpen, LogEdit, readVars, historyVars
<1>3. /\ DOMAIN logs' \subseteq DOMAIN logs /\ logfile \in DOMAIN logs'
      /\ \A n \in DOMAIN logs' : logs'[n] = logs[n] /\ n <= logfile /\ n \in Nat
      /\ logfile \in DOMAIN logs
  <2>1. /\ DOMAIN logs' \subseteq DOMAIN logs
        /\ \A n \in DOMAIN logs : n >= logfile => n \in DOMAIN logs'
        /\ \A n \in DOMAIN logs' : logs'[n] = logs[n]
    BY ONLY <1>1, <1>2, DeleteType
  <2>2. logfile \in DOMAIN logs /\ \A n \in DOMAIN logs : n <= logfile /\ n \in Nat
    BY <1>1 DEF Base, Numbers, LogsOK
  <2> QED
    BY <1>1, <2>1, <2>2
<1>4. needed' = {logfile} /\ logfile \in needed
  <2>1. needed' = {logfile}
    BY <1>1, <1>2, <1>3 DEF needed
  <2>2. logfile \in needed
    BY <1>1, <1>3 DEF Base, Numbers, TypeOK, ManifestOK, needed
  <2> QED
    BY <2>1, <2>2
<1>5. Logged' = {} /\ Older' = {} /\ Held(logfile)' = {}
  <2>1. Held(logfile) = {}
    BY <1>1 DEF ReadsInv, OpenOrder
  <2>2. \A n \in needed' : Held(n)' = {}
    BY <1>3, <1>4, <2>1 DEF Held
  <2>3. Held(logfile)' = {}
    BY <1>2, <1>3, <2>1 DEF Held
  <2> QED
    BY <1>2, <1>4, <2>2, <2>3 DEF Logged, Older
<1>6. Settled' = committed /\ Flushed' = committed
  BY <1>1, <1>2, <1>5 DEF Settled, Flushed
<1>7. EntriesIn(flush.files) = Logged /\ Logged \subseteq committed
  BY <1>1 DEF ReadsInv, OpenOrder, Owned
<1>8. Added(current, current', 0, flush.files) /\ 0 \in Levels
  BY <1>1, <1>2, LevelsType DEF Version, Added
<1>9. EntriesIn(FilesOf(current')) = EntriesIn(FilesOf(current)) \cup Logged
  <2>1. EntriesIn(FilesOf(current'))
          = EntriesIn(FilesOf(current)) \cup EntriesIn(flush.files)
    <3>1. PICK l \in Levels : l = 0
      BY <1>8
    <3>2. Added(current, current', l, flush.files)
      BY <1>8, <3>1
    <3> QED
      BY ONLY <3>2, AddedEntries
  <2> QED
    BY <1>7, <2>1
<1>10. EntriesIn(FilesOf(current)) \subseteq Settled
  BY <1>1 DEF ReadsInv, Owned
<1>11. Later(Logged, Settled)
  BY DEF ReadsInv, LogOrder, Later, Logged
<1>12. Fits(current, 0, flush.files)
  <2>1. Later(EntriesIn(flush.files), EntriesIn(FilesOf(current)))
    BY <1>7, <1>10, <1>11 DEF Later
  <2> QED
    BY <1>1, <1>8, <2>1 DEF Fits, ReadsInv, OpenOrder
<1>13. Owned'
  <2>1. EntriesIn(FilesOf(current')) \subseteq committed
    BY <1>7, <1>9, <1>10 DEF Settled
  <2>2. Distinct(committed)
    BY DEF ReadsInv, Owned, Distinct
  <2>3. committed \cup Logged' = committed
    BY <1>5
  <2> QED
    BY <1>1, <1>2, <1>5, <1>6, <2>1, <2>2, <2>3, FS_EmptySet DEF Owned
<1>14. LogOrder'
  <2>1. \A n \in needed' : Held(n)' = {}
    BY <1>3, <1>4, <1>5 DEF Logged
  <2> QED
    BY <2>1 DEF LogOrder, Later
<1>15. MemOrder'
  <2>1. EntriesIn(FilesOf(current')) \subseteq committed
    BY <1>7, <1>9, <1>10 DEF Settled
  <2> QED
    BY <1>1, <1>2, <1>5, <1>6, <2>1, NothingType DEF MemOrder, Later
<1>16. OpenOrder'
  BY <1>1, <1>2, NothingType DEF OpenOrder
<1>17. OrderedInv'
  <2>1. Ordered(current, split)
    BY DEF ReadsInv, OrderedInv
  <2>2. \A g \in FilesOf(current) \cup flush.files : g.num \in Nat
    BY <1>1, VersionFiles DEF FlushOK, Files, File
  <2>3. Ordered(current', split)
    BY ONLY <1>8, <1>12, <2>1, <2>2, OrderedAdded
  <2> QED
    BY <1>2, <2>3 DEF OrderedInv
<1>18. ShownInv'
  <2>1. Shown(current, Settled, split, visible)
    BY <1>1 DEF ReadsInv, ShownInv
  <2>2. \A e \in Settled : e.seq \in visible => e.seq \in visible'
    <3>1. \A e \in committed : e.seq <= lastSequence
      BY <1>1 DEF SyncInv, Numbered
    <3>2. \A q \in Nat : q <= lastSequence => q \in visible'
      BY <1>1, <1>2 DEF visible
    <3>3. visible \subseteq Nat
      BY DEF visible
    <3> QED
      BY <3>1, <3>2, <3>3 DEF Settled
  <2>3. Settled \subseteq committed /\ committed \subseteq Settled \cup Logged
    BY DEF Settled
  <2>4. Shown(current', committed, split, visible')
    BY ONLY <1>9, <1>11, <2>1, <2>2, <2>3, ShownAdded
  <2> QED
    BY <1>2, <1>6, <2>4 DEF ShownInv
<1>19. MergeInv'
  BY <1>1, <1>2, NothingType DEF MergeInv
<1> QED
  BY <1>13, <1>14, <1>15, <1>16, <1>17, <1>18, <1>19 DEF ReadsInv

-----------------------------------------------------------------------------
(* All together *)

LEMMA StutterKeepsReads ==
  ASSUME ReadsInv, UNCHANGED vars
  PROVE  ReadsInv'
<1> USE DEF vars, diskVars, writeVars, fileVars, readVars, threadVars, historyVars
<1>1. UNCHANGED <<up, logs, manifest, mem, imm, current, logfile, lastSequence,
                  snapshots, flush, compaction, committed, split>>
  OBVIOUS
<1>2. needed' = needed /\ \A n : Held(n)' = Held(n)
  BY <1>1 DEF needed, Held
<1>3. Logged' = Logged /\ Older' = Older /\ visible' = visible
      /\ Held(logfile)' = Held(logfile)
  BY <1>1, <1>2 DEF Logged, Older, visible, Held
<1>4. Settled' = Settled /\ Flushed' = Flushed
  BY <1>1, <1>3 DEF Settled, Flushed
<1>5. Owned'
  BY <1>1, <1>3, <1>4 DEF ReadsInv, Owned
<1>6. LogOrder'
  BY <1>2, <1>4 DEF ReadsInv, LogOrder
<1>7. MemOrder'
  BY <1>1, <1>3, <1>4 DEF ReadsInv, MemOrder
<1>8. OpenOrder'
  BY <1>1, <1>3 DEF ReadsInv, OpenOrder
<1>9. OrderedInv' /\ ShownInv' /\ MergeInv'
  BY <1>1, <1>3, <1>4 DEF ReadsInv, OrderedInv, ShownInv, MergeInv
<1> QED
  BY <1>5, <1>6, <1>7, <1>8, <1>9 DEF ReadsInv

LEMMA InitReads == Init => ReadsInv
<1> SUFFICES ASSUME Init
             PROVE  ReadsInv
  OBVIOUS
<1>1. /\ up = "up" /\ logs = [n \in {3} |-> EmptyLog] /\ mem = {} /\ imm = {}
      /\ manifest.files = EmptyVersion /\ current = EmptyVersion
      /\ lastSequence = 0 /\ snapshots = {} /\ flush = NoFlush
      /\ compaction = NoCompaction /\ committed = {}
  BY DEF Init
<1>2. Base
  BY InitBase
<1>3. \A n \in needed : Held(n) = {}
  <2>1. Len(EmptyLog.recs) = 0
    BY DEF EmptyLog
  <2>2. \A n \in needed : \A i : ~(i \in 1 .. Len(logs[n].recs))
    BY <1>1, <2>1 DEF needed
  <2> QED
    BY <1>2, <2>2, LogsHold DEF LogParts
<1>4. logfile \in needed
  BY <1>1, <1>2 DEF Base, Numbers, TypeOK, ManifestOK, needed
<1>5. Logged = {} /\ Older = {} /\ Held(logfile) = {}
  BY <1>3, <1>4 DEF Logged, Older
<1>6. Settled = {} /\ Flushed = {}
  BY <1>1 DEF Settled, Flushed
<1>7. EntriesIn(FilesOf(EmptyVersion)) = {}
  BY EmptyVersionType, EntriesInMember
<1>8. Owned
  BY <1>1, <1>5, <1>7, FS_EmptySet DEF Owned, Distinct
<1>9. LogOrder
  BY <1>3 DEF LogOrder, Later
<1>10. MemOrder
  BY <1>1, <1>5, <1>7, NothingType DEF MemOrder, Later
<1>11. OpenOrder
  BY <1>1, NothingType DEF OpenOrder
<1>12. OrderedInv
  BY <1>1, OrderedEmpty DEF OrderedInv
<1>13. ShownInv
  BY <1>1, <1>6 DEF ShownInv, Shown
<1>14. MergeInv
  BY <1>1, NothingType DEF MergeInv
<1> QED
  BY <1>8, <1>9, <1>10, <1>11, <1>12, <1>13, <1>14 DEF ReadsInv

LEMMA NextReads ==
  Base /\ Base' /\ FilesInv /\ SyncInv /\ LevelsInv /\ ReadsInv /\ [Next]_vars
    => ReadsInv'
BY QuietKeepsReads, LogGroupKeepsReads, SwitchKeepsReads, FinishGroupKeepsReads,
   LogFlushKeepsReads, InstallKeepsReads, StartCompactionKeepsReads,
   WriteOutputKeepsReads, LogCompactionKeepsReads, CrashKeepsReads,
   RecoverKeepsReads, FinishOpenKeepsReads, StutterKeepsReads
DEF Next, Leader, Background, SizeCompaction, OtherCompaction

\* Get answers with what was written last, at every snapshot held and now,
\* whatever has been flushed, merged, moved or dropped and whatever a crash
\* has left, unless a compaction has ended an output file between two
\* entries of the key (version_set.cc:332, db_impl.cc:887).
THEOREM ReadsAreSafe == Spec => []ReadsAreRight
<1>1. Init => Base /\ FilesInv /\ SyncInv /\ LevelsInv /\ ReadsInv
  BY InitBase, InitFiles, InitPromises, InitLevels, InitReads
<1>2. Base /\ [Next]_vars => Base'
  BY NextBase
<1>3. Base /\ FilesInv /\ [Next]_vars => FilesInv'
  BY NextFiles
<1>4. Base /\ Base' /\ SyncInv /\ [Next]_vars => SyncInv'
  BY NextPromises
<1>5. Base /\ Base' /\ SyncInv /\ LevelsInv /\ [Next]_vars => LevelsInv'
  BY NextLevels
<1>6. Base /\ Base' /\ FilesInv /\ SyncInv /\ LevelsInv /\ ReadsInv /\ [Next]_vars
        => ReadsInv'
  BY NextReads
<1>7. Base /\ SyncInv /\ LevelsInv /\ ReadsInv => ReadsAreRight
  BY ReadsFollow
<1> QED
  BY <1>1, <1>2, <1>3, <1>4, <1>5, <1>6, <1>7, PTL DEF Spec

=============================================================================
