--------------------------- MODULE IteratorProofs ---------------------------
(***************************************************************************)
(* An iterator of LevelDB shows what it should: Iterators implements       *)
(* Cursor, for every memtable, any number of tables and levels of any      *)
(* size, all snapshots, and any calls and writes in any order.             *)
(*                                                                         *)
(* From the inside out: a move of a block's iterator finds the entry the   *)
(* move is for (BlockMoves, over the restart points), and so do those of a *)
(* table (TableMoves) and of a level (LevelMoves), which are runs of       *)
(* blocks and of tables (RunFirst and RunLast: what is sought is in the    *)
(* part the index leads to or in the one beside it).  Then what a call of  *)
(* the MergingIterator does to all of its children (MergeFirst to          *)
(* MergePrevTurning), and what every action of DBIter keeps.               *)
(*                                                                         *)
(* The invariant, IteratorInv, says of each place in a call which entries  *)
(* the children have not gone past (Covers and CoversBack): all visible    *)
(* ones the call may still have to show.  In the loop of FindNextUserEntry *)
(* it adds which keys are hidden; in that of FindPrevUserEntry, what the   *)
(* saved entry is.  A write does not disturb it, for all the iterator may  *)
(* show is older.                                                          *)
(***************************************************************************)
EXTENDS Iterators, FiniteSetTheorems, FunctionTheorems, SequenceTheorems,
        WellFoundedInduction, TLAPS

-----------------------------------------------------------------------------
(* Induction and recursion *)

\* A set of numbers has a least one.
LEMMA LeastOf ==
  ASSUME NEW U \in SUBSET Nat, U # {}
  PROVE  \E n \in U : \A m \in U : n <= m
<1> DEFINE R == OpToRel(<, Nat)
<1>1. \A x, y \in Nat : x < y => <<x, y>> \in R
  BY DEF OpToRel
<1>2. IsWellFoundedOn(R, Nat)
  BY NatLessThanWellFounded
<1> HIDE DEF R
<1>3. \E n \in U : \A m \in U : ~ (<<m, n>> \in R)
  BY <1>2, WFMin
<1>4. \A x, y \in U : <<y, x>> \notin R => x <= y
  BY <1>1
<1> QED
  BY <1>3, <1>4

\* Induction over the numbers, for a set.
LEMMA Induction ==
  ASSUME NEW T, 0 \in T, \A n \in Nat : n \in T => n + 1 \in T
  PROVE  Nat \subseteq T
<1> DEFINE U == Nat \ T
<1> SUFFICES ASSUME U # {}
             PROVE  FALSE
  OBVIOUS
<1>1. PICK n \in U : \A m \in U : n <= m
  BY LeastOf
<1>2. n - 1 \in Nat /\ n - 1 \notin U
  BY <1>1
<1> QED
  BY <1>2

\* r repeats a step n times.
Repeats(r, step, s, n, S) ==
  r \in [0 .. n -> S] /\ r[0] = s /\ \A i \in 1 .. n : r[i] = step[r[i - 1]]

\* A step may be repeated n times, and each time be seen.
LEMMA Repetition ==
  ASSUME NEW S, NEW s \in S, NEW step \in [S -> S], NEW n \in Nat
  PROVE  \E r : Repeats(r, step, s, n, S)
<1> DEFINE runs(k) == \E r \in [0 .. k -> S] :
             r[0] = s /\ \A i \in 1 .. k : r[i] = step[r[i - 1]]
           T == {k \in Nat : runs(k)}
<1>1. 0 \in T
  <2>1. [i \in 0 .. 0 |-> s] \in [0 .. 0 -> S] /\ [i \in 0 .. 0 |-> s][0] = s
        /\ \A i \in 1 .. 0 : FALSE
    OBVIOUS
  <2> QED
    BY <2>1
<1>2. ASSUME NEW k \in Nat, k \in T
      PROVE  k + 1 \in T
  <2>1. PICK r \in [0 .. k -> S] :
          r[0] = s /\ \A i \in 1 .. k : r[i] = step[r[i - 1]]
    BY <1>2
  <2> DEFINE q == [i \in 0 .. k + 1 |-> IF i = k + 1 THEN step[r[k]] ELSE r[i]]
  <2>2. /\ q \in [0 .. k + 1 -> S]
        /\ q[k + 1] = step[r[k]] /\ \A i \in 0 .. k : q[i] = r[i]
    OBVIOUS
  <2> HIDE DEF q
  <2>3. \A i \in 1 .. k : q[i] = step[q[i - 1]]
    <3>1. \A i \in 1 .. k : i \in 0 .. k /\ i - 1 \in 0 .. k
      OBVIOUS
    <3> QED
      BY <2>1, <2>2, <3>1
  <2>4. q[k + 1] = step[q[(k + 1) - 1]]
    <3>1. (k + 1) - 1 = k /\ k \in 0 .. k
      OBVIOUS
    <3> QED
      BY <2>2, <3>1
  <2>5. \A i \in 1 .. k + 1 : i = k + 1 \/ i \in 1 .. k
    OBVIOUS
  <2>6. q[0] = s
    BY <2>1, <2>2
  <2>7. runs(k + 1)
    BY <2>2, <2>3, <2>4, <2>5, <2>6
  <2> QED
    BY <2>7
<1>3. Nat \subseteq T
  <2> HIDE DEF T
  <2> QED
    BY <1>1, <1>2, Induction
<1> QED
  BY <1>3 DEF Repeats

-----------------------------------------------------------------------------
(* The order of entries *)

\* Entries are points, and points are in one order or the other unless they
\* have key and sequence number in common.
LEMMA Order ==
  /\ \A a, b \in Point : ~(Before(a, b) /\ Before(b, a)) /\ ~Before(a, a)
  /\ \A a, b, c \in Point : Before(a, b) /\ Before(b, c) => Before(a, c)
  /\ \A a, b, c \in Point : Before(a, b) /\ ~Before(c, b) => Before(a, c)
  /\ \A a, b, c \in Point : ~Before(b, a) /\ Before(b, c) => Before(a, c)
  /\ \A a, b, c \in Point : ~Before(b, a) /\ ~Before(c, b) => ~Before(c, a)
<1>1. \A a \in Point : a.key \in Nat /\ a.seq \in Nat
  BY DEF Point
<1>2. \A a, b \in Point : ~(Before(a, b) /\ Before(b, a)) /\ ~Before(a, a)
  BY <1>1 DEF Before
<1>3. \A a, b, c \in Point : Before(a, b) /\ Before(b, c) => Before(a, c)
  BY <1>1 DEF Before
<1>4. \A a, b, c \in Point : Before(a, b) /\ ~Before(c, b) => Before(a, c)
  BY <1>1 DEF Before
<1>5. \A a, b, c \in Point : ~Before(b, a) /\ Before(b, c) => Before(a, c)
  BY <1>1 DEF Before
<1>6. \A a, b, c \in Point : ~Before(b, a) /\ ~Before(c, b) => ~Before(c, a)
  BY <1>1 DEF Before
<1> QED
  BY <1>2, <1>3, <1>4, <1>5, <1>6

\* A set of entries, no two of them in the same place of the order.
Lined(E) ==
  E \subseteq Entry /\ IsFiniteSet(E) /\ \A e, f \in E : e # f => Before(e, f) \/ Before(f, e)

\* A finite set of numbers is bounded.
LEMMA Bounded ==
  ASSUME NEW S \in SUBSET Nat, IsFiniteSet(S)
  PROVE  \E n \in Nat : \A x \in S : x <= n
<1>1. PICK n \in Nat : ExistsSurjection(1 .. n, S)
  BY FS_NatSurjection
<1>2. PICK f \in [1 .. n -> S] : \A x \in S : \E i \in 1 .. n : f[i] = x
  BY <1>1 DEF ExistsSurjection, Surjection
<1> DEFINE T == {k \in Nat : k <= n => \E m \in Nat : \A i \in 1 .. k : f[i] <= m}
<1>3. 0 \in T
  BY DEF T
<1>4. ASSUME NEW k \in Nat, k \in T
      PROVE  k + 1 \in T
  <2> SUFFICES ASSUME k + 1 <= n
               PROVE  \E m \in Nat : \A i \in 1 .. k + 1 : f[i] <= m
    OBVIOUS
  <2>1. PICK m \in Nat : \A i \in 1 .. k : f[i] <= m
    BY <1>4
  <2>2. \A i \in 1 .. k + 1 : i \in 1 .. n /\ (i = k + 1 \/ i \in 1 .. k)
    OBVIOUS
  <2>3. \A i \in 1 .. k + 1 : f[i] \in Nat
    BY <1>2, <2>2
  <2>4. PICK l \in Nat : l = f[k + 1]
    BY <2>3
  <2>5. m + l \in Nat /\ \A i \in 1 .. k + 1 : f[i] <= m + l
    BY <2>1, <2>2, <2>3, <2>4
  <2> QED
    BY <2>5
<1> HIDE DEF T
<1>5. n \in T
  BY <1>1, <1>3, <1>4, Induction
<1>6. PICK m \in Nat : \A i \in 1 .. n : f[i] <= m
  BY <1>1, <1>5 DEF T
<1> QED
  BY <1>2, <1>6

\* A finite set of numbers that is not empty has a greatest one.
LEMMA GreatestOf ==
  ASSUME NEW S \in SUBSET Nat, IsFiniteSet(S), S # {}
  PROVE  \E n \in S : \A x \in S : x <= n
<1>1. PICK b \in Nat : \A x \in S : x <= b
  BY Bounded
<1> DEFINE U == {b - x : x \in S}
<1>2. U \in SUBSET Nat /\ U # {}
  <2>1. \A x \in S : b - x \in Nat
    BY <1>1
  <2> QED
    BY <2>1
<1>3. PICK u \in U : \A v \in U : u <= v
  <2> HIDE DEF U
  <2> QED
    BY <1>2, LeastOf
<1>4. PICK n \in S : u = b - n
  BY <1>3
<1>5. \A x \in S : b - n <= b - x
  BY <1>3, <1>4
<1> QED
  BY <1>1, <1>4, <1>5

\* The keys and the sequence numbers of finitely many entries.
LEMMA FinitelyMany ==
  ASSUME NEW E, IsFiniteSet(E)
  PROVE  IsFiniteSet({e.key : e \in E}) /\ IsFiniteSet({e.seq : e \in E})
<1>1. [e \in E |-> e.key] \in Surjection(E, {e.key : e \in E})
  BY DEF Surjection
<1>2. [e \in E |-> e.seq] \in Surjection(E, {e.seq : e \in E})
  BY DEF Surjection
<1> QED
  BY <1>1, <1>2, FS_Surjection

\* What is the least or the greatest entry comes before or after all others.
LEMMA Extremes ==
  ASSUME NEW E, Lined(E)
  PROVE  /\ \A e \in least(E) : e \in E /\ \A x \in E : ~Before(x, e)
         /\ \A e \in greatest(E) : e \in E /\ \A x \in E : ~Before(e, x)
         /\ \A e, f \in least(E) : e = f
         /\ \A e, f \in greatest(E) : e = f
<1>1. \A e \in E : e \in Point
  BY DEF Lined, Entry
<1>2. \A e \in least(E) : e \in E /\ \A x \in E : ~Before(x, e)
  BY <1>1, Order DEF least
<1>3. \A e \in greatest(E) : e \in E /\ \A x \in E : ~Before(e, x)
  BY <1>1, Order DEF greatest
<1>4. \A e, f \in least(E) : e = f
  BY <1>1, Order DEF least
<1>5. \A e, f \in greatest(E) : e = f
  BY <1>1, Order DEF greatest
<1> QED
  BY <1>2, <1>3, <1>4, <1>5

\* A finite set of entries that is not empty has a first and a last one.
LEMMA FirstAndLast ==
  ASSUME NEW E, Lined(E), E # {}
  PROVE  \E e, f \in E : least(E) = {e} /\ greatest(E) = {f}
<1>1. E \subseteq Point /\ \A e \in E : e.key \in Nat /\ e.seq \in Nat
  BY DEF Lined, Entry, Point
<1> DEFINE K == {e.key : e \in E}
<1>2. K \in SUBSET Nat /\ K # {} /\ IsFiniteSet(K)
  BY <1>1, FinitelyMany DEF Lined
<1>3. PICK lo \in K : \A k \in K : lo <= k
  BY <1>2, LeastOf
<1>4. PICK hi \in K : \A k \in K : k <= hi
  BY <1>2, GreatestOf
<1> DEFINE L == {e.seq : e \in {x \in E : x.key = lo}}
           H == {e.seq : e \in {x \in E : x.key = hi}}
<1>5. /\ L \in SUBSET Nat /\ L # {} /\ IsFiniteSet(L)
      /\ H \in SUBSET Nat /\ H # {}
  <2>1. IsFiniteSet({x \in E : x.key = lo})
    <3>1. {x \in E : x.key = lo} \in SUBSET E
      OBVIOUS
    <3> QED
      BY <3>1, FS_Subset DEF Lined
  <2>2. IsFiniteSet(L)
    BY <2>1, FinitelyMany
  <2> QED
    BY <1>1, <1>3, <1>4, <2>2
<1>6. PICK s \in L : \A x \in L : x <= s
  BY <1>5, GreatestOf
<1>7. PICK u \in H : \A x \in H : u <= x
  BY <1>5, LeastOf
<1>8. PICK e \in E : e.key = lo /\ e.seq = s
  BY <1>6
<1>9. PICK f \in E : f.key = hi /\ f.seq = u
  BY <1>7
<1>10. \A x \in E : ~Before(x, e)
  <2> TAKE x \in E
  <2>1. lo <= x.key /\ (x.key = lo => x.seq <= s)
    BY <1>3, <1>6
  <2> QED
    BY <1>1, <1>8, <2>1 DEF Before
<1>11. \A x \in E : ~Before(f, x)
  <2> TAKE x \in E
  <2>1. x.key <= hi /\ (x.key = hi => u <= x.seq)
    BY <1>4, <1>7
  <2> QED
    BY <1>1, <1>9, <2>1 DEF Before
<1>12. e \in least(E) /\ f \in greatest(E)
  BY <1>8, <1>9, <1>10, <1>11 DEF least, greatest, Lined
<1>13. \A x \in least(E) : x = e
  BY <1>12, Extremes
<1>14. \A x \in greatest(E) : x = f
  BY <1>12, Extremes
<1> QED
  BY <1>12, <1>13, <1>14

\* A part of such a set is one.
LEMMA PartLined ==
  ASSUME NEW E, Lined(E), NEW F \in SUBSET E
  PROVE  Lined(F)
BY FS_Subset DEF Lined

-----------------------------------------------------------------------------
(* What a move does to an iterator of the entries E that is on at *)

\* The moves of an iterator: the memtable's, a block's, a table's or a level's.
Moves == {Move("First"), Move("Last"), Move("Next"), Move("Prev")} \cup {SeekTo(t) : t \in Point}

\* A step needs an entry to start from.
Movable(at, move) == move \in Moves /\ (move.op \in {"Next", "Prev"} => at # {})

\* Where a move leads from the entry at, among the entries E.
MovedIn(E, at, move) ==
  CASE move.op = "First" -> least(E)
    [] move.op = "Last" -> greatest(E)
    [] move.op = "Seek" -> least({e \in E : ~Before(e, move.to)})
    [] move.op = "Next" -> least({e \in E : \A n \in at : Before(n, e)})
    [] move.op = "Prev" -> greatest({e \in E : \A n \in at : Before(e, n)})

\* The moves, told apart.
LEMMA MoveCases ==
  ASSUME NEW E, NEW at
  PROVE  /\ MovedIn(E, at, Move("First")) = least(E)
         /\ MovedIn(E, at, Move("Last")) = greatest(E)
         /\ \A t : MovedIn(E, at, SeekTo(t)) = least({e \in E : ~Before(e, t)})
         /\ MovedIn(E, at, Move("Next")) = least({e \in E : \A n \in at : Before(n, e)})
         /\ MovedIn(E, at, Move("Prev")) = greatest({e \in E : \A n \in at : Before(e, n)})
BY DEF MovedIn, Move, SeekTo

\* The memtable's iterator does just that.
LEMMA MemMoves == \A at, move : MemMoved(at, move) = MovedIn(mem, at, move)
BY DEF MemMoved, MovedIn

-----------------------------------------------------------------------------
(* Blocks *)

\* Where an iterator of a block can be.
BlockPos(b, p) == p = {} \/ \E i \in 1 .. Len(b) : p = {i}

\* The entries of a block, by their places.
LEMMA BlockType ==
  ASSUME NEW b \in Blocks
  PROVE  /\ b \in Seq(Entry) /\ Len(b) \in Nat \ {0} /\ DOMAIN b = 1 .. Len(b)
         /\ \A i \in 1 .. Len(b) : b[i] \in Entry /\ b[i] \in Point
         /\ \A i, j \in 1 .. Len(b) : i < j <=> Before(b[i], b[j])
         /\ \A i, j \in 1 .. Len(b) : b[i] = b[j] => i = j
<1>1. b \in Seq(Entry) /\ Len(b) \in Nat \ {0} /\ DOMAIN b = 1 .. Len(b)
      /\ \A i, j \in 1 .. Len(b) : i < j => Before(b[i], b[j])
  BY DEF Blocks
<1>2. \A i \in 1 .. Len(b) : b[i] \in Entry /\ b[i] \in Point
  BY <1>1 DEF Entry
<1>3. ASSUME NEW i \in 1 .. Len(b), NEW j \in 1 .. Len(b), Before(b[i], b[j])
      PROVE  i < j
  <2>1. ~Before(b[j], b[i]) /\ b[i] # b[j]
    BY <1>2, <1>3, Order
  <2>2. ~(j < i) /\ i # j
    BY <1>1, <2>1
  <2> QED
    BY <1>1, <2>2
<1>4. ASSUME NEW i \in 1 .. Len(b), NEW j \in 1 .. Len(b), b[i] = b[j]
      PROVE  i = j
  <2>1. ~Before(b[i], b[j]) /\ ~Before(b[j], b[i])
    BY <1>2, <1>4, Order
  <2>2. ~(i < j) /\ ~(j < i)
    BY <1>1, <2>1
  <2> QED
    BY <1>1, <2>2
<1> QED
  BY <1>1, <1>2, <1>3, <1>4

\* The entries of a block are in line.
LEMMA BlockLined ==
  ASSUME NEW b \in Blocks
  PROVE  Lined(BlockEntries(b)) /\ BlockEntries(b) # {}
         /\ BlockEntries(b) = {b[i] : i \in 1 .. Len(b)}
<1>1. BlockEntries(b) = {b[i] : i \in 1 .. Len(b)}
  BY BlockType DEF BlockEntries
<1>2. b \in Surjection(1 .. Len(b), BlockEntries(b))
  <2>1. b \in [1 .. Len(b) -> BlockEntries(b)]
    BY <1>1, BlockType
  <2> QED
    BY <1>1, <2>1 DEF Surjection
<1>3. IsFiniteSet(BlockEntries(b))
  BY <1>2, FS_Surjection, FS_Interval, BlockType
<1>4. ASSUME NEW e \in BlockEntries(b), NEW f \in BlockEntries(b), e # f
      PROVE  Before(e, f) \/ Before(f, e)
  <2>1. PICK i, j \in 1 .. Len(b) : e = b[i] /\ f = b[j]
    BY <1>1
  <2>2. i < j \/ j < i
    BY <1>4, <2>1, BlockType
  <2> QED
    BY <2>1, <2>2, BlockType
<1>5. BlockEntries(b) \subseteq Entry /\ BlockEntries(b) # {}
  BY <1>1, BlockType
<1> QED
  BY <1>1, <1>3, <1>4, <1>5 DEF Lined

\* The first and the last of some places have the first and the last entry.
LEMMA BlockFirst ==
  ASSUME NEW b \in Blocks, NEW S \in SUBSET (1 .. Len(b))
  PROVE  /\ least({b[i] : i \in S}) = {b[i] : i \in firstOf(S)}
         /\ greatest({b[i] : i \in S}) = {b[i] : i \in lastOf(S)}
         /\ BlockPos(b, firstOf(S)) /\ BlockPos(b, lastOf(S))
<1>1. \A i, j \in S : /\ i < j <=> Before(b[i], b[j])
                      /\ b[i] = b[j] => i = j
                      /\ i \in Nat /\ j \in Nat
  BY BlockType
<1>2. ASSUME NEW i \in S
      PROVE  /\ b[i] \in least({b[j] : j \in S}) <=> i \in firstOf(S)
             /\ b[i] \in greatest({b[j] : j \in S}) <=> i \in lastOf(S)
  <2>1. b[i] \in least({b[j] : j \in S}) <=> \A j \in S : b[j] # b[i] => Before(b[i], b[j])
    BY DEF least
  <2>2. b[i] \in greatest({b[j] : j \in S}) <=> \A j \in S : b[j] # b[i] => Before(b[j], b[i])
    BY DEF greatest
  <2>3. \A j \in S : (b[j] # b[i] => Before(b[i], b[j])) <=> i <= j
    BY <1>1
  <2>4. \A j \in S : (b[j] # b[i] => Before(b[j], b[i])) <=> j <= i
    BY <1>1
  <2> QED
    BY <2>1, <2>2, <2>3, <2>4 DEF firstOf, lastOf
<1>3. /\ least({b[i] : i \in S}) \subseteq {b[i] : i \in S} /\ firstOf(S) \subseteq S
      /\ greatest({b[i] : i \in S}) \subseteq {b[i] : i \in S} /\ lastOf(S) \subseteq S
  BY DEF least, greatest, firstOf, lastOf
<1>4. \A i, j \in firstOf(S) : i = j
  BY <1>1 DEF firstOf
<1>5. \A i, j \in lastOf(S) : i = j
  BY <1>1 DEF lastOf
<1>6. BlockPos(b, firstOf(S)) /\ BlockPos(b, lastOf(S))
  BY <1>3, <1>4, <1>5 DEF BlockPos
<1> QED
  BY <1>2, <1>3, <1>6

\* A round of the binary search keeps an entry before t at its left, or the
\* first restart point.
SearchOK(b, t, s) ==
  LET n == 1 + (Len(b) - 1) \div RestartInterval
  IN  /\ s \in [left : 1 .. n, right : Int]
      /\ s.right <= n
      /\ s.left > 1 => Before(b[1 + (s.left - 1) * RestartInterval], t)

\* The restart points lie in the block.
LEMMA RestartPoints ==
  ASSUME NEW b \in Blocks, NEW r \in 1 .. 1 + (Len(b) - 1) \div RestartInterval
  PROVE  1 + (r - 1) * RestartInterval \in 1 .. Len(b)
<1>1. PICK l \in Nat : Len(b) = l + 1
  <2>1. Len(b) - 1 \in Nat
    BY BlockType
  <2> QED
    BY <2>1, BlockType
<1>2. RestartInterval \in Nat \ {0} /\ l \div RestartInterval \in Nat
      /\ RestartInterval * (l \div RestartInterval) <= l
  BY IteratorAssumption
<1>3. (r - 1) \in 0 .. l \div RestartInterval
  BY <1>1, <1>2
<1>4. PICK d \in Nat, q \in Nat : d = l \div RestartInterval /\ q = r - 1
  BY <1>2, <1>3
<1>5. PICK R \in Nat \ {0} : R = RestartInterval
  BY <1>2
<1>6. q * R \in Nat /\ q * R <= R * d
  BY <1>3, <1>4, <1>5
<1> QED
  BY <1>1, <1>2, <1>4, <1>5, <1>6

\* Each round of halved keeps that.
LEMMA HalvedOK ==
  ASSUME NEW b \in Blocks, NEW t, NEW s, SearchOK(b, t, s)
  PROVE  SearchOK(b, t, halved(b, t, s))
<1> DEFINE n == 1 + (Len(b) - 1) \div RestartInterval
           mid == (s.left + s.right + 1) \div 2
<1>1. /\ s \in [left : 1 .. n, right : Int] /\ s.right <= n
      /\ s.left > 1 => Before(b[1 + (s.left - 1) * RestartInterval], t)
      /\ n \in Int
  <2>1. Len(b) - 1 \in Int /\ RestartInterval \in Nat \ {0}
    BY BlockType, IteratorAssumption
  <2> QED
    BY <2>1 DEF SearchOK
<1> HIDE DEF n
<1>2. CASE s.left >= s.right
  BY <1>2 DEF halved
<1>3. CASE ~(s.left >= s.right)
  <2>1. s.left \in Int /\ s.right \in Int /\ s.left >= 1
    BY <1>1
  <2>2. mid \in Int /\ s.left < mid /\ mid <= s.right /\ mid <= n
    BY <1>1, <1>3, <2>1
  <2>3. mid \in 1 .. n
    BY <1>1, <2>1, <2>2
  <2>4. halved(b, t, s) = IF Before(b[1 + (mid - 1) * RestartInterval], t)
                          THEN [s EXCEPT !.left = mid]
                          ELSE [s EXCEPT !.right = mid - 1]
    BY <1>3 DEF halved
  <2> HIDE DEF mid
  <2>5. CASE Before(b[1 + (mid - 1) * RestartInterval], t)
    <3>1. halved(b, t, s) = [left |-> mid, right |-> s.right]
      BY <1>1, <2>4, <2>5
    <3> QED
      BY <1>1, <2>1, <2>3, <2>5, <3>1 DEF SearchOK, n
  <2>6. CASE ~Before(b[1 + (mid - 1) * RestartInterval], t)
    <3>1. halved(b, t, s) = [left |-> s.left, right |-> mid - 1]
      BY <1>1, <2>4, <2>6
    <3>2. mid - 1 \in Int /\ mid - 1 <= n
      BY <1>1, <2>2
    <3> QED
      BY <1>1, <2>1, <3>1, <3>2 DEF SearchOK, n
  <2> QED
    BY <2>5, <2>6
<1> QED
  BY <1>2, <1>3

\* The search ends at the block's first entry or at one before t.
LEMMA RestartFound ==
  ASSUME NEW b \in Blocks, NEW t
  PROVE  /\ restartBefore(b, t) \in 1 .. Len(b)
         /\ restartBefore(b, t) > 1 => Before(b[restartBefore(b, t)], t)
<1> DEFINE n == 1 + (Len(b) - 1) \div RestartInterval
           s == [left |-> 1, right |-> n]
           S == {x \in [left : 1 .. n, right : Int] : SearchOK(b, t, x)}
           step == [x \in S |-> halved(b, t, x)]
           F(r) == [k \in 0 .. n |-> IF k = 0 THEN s ELSE halved(b, t, r[k - 1])]
           round == CHOOSE r : r = F(r)
<1>1. n \in Nat \ {0}
  <2>1. Len(b) - 1 \in Nat /\ RestartInterval \in Nat \ {0}
    BY BlockType, IteratorAssumption
  <2> QED
    BY <2>1
<1>2. SearchOK(b, t, s) /\ s \in S
  <2>1. s \in [left : 1 .. n, right : Int] /\ s.right <= n /\ ~(s.left > 1)
    BY <1>1
  <2>2. SearchOK(b, t, s)
    BY <2>1 DEF SearchOK
  <2> QED
    BY <2>1, <2>2
<1>3. step \in [S -> S]
  <2>1. \A x : SearchOK(b, t, x) => x \in [left : 1 .. n, right : Int]
    BY DEF SearchOK
  <2>2. \A x \in S : halved(b, t, x) \in S
    BY <2>1, HalvedOK
  <2> QED
    BY <2>2
<1>4. PICK r \in [0 .. n -> S] : r[0] = s /\ \A k \in 1 .. n : r[k] = step[r[k - 1]]
  <2> HIDE DEF step, S, s, n
  <2>1. \E r : Repeats(r, step, s, n, S)
    BY <1>1, <1>2, <1>3, Repetition
  <2> QED
    BY <2>1 DEF Repeats
<1>5. r = F(r)
  <2>1. \A k \in 1 .. n : r[k - 1] \in S
    BY <1>1
  <2> HIDE DEF S, s
  <2>2. \A k \in 1 .. n : r[k] = halved(b, t, r[k - 1])
    BY <1>4, <2>1
  <2>3. \A k \in 0 .. n : k = 0 \/ k \in 1 .. n
    BY <1>1
  <2> QED
    BY <1>4, <2>2, <2>3
<1>6. round = F(round)
  <2> HIDE DEF F
  <2> QED
    BY <1>5
<1>7. restartBefore(b, t) = 1 + (round[n].left - 1) * RestartInterval
  BY DEF restartBefore
<1> HIDE DEF round, S, n
<1> DEFINE T == {k \in Nat : k <= n => SearchOK(b, t, round[k])}
<1>8. Nat \subseteq T
  <2>1. 0 \in T
    <3>1. 0 \in 0 .. n
      BY <1>1
    <3>2. \A a : a = F(round) => a[0] = s
      BY <3>1
    <3> HIDE DEF F, s
    <3> QED
      BY <1>2, <1>6, <3>2
  <2>2. ASSUME NEW k \in Nat, k \in T
        PROVE  k + 1 \in T
    <3> SUFFICES ASSUME k + 1 <= n
                 PROVE  SearchOK(b, t, round[k + 1])
      OBVIOUS
    <3>1. k + 1 \in 0 .. n /\ k + 1 # 0 /\ (k + 1) - 1 = k /\ SearchOK(b, t, round[k])
      BY <1>1, <2>2
    <3>2. \A a : a = F(round) => a[k + 1] = halved(b, t, round[k])
      BY <3>1
    <3> HIDE DEF F
    <3>3. round[k + 1] = halved(b, t, round[k])
      BY <1>6, <3>2
    <3> QED
      BY <3>1, <3>3, HalvedOK
  <2> HIDE DEF T
  <2> QED
    BY <2>1, <2>2, Induction
<1>9. SearchOK(b, t, round[n])
  BY <1>1, <1>8
<1>10. PICK l \in 1 .. n : l = round[n].left /\ (l > 1 => Before(b[1 + (l - 1) * RestartInterval], t))
  BY <1>9 DEF SearchOK, n
<1>11. 1 + (l - 1) * RestartInterval \in 1 .. Len(b)
  BY RestartPoints DEF n
<1>12. l = 1 => 1 + (l - 1) * RestartInterval = 1
  BY IteratorAssumption
<1>13. l # 1 => l > 1
  BY <1>1
<1> QED
  BY <1>7, <1>10, <1>11, <1>12, <1>13

\* Seek in a block: the first entry from t on.
LEMMA SeekInBlock ==
  ASSUME NEW b \in Blocks, NEW t \in Point
  PROVE  BlockSeek(b, t) = firstOf({i \in 1 .. Len(b) : ~Before(b[i], t)})
<1>1. PICK r \in 1 .. Len(b) : r = restartBefore(b, t) /\ (r > 1 => Before(b[r], t))
  BY RestartFound
<1>2. ASSUME NEW i \in 1 .. Len(b), i < r
      PROVE  Before(b[i], t)
  <2>1. r > 1
    BY <1>2, BlockType
  <2>2. Before(b[i], b[r]) /\ b[i] \in Point /\ b[r] \in Point
    BY <1>2, BlockType
  <2> QED
    BY <1>1, <2>1, <2>2, Order
<1>3. {i \in r .. Len(b) : ~Before(b[i], t)} = {i \in 1 .. Len(b) : ~Before(b[i], t)}
  <2>1. \A i \in 1 .. Len(b) : i \in r .. Len(b) \/ i < r
    BY BlockType
  <2>2. \A i \in r .. Len(b) : i \in 1 .. Len(b)
    BY BlockType
  <2> QED
    BY <1>2, <2>1, <2>2
<1> QED
  BY <1>1, <1>3 DEF BlockSeek

\* Prev in a block: the entry before, if there is one.
LEMMA PrevInBlock ==
  ASSUME NEW i \in Nat \ {0}
  PROVE  BlockPrev(i) = IF i = 1 THEN {} ELSE {i - 1}
<1> DEFINE starts == {r \in 1 .. i - 1 : isRestart(r)}
<1>1. CASE i = 1
  <2>1. starts = {}
    BY <1>1
  <2> QED
    BY <1>1, <2>1 DEF BlockPrev
<1>2. CASE i # 1
  <2>1. 1 \in 1 .. i - 1 /\ i - 1 \in Nat
    BY <1>2
  <2>2. isRestart(1)
    <3>1. \A R \in Nat \ {0} : 0 % R = 0
      OBVIOUS
    <3> QED
      BY <3>1, IteratorAssumption DEF isRestart
  <2>3. starts # {} /\ \A r \in starts : r <= i - 1 /\ r \in Nat
    BY <2>1, <2>2
  <2> HIDE DEF starts
  <2>4. lastOf(starts \cup {i - 1}) = {i - 1}
    BY <2>1, <2>3 DEF lastOf
  <2> QED
    BY <1>2, <2>3, <2>4 DEF BlockPrev, starts
<1> QED
  BY <1>1, <1>2

\* Places and entries of a block, put together.
LEMMA BlockPart ==
  ASSUME NEW b \in Blocks, NEW S \in SUBSET (1 .. Len(b)), NEW X,
         X \subseteq BlockEntries(b),
         \A i \in 1 .. Len(b) : b[i] \in X <=> i \in S
  PROVE  /\ least(X) = BlockEntry(b, firstOf(S)) /\ BlockPos(b, firstOf(S))
         /\ greatest(X) = BlockEntry(b, lastOf(S)) /\ BlockPos(b, lastOf(S))
<1>1. X = {b[i] : i \in S}
  <2>1. \A x \in X : \E i \in 1 .. Len(b) : x = b[i]
    BY BlockLined
  <2> QED
    BY <2>1
<1> QED
  BY <1>1, BlockFirst DEF BlockEntry

\* A block's iterator moves among the entries of the block.
LEMMA BlockMoves ==
  ASSUME NEW b \in Blocks, NEW p, BlockPos(b, p),
         NEW move, Movable(BlockEntry(b, p), move)
  PROVE  /\ BlockPos(b, BlockMoved(b, p, move))
         /\ BlockEntry(b, BlockMoved(b, p, move))
              = MovedIn(BlockEntries(b), BlockEntry(b, p), move)
<1> DEFINE E == BlockEntries(b)
           N == 1 .. Len(b)
<1>1. /\ Len(b) \in Nat \ {0} /\ \A i \in N : b[i] \in E
      /\ \A i, j \in N : i < j <=> Before(b[i], b[j])
  BY BlockType, BlockLined
<1>2. CASE move = Move("First")
  <2>1. firstOf(N) = {1}
    BY <1>1 DEF firstOf
  <2>2. BlockMoved(b, p, move) = firstOf(N)
    BY <1>2, <2>1 DEF BlockMoved, Move
  <2>3. least(E) = BlockEntry(b, firstOf(N)) /\ BlockPos(b, firstOf(N))
    BY <1>1, BlockPart
  <2> QED
    BY <1>2, <2>2, <2>3, MoveCases
<1>3. CASE move = Move("Last")
  <2>1. lastOf(N) = {Len(b)}
    BY <1>1 DEF lastOf
  <2>2. BlockMoved(b, p, move) = lastOf(N)
    BY <1>3, <2>1 DEF BlockMoved, Move
  <2>3. greatest(E) = BlockEntry(b, lastOf(N)) /\ BlockPos(b, lastOf(N))
    BY <1>1, BlockPart
  <2> QED
    BY <1>3, <2>2, <2>3, MoveCases
<1>4. CASE \E t \in Point : move = SeekTo(t)
  <2>1. PICK t \in Point : move = SeekTo(t)
    BY <1>4
  <2> DEFINE S == {i \in N : ~Before(b[i], t)}
             X == {e \in E : ~Before(e, t)}
  <2>2. BlockMoved(b, p, move) = firstOf(S)
    BY <2>1, SeekInBlock DEF BlockMoved, SeekTo
  <2>3. least(X) = BlockEntry(b, firstOf(S)) /\ BlockPos(b, firstOf(S))
    <3>1. S \in SUBSET N /\ X \subseteq E /\ \A i \in N : b[i] \in X <=> i \in S
      BY <1>1
    <3> HIDE DEF S, X
    <3> QED
      BY <3>1, BlockPart DEF E, N
  <2>4. MovedIn(E, BlockEntry(b, p), move) = least(X)
    BY <2>1 DEF MovedIn, SeekTo
  <2> HIDE DEF S, X, E
  <2> QED
    BY <2>2, <2>3, <2>4 DEF E
<1>5. CASE move \in {Move("Next"), Move("Prev")}
  <2>1. BlockEntry(b, p) # {}
    BY <1>5 DEF Movable, Move
  <2>2. PICK i \in N : p = {i}
    BY <2>1 DEF BlockPos, BlockEntry
  <2>3. BlockEntry(b, p) = {b[i]}
    BY <2>2 DEF BlockEntry
  <2>4. CASE move = Move("Next")
    <3> DEFINE S == {j \in N : i < j}
               X == {e \in E : \A n \in BlockEntry(b, p) : Before(n, e)}
    <3>1. firstOf(S) = IF i = Len(b) THEN {} ELSE {i + 1}
      BY <1>1 DEF firstOf
    <3>2. BlockMoved(b, p, move) = {j + 1 : j \in p \ {Len(b)}}
      BY <2>4 DEF BlockMoved, Move
    <3>3. BlockMoved(b, p, move) = firstOf(S)
      BY <2>2, <3>1, <3>2
    <3>4. least(X) = BlockEntry(b, firstOf(S)) /\ BlockPos(b, firstOf(S))
      <4>1. S \in SUBSET N /\ X \subseteq E /\ \A j \in N : b[j] \in X <=> j \in S
        BY <1>1, <2>3
      <4> HIDE DEF S, X
      <4> QED
        BY <4>1, BlockPart DEF E, N
    <3>5. MovedIn(E, BlockEntry(b, p), move) = least(X)
      BY <2>4 DEF MovedIn, Move
    <3> HIDE DEF S, X, E
    <3> QED
      BY <3>3, <3>4, <3>5 DEF E
  <2>5. CASE move = Move("Prev")
    <3> DEFINE S == {j \in N : j < i}
               X == {e \in E : \A n \in BlockEntry(b, p) : Before(e, n)}
    <3>1. lastOf(S) = IF i = 1 THEN {} ELSE {i - 1}
      BY <1>1 DEF lastOf
    <3>2. BlockMoved(b, p, move) = UNION {BlockPrev(j) : j \in p}
      BY <2>5 DEF BlockMoved, Move
    <3>3. BlockMoved(b, p, move) = lastOf(S)
      <4>1. BlockPrev(i) = lastOf(S)
        <5>1. i \in Nat \ {0}
          BY <1>1
        <5> HIDE DEF S
        <5> QED
          BY <3>1, <5>1, PrevInBlock
      <4> QED
        BY <2>2, <3>2, <4>1
    <3>4. greatest(X) = BlockEntry(b, lastOf(S)) /\ BlockPos(b, lastOf(S))
      <4>1. S \in SUBSET N /\ X \subseteq E /\ \A j \in N : b[j] \in X <=> j \in S
        BY <1>1, <2>3
      <4> HIDE DEF S, X
      <4> QED
        BY <4>1, BlockPart DEF E, N
    <3>5. MovedIn(E, BlockEntry(b, p), move) = greatest(X)
      BY <2>5 DEF MovedIn, Move
    <3> HIDE DEF S, X, E
    <3> QED
      BY <3>3, <3>4, <3>5 DEF E
  <2> QED
    BY <1>5, <2>4, <2>5
<1> QED
  BY <1>2, <1>3, <1>4, <1>5 DEF Movable, Moves

-----------------------------------------------------------------------------
(* Runs: the first and the last entry of some parts *)

\* Parts in line, one after another, under an index that leads to them.
Run(index, parts) ==
  /\ index \in Seq(Point) /\ Leads(index, parts)
  /\ \A i \in 1 .. Len(index) : Lined(parts[i]) /\ parts[i] # {}

\* The entries of all parts, of those after part i and of those before it.
AllOf(index, parts) == UNION {parts[i] : i \in 1 .. Len(index)}
LaterParts(index, parts, i) == UNION {parts[j] : j \in {k \in 1 .. Len(index) : i < k}}
EarlierParts(index, parts, i) == UNION {parts[j] : j \in {k \in 1 .. Len(index) : k < i}}

\* The parts of a run, in order.
LEMMA RunType ==
  ASSUME NEW index, NEW parts, Run(index, parts)
  PROVE  /\ Len(index) \in Nat \ {0} /\ DOMAIN index = 1 .. Len(index)
         /\ \A i \in 1 .. Len(index) : parts[i] \subseteq Point /\ index[i] \in Point
         /\ \A i \in 1 .. Len(index) : \A e \in parts[i] : ~Before(index[i], e)
         /\ \A i, j \in 1 .. Len(index) : i < j =>
              \A e \in parts[j] : Before(index[i], e) /\ \A x \in parts[i] : Before(x, e)
         /\ \A i, j \in 1 .. Len(index) : \A e \in parts[i], x \in parts[j] :
              ~Before(x, e) => i <= j
<1>1. Len(index) \in Nat \ {0} /\ DOMAIN index = 1 .. Len(index)
  BY DEF Run, Leads
<1>2. \A i \in 1 .. Len(index) : parts[i] \subseteq Point /\ index[i] \in Point
  BY <1>1 DEF Run, Lined, Entry
<1>3. \A i \in 1 .. Len(index) : \A e \in parts[i] : ~Before(index[i], e)
  BY <1>1 DEF Run, Leads
<1>4. \A i, j \in 1 .. Len(index) : i < j => \A e \in parts[j] : Before(index[i], e)
  BY <1>1 DEF Run, Leads
<1>5. \A i, j \in 1 .. Len(index) : i < j =>
        \A e \in parts[j] : \A x \in parts[i] : Before(x, e)
  <2> TAKE i, j \in 1 .. Len(index)
  <2> HAVE i < j
  <2> TAKE e \in parts[j]
  <2> TAKE x \in parts[i]
  <2>1. Before(index[i], e) /\ ~Before(index[i], x)
    BY <1>3, <1>4
  <2>2. x \in Point /\ e \in Point /\ index[i] \in Point
    BY <1>2
  <2> QED
    BY <2>1, <2>2, Order
<1>6. \A i, j \in 1 .. Len(index) : \A e \in parts[i], x \in parts[j] :
        ~Before(x, e) => i <= j
  BY <1>1, <1>5
<1> QED
  BY <1>1, <1>2, <1>3, <1>4, <1>5, <1>6

\* The entries of some parts are in line.
LEMMA RunLined ==
  ASSUME NEW index, NEW parts, Run(index, parts), NEW K \in SUBSET (1 .. Len(index))
  PROVE  Lined(UNION {parts[k] : k \in K})
<1> DEFINE U == UNION {parts[k] : k \in K}
<1>1. Len(index) \in Nat /\ \A k \in K : Lined(parts[k])
  BY RunType DEF Run
<1>2. IsFiniteSet(U)
  <2>1. IsFiniteSet(K)
    <3>1. IsFiniteSet(1 .. Len(index))
      BY <1>1, FS_Interval
    <3> QED
      BY <3>1, FS_Subset
  <2>2. [k \in K |-> parts[k]] \in Surjection(K, {parts[k] : k \in K})
    BY DEF Surjection
  <2>3. IsFiniteSet({parts[k] : k \in K})
    BY <2>1, <2>2, FS_Surjection
  <2>4. \A T \in {parts[k] : k \in K} : IsFiniteSet(T)
    BY <1>1 DEF Lined
  <2> QED
    BY <2>3, <2>4, FS_UNION
<1>3. U \subseteq Entry
  BY <1>1 DEF Lined
<1>4. ASSUME NEW e \in U, NEW f \in U, e # f
      PROVE  Before(e, f) \/ Before(f, e)
  <2>1. PICK i, j \in K : e \in parts[i] /\ f \in parts[j]
    BY <1>4
  <2>2. i = j \/ i < j \/ j < i
    BY <1>1
  <2>3. CASE i = j
    BY <1>1, <1>4, <2>1, <2>3 DEF Lined
  <2>4. CASE i < j \/ j < i
    BY <2>1, <2>4, RunType
  <2> QED
    BY <2>2, <2>3, <2>4
<1> QED
  BY <1>2, <1>3, <1>4 DEF Lined

\* Sets of which one is before the other.
LEMMA Parted ==
  ASSUME NEW Y, NEW Z, Lined(Y), Z \subseteq Point, \A y \in Y : \A z \in Z : Before(y, z)
  PROVE  /\ Y # {} => least(Y \cup Z) = least(Y)
         /\ Lined(Z) /\ Z # {} => greatest(Y \cup Z) = greatest(Z)
<1>1. \A y \in Y : \A z \in Z : Before(y, z) /\ ~Before(z, y) /\ y # z
  <2>1. \A y \in Y : y \in Point
    BY DEF Lined, Entry
  <2> QED
    BY <2>1, Order
<1>2. ASSUME Y # {}
      PROVE  least(Y \cup Z) = least(Y)
  <2>1. PICK e \in Y : least(Y) = {e}
    BY <1>2, FirstAndLast
  <2>2. e \in least(Y)
    BY <2>1
  <2>3. e \in least(Y \cup Z)
    BY <1>1, <2>2 DEF least
  <2>4. \A x \in least(Y \cup Z) : x \in least(Y)
    BY <1>1, <2>1 DEF least
  <2> QED
    BY <2>1, <2>3, <2>4
<1>3. ASSUME Lined(Z), Z # {}
      PROVE  greatest(Y \cup Z) = greatest(Z)
  <2>1. PICK e \in Z : greatest(Z) = {e}
    BY <1>3, FirstAndLast
  <2>2. e \in greatest(Z)
    BY <2>1
  <2>3. e \in greatest(Y \cup Z)
    BY <1>1, <2>2 DEF greatest
  <2>4. \A x \in greatest(Y \cup Z) : x \in greatest(Z)
    BY <1>1, <2>1 DEF greatest
  <2> QED
    BY <2>1, <2>3, <2>4
<1> QED
  BY <1>2, <1>3

\* The entries from somewhere in part i on begin in that part or the next one.
LEMMA RunFirst ==
  ASSUME NEW index, NEW parts, Run(index, parts), NEW i \in 1 .. Len(index),
         NEW Y, Y \subseteq parts[i]
  PROVE  least(Y \cup LaterParts(index, parts, i))
           = IF Y # {} THEN least(Y)
             ELSE IF i < Len(index) THEN least(parts[i + 1]) ELSE {}
<1> DEFINE Z == UNION {parts[j] : j \in {k \in 1 .. Len(index) : i < k}}
<1> SUFFICES least(Y \cup Z) = IF Y # {} THEN least(Y)
                                ELSE IF i < Len(index) THEN least(parts[i + 1]) ELSE {}
  BY DEF LaterParts
<1>1. /\ Len(index) \in Nat \ {0} /\ Z \subseteq Point
      /\ \A j, k \in 1 .. Len(index) : j < k =>
              \A e \in parts[k] : \A x \in parts[j] : Before(x, e)
  BY RunType
<1>2. CASE Y # {}
  <2>1. Lined(Y)
    BY PartLined DEF Run
  <2>2. \A y \in Y : \A z \in Z : Before(y, z)
    BY <1>1
  <2> HIDE DEF Z
  <2>3. least(Y \cup Z) = least(Y)
    BY <1>1, <1>2, <2>1, <2>2, Parted
  <2> QED
    BY <1>2, <2>3 DEF Z
<1>3. CASE Y = {} /\ i < Len(index)
  <2> DEFINE W == UNION {parts[j] : j \in {k \in 1 .. Len(index) : i + 1 < k}}
  <2>1. i + 1 \in 1 .. Len(index)
    BY <1>1, <1>3
  <2>2. Y \cup Z = parts[i + 1] \cup W
    <3>1. \A k \in 1 .. Len(index) : i < k <=> k = i + 1 \/ i + 1 < k
      BY <1>1
    <3> QED
      BY <1>3, <2>1, <3>1
  <2>3. Lined(parts[i + 1]) /\ parts[i + 1] # {}
    BY <2>1 DEF Run
  <2>4. W \subseteq Point /\ \A y \in parts[i + 1] : \A z \in W : Before(y, z)
    BY <2>1, RunType
  <2>5. least(parts[i + 1] \cup W) = least(parts[i + 1])
    <3> HIDE DEF W
    <3> QED
      BY <2>3, <2>4, Parted
  <2> QED
    BY <1>3, <2>2, <2>5
<1>4. CASE Y = {} /\ ~(i < Len(index))
  <2>1. \A k \in 1 .. Len(index) : ~(i < k)
    BY <1>1, <1>4
  <2>2. Y \cup Z = {}
    BY <1>4, <2>1
  <2>3. least({}) = {}
    BY DEF least
  <2> QED
    BY <1>4, <2>2, <2>3
<1> QED
  BY <1>2, <1>3, <1>4

\* The entries up to somewhere in part i end in that part or the one before.
LEMMA RunLast ==
  ASSUME NEW index, NEW parts, Run(index, parts), NEW i \in 1 .. Len(index),
         NEW Y, Y \subseteq parts[i]
  PROVE  greatest(Y \cup EarlierParts(index, parts, i))
           = IF Y # {} THEN greatest(Y)
             ELSE IF 1 < i THEN greatest(parts[i - 1]) ELSE {}
<1> DEFINE Z == UNION {parts[j] : j \in {k \in 1 .. Len(index) : k < i}}
<1> SUFFICES greatest(Y \cup Z) = IF Y # {} THEN greatest(Y)
                                   ELSE IF 1 < i THEN greatest(parts[i - 1]) ELSE {}
  BY DEF EarlierParts
<1>1. /\ Len(index) \in Nat \ {0}
      /\ \A j, k \in 1 .. Len(index) : j < k =>
              \A e \in parts[k] : \A x \in parts[j] : Before(x, e)
  BY RunType
<1>0. Lined(Z)
  BY RunLined
<1>2. CASE Y # {}
  <2>1. Lined(Y) /\ Y \subseteq Point
    BY PartLined, RunType DEF Run
  <2>2. \A y \in Y : \A z \in Z : Before(z, y)
    BY <1>1
  <2> HIDE DEF Z
  <2>3. greatest(Y \cup Z) = greatest(Y)
    <3>1. Y \cup Z = Z \cup Y
      OBVIOUS
    <3>2. greatest(Z \cup Y) = greatest(Y)
      BY <1>0, <1>2, <2>1, <2>2, Parted
    <3> QED
      BY <3>1, <3>2
  <2> QED
    BY <1>2, <2>3 DEF Z
<1>3. CASE Y = {} /\ 1 < i
  <2> DEFINE W == UNION {parts[j] : j \in {k \in 1 .. Len(index) : k < i - 1}}
  <2>1. i - 1 \in 1 .. Len(index)
    BY <1>1, <1>3
  <2>2. Y \cup Z = W \cup parts[i - 1]
    <3>1. \A k \in 1 .. Len(index) : k < i <=> k = i - 1 \/ k < i - 1
      BY <1>1
    <3> QED
      BY <1>3, <2>1, <3>1
  <2>3. Lined(parts[i - 1]) /\ parts[i - 1] # {} /\ parts[i - 1] \subseteq Point
    BY <2>1, RunType DEF Run
  <2>4. Lined(W) /\ \A y \in parts[i - 1] : \A z \in W : Before(z, y)
    <3>1. {k \in 1 .. Len(index) : k < i - 1} \in SUBSET (1 .. Len(index))
      OBVIOUS
    <3>2. Lined(W)
      BY <3>1, RunLined
    <3> QED
      BY <1>1, <2>1, <3>2
  <2>5. greatest(W \cup parts[i - 1]) = greatest(parts[i - 1])
    <3> HIDE DEF W
    <3> QED
      BY <2>3, <2>4, Parted
  <2> QED
    BY <1>3, <2>2, <2>5
<1>4. CASE Y = {} /\ ~(1 < i)
  <2>1. \A k \in 1 .. Len(index) : ~(k < i)
    BY <1>1, <1>4
  <2>2. Y \cup Z = {}
    BY <1>4, <2>1
  <2>3. greatest({}) = {}
    BY DEF greatest
  <2> QED
    BY <1>4, <2>2, <2>3
<1> QED
  BY <1>2, <1>3, <1>4

\* The entries of a run are in line.
LEMMA AllLined ==
  ASSUME NEW index, NEW parts, Run(index, parts)
  PROVE  Lined(AllOf(index, parts)) /\ AllOf(index, parts) # {}
<1>1. 1 \in 1 .. Len(index) /\ parts[1] # {}
  BY RunType DEF Run
<1>2. AllOf(index, parts) # {}
  BY <1>1 DEF AllOf, LaterParts, EarlierParts
<1>3. Lined(AllOf(index, parts))
  BY RunLined DEF AllOf, LaterParts, EarlierParts
<1> QED
  BY <1>2, <1>3

\* What an index leads to is the part in which the entries not before t begin.
LEMMA IndexLeads ==
  ASSUME NEW index, NEW parts, Run(index, parts), NEW t \in Point
  PROVE  \/ /\ IndexSeek(index, t) = {}
            /\ \A e \in AllOf(index, parts) : Before(e, t)
         \/ \E i \in 1 .. Len(index) :
              /\ IndexSeek(index, t) = {i}
              /\ \A j \in 1 .. Len(index) : \A e \in parts[j] :
                   (j < i => Before(e, t)) /\ (i < j => ~Before(e, t))
<1> DEFINE S == {i \in 1 .. Len(index) : ~Before(index[i], t)}
<1>1. Len(index) \in Nat \ {0} /\ IndexSeek(index, t) = firstOf(S)
  BY RunType DEF IndexSeek
<1>2. \A j \in 1 .. Len(index) : \A e \in parts[j] : e \in Point /\ index[j] \in Point
        /\ ~Before(index[j], e)
  BY RunType
<1>3. ASSUME NEW j \in 1 .. Len(index), j \notin S, NEW e \in parts[j]
      PROVE  Before(e, t)
  <2>1. Before(index[j], t)
    BY <1>3
  <2> QED
    BY <1>2, <2>1, Order
<1>4. CASE S = {}
  <2>1. firstOf(S) = {}
    BY <1>4 DEF firstOf
  <2>2. \A e \in AllOf(index, parts) : Before(e, t)
    BY <1>3, <1>4 DEF AllOf, LaterParts, EarlierParts
  <2> QED
    BY <1>1, <2>1, <2>2
<1>5. CASE S # {}
  <2>1. S \in SUBSET Nat
    BY <1>1
  <2>2. PICK i \in S : \A m \in S : i <= m
    <3> HIDE DEF S
    <3> QED
      BY <1>5, <2>1, LeastOf
  <2>3. firstOf(S) = {i}
    <3>1. i \in Nat /\ \A m \in S : m \in Nat /\ i <= m
      BY <2>1, <2>2
    <3>2. \A m \in S : m <= i => m = i
      BY <3>1
    <3> HIDE DEF S
    <3>3. i \in firstOf(S)
      BY <2>2 DEF firstOf
    <3>4. \A m \in firstOf(S) : m \in S /\ m <= i
      BY <2>2 DEF firstOf
    <3> QED
      BY <3>2, <3>3, <3>4
  <2>4. i \in 1 .. Len(index) /\ ~Before(index[i], t)
    BY <2>2
  <2>5. ASSUME NEW j \in 1 .. Len(index), NEW e \in parts[j]
        PROVE  (j < i => Before(e, t)) /\ (i < j => ~Before(e, t))
    <3>1. j < i => j \notin S
      BY <1>1, <2>1, <2>2
    <3>2. ASSUME i < j
          PROVE  ~Before(e, t)
      <4>1. Before(index[i], e) /\ index[i] \in Point /\ e \in Point
        BY <2>4, <3>2, RunType
      <4> QED
        BY <2>4, <4>1, Order
    <3> QED
      BY <1>3, <3>1, <3>2
  <2> QED
    BY <1>1, <2>3, <2>4, <2>5
<1> QED
  BY <1>4, <1>5

\* What SkipForward and SkipBackward find, if the part moved in yields x.
Forward(index, parts, i, x) ==
  IF x # {} THEN x ELSE IF i < Len(index) THEN least(parts[i + 1]) ELSE {}
Backward(index, parts, i, x) ==
  IF x # {} THEN x ELSE IF 1 < i THEN greatest(parts[i - 1]) ELSE {}

\* A step to a set of entries that is in line finds one, if there is one.
LEMMA StepFinds ==
  ASSUME NEW E, Lined(E)
  PROVE  (least(E) = {} <=> E = {}) /\ (greatest(E) = {} <=> E = {})
<1>1. least({}) = {} /\ greatest({}) = {}
  BY DEF least, greatest
<1> QED
  BY <1>1, FirstAndLast

\* The first and the last entry of a run.
LEMMA RunEnds ==
  ASSUME NEW index, NEW parts, Run(index, parts)
  PROVE  /\ least(AllOf(index, parts)) = least(parts[1])
         /\ greatest(AllOf(index, parts)) = greatest(parts[Len(index)])
<1>1. Len(index) \in Nat \ {0} /\ 1 \in 1 .. Len(index) /\ Len(index) \in 1 .. Len(index)
      /\ parts[1] # {} /\ parts[Len(index)] # {}
  BY RunType DEF Run
<1>2. AllOf(index, parts) = parts[1] \cup
        LaterParts(index, parts, 1)
  <2>1. \A k \in 1 .. Len(index) : k = 1 \/ 1 < k
    OBVIOUS
  <2> QED
    BY <1>1, <2>1 DEF AllOf, LaterParts, EarlierParts
<1>3. AllOf(index, parts) = parts[Len(index)] \cup
        EarlierParts(index, parts, Len(index))
  <2>1. \A k \in 1 .. Len(index) : k = Len(index) \/ k < Len(index)
    BY <1>1
  <2> QED
    BY <1>1, <2>1 DEF AllOf, LaterParts, EarlierParts
<1>4. least(AllOf(index, parts)) = least(parts[1])
  BY <1>1, <1>2, RunFirst
<1>5. greatest(AllOf(index, parts)) = greatest(parts[Len(index)])
  BY <1>1, <1>3, RunLast
<1> QED
  BY <1>4, <1>5

\* A seek to t goes where the index leads, and perhaps to the part after.
LEMMA RunSeeks ==
  ASSUME NEW index, NEW parts, Run(index, parts), NEW t \in Point
  PROVE  LET hit == MovedIn(AllOf(index, parts), {}, SeekTo(t))
         IN  \/ IndexSeek(index, t) = {} /\ hit = {}
             \/ \E i \in 1 .. Len(index) :
                  /\ IndexSeek(index, t) = {i}
                  /\ hit = Forward(index, parts, i, MovedIn(parts[i], {}, SeekTo(t)))
<1> DEFINE X == {e \in AllOf(index, parts) : ~Before(e, t)}
<1>1. MovedIn(AllOf(index, parts), {}, SeekTo(t)) = least(X)
  BY DEF MovedIn, SeekTo
<1>2. CASE IndexSeek(index, t) = {} /\ \A e \in AllOf(index, parts) : Before(e, t)
  <2>1. X = {} /\ least({}) = {}
    BY <1>2 DEF least
  <2> QED
    BY <1>1, <1>2, <2>1
<1>3. ASSUME NEW i \in 1 .. Len(index), IndexSeek(index, t) = {i},
             \A j \in 1 .. Len(index) : \A e \in parts[j] :
               (j < i => Before(e, t)) /\ (i < j => ~Before(e, t))
      PROVE  least(X) = Forward(index, parts, i, MovedIn(parts[i], {}, SeekTo(t)))
  <2> DEFINE Y == {e \in parts[i] : ~Before(e, t)}
             Z == LaterParts(index, parts, i)
  <2>1. X = Y \cup Z
    <3>1. \A j \in 1 .. Len(index) : j < i \/ j = i \/ i < j
      BY RunType
    <3>2. \A e \in X : e \in Y \cup Z
      BY <1>3, <3>1 DEF AllOf, LaterParts, EarlierParts
    <3>3. \A e \in Y \cup Z : e \in X
      BY <1>3 DEF AllOf, LaterParts, EarlierParts
    <3> QED
      BY <3>2, <3>3
  <2>2. MovedIn(parts[i], {}, SeekTo(t)) = least(Y)
    BY DEF MovedIn, SeekTo
  <2>3. Lined(Y) /\ Y \subseteq parts[i]
    BY PartLined DEF Run
  <2>4. least(Y) = {} <=> Y = {}
    <3> HIDE DEF Y
    <3> QED
      BY <2>3, StepFinds
  <2>5. least(Y \cup Z) = IF Y # {} THEN least(Y)
                          ELSE IF i < Len(index) THEN least(parts[i + 1]) ELSE {}
    <3> HIDE DEF Y
    <3> QED
      BY <2>3, RunFirst
  <2> HIDE DEF X, Y, Z
  <2> QED
    BY <2>1, <2>2, <2>4, <2>5 DEF Forward
<1> HIDE DEF X
<1> QED
  BY <1>1, <1>2, <1>3, IndexLeads

\* A step forward from an entry of part i, ...
LEMMA RunNext ==
  ASSUME NEW index, NEW parts, Run(index, parts), NEW i \in 1 .. Len(index),
         NEW c \in parts[i]
  PROVE  MovedIn(AllOf(index, parts), {c}, Move("Next"))
           = Forward(index, parts, i, MovedIn(parts[i], {c}, Move("Next")))
<1>1. /\ Len(index) \in Nat
      /\ \A j \in 1 .. Len(index) : parts[j] \subseteq Point
      /\ \A j, k \in 1 .. Len(index) : j < k =>
              \A e \in parts[k] : \A x \in parts[j] : Before(x, e)
  BY RunType
<1>2. \A j \in 1 .. Len(index) : j < i \/ j = i \/ i < j
  BY <1>1
<1>3. \A j \in 1 .. Len(index) : \A e \in parts[j] :
        /\ j < i => Before(e, c) /\ ~Before(c, e)
        /\ i < j => Before(c, e) /\ ~Before(e, c)
  <2>1. \A j \in 1 .. Len(index) : \A e \in parts[j] :
          /\ j < i => Before(e, c)
          /\ i < j => Before(c, e)
    BY <1>1
  <2> QED
    BY <1>1, <2>1, Order
<1> DEFINE X == {e \in AllOf(index, parts) : \A n \in {c} : Before(n, e)}
           Y == {e \in parts[i] : \A n \in {c} : Before(n, e)}
           Z == LaterParts(index, parts, i)
<1>4. /\ MovedIn(AllOf(index, parts), {c}, Move("Next")) = least(X)
      /\ MovedIn(parts[i], {c}, Move("Next")) = least(Y)
  BY DEF MovedIn, Move
<1>5. X = Y \cup Z
  <2>1. \A e \in X : e \in Y \cup Z
    BY <1>2, <1>3 DEF AllOf, LaterParts, EarlierParts
  <2>2. \A e \in Y \cup Z : e \in X
    BY <1>3 DEF AllOf, LaterParts, EarlierParts
  <2> QED
    BY <2>1, <2>2
<1>6. Lined(Y) /\ Y \subseteq parts[i]
  BY PartLined DEF Run
<1>7. least(Y) = {} <=> Y = {}
  <2> HIDE DEF Y
  <2> QED
    BY <1>6, StepFinds
<1>8. least(Y \cup Z) = IF Y # {} THEN least(Y)
                        ELSE IF i < Len(index) THEN least(parts[i + 1]) ELSE {}
  <2> HIDE DEF Y
  <2> QED
    BY <1>6, RunFirst
<1> HIDE DEF X, Y, Z
<1> QED
  BY <1>4, <1>5, <1>7, <1>8 DEF Forward

\* ... or backward.
LEMMA RunPrev ==
  ASSUME NEW index, NEW parts, Run(index, parts), NEW i \in 1 .. Len(index),
         NEW c \in parts[i]
  PROVE  MovedIn(AllOf(index, parts), {c}, Move("Prev"))
           = Backward(index, parts, i, MovedIn(parts[i], {c}, Move("Prev")))
<1>1. /\ Len(index) \in Nat
      /\ \A j \in 1 .. Len(index) : parts[j] \subseteq Point
      /\ \A j, k \in 1 .. Len(index) : j < k =>
              \A e \in parts[k] : \A x \in parts[j] : Before(x, e)
  BY RunType
<1>2. \A j \in 1 .. Len(index) : j < i \/ j = i \/ i < j
  BY <1>1
<1>3. \A j \in 1 .. Len(index) : \A e \in parts[j] :
        /\ j < i => Before(e, c) /\ ~Before(c, e)
        /\ i < j => Before(c, e) /\ ~Before(e, c)
  <2>1. \A j \in 1 .. Len(index) : \A e \in parts[j] :
          /\ j < i => Before(e, c)
          /\ i < j => Before(c, e)
    BY <1>1
  <2> QED
    BY <1>1, <2>1, Order
<1> DEFINE X == {e \in AllOf(index, parts) : \A n \in {c} : Before(e, n)}
           Y == {e \in parts[i] : \A n \in {c} : Before(e, n)}
           Z == EarlierParts(index, parts, i)
<1>4. /\ MovedIn(AllOf(index, parts), {c}, Move("Prev")) = greatest(X)
      /\ MovedIn(parts[i], {c}, Move("Prev")) = greatest(Y)
  BY DEF MovedIn, Move
<1>5. X = Y \cup Z
  <2>1. \A e \in X : e \in Y \cup Z
    BY <1>2, <1>3 DEF AllOf, LaterParts, EarlierParts
  <2>2. \A e \in Y \cup Z : e \in X
    BY <1>3 DEF AllOf, LaterParts, EarlierParts
  <2> QED
    BY <2>1, <2>2
<1>6. Lined(Y) /\ Y \subseteq parts[i]
  BY PartLined DEF Run
<1>7. greatest(Y) = {} <=> Y = {}
  <2> HIDE DEF Y
  <2> QED
    BY <1>6, StepFinds
<1>8. greatest(Y \cup Z) = IF Y # {} THEN greatest(Y)
                           ELSE IF 1 < i THEN greatest(parts[i - 1]) ELSE {}
  <2> HIDE DEF Y
  <2> QED
    BY <1>6, RunLast
<1> HIDE DEF X, Y, Z
<1> QED
  BY <1>4, <1>5, <1>7, <1>8 DEF Backward

-----------------------------------------------------------------------------
(* Tables *)

\* An iterator of part i that is at P, as one of the run.
At(i, P) == {<<i, x>> : x \in P}

\* The parts of a table are the entries of its blocks.
tableParts(t) == [i \in DOMAIN t.blocks |-> BlockEntries(t.blocks[i])]

\* Where an iterator of a table can be.
TablePos(t, p) ==
  p = {} \/ \E i \in 1 .. Len(t.index) : \E j \in 1 .. Len(t.blocks[i]) : p = {<<i, j>>}

\* A table is a run of its blocks.
LEMMA TableRun ==
  ASSUME NEW t \in Tables
  PROVE  /\ Run(t.index, tableParts(t)) /\ Len(t.index) \in Nat \ {0}
         /\ \A i \in 1 .. Len(t.index) :
              t.blocks[i] \in Blocks /\ tableParts(t)[i] = BlockEntries(t.blocks[i])
         /\ TableEntries(t) = AllOf(t.index, tableParts(t))
<1>1. /\ t.blocks \in Seq(Blocks) /\ t.index \in Seq(Point)
      /\ Leads(t.index, tableParts(t))
  BY DEF Tables, tableParts
<1>2. Len(t.index) \in Nat \ {0} /\ DOMAIN t.index = 1 .. Len(t.index)
      /\ DOMAIN t.blocks = 1 .. Len(t.index)
  BY <1>1 DEF Leads, tableParts
<1>3. \A i \in 1 .. Len(t.index) :
        t.blocks[i] \in Blocks /\ tableParts(t)[i] = BlockEntries(t.blocks[i])
  BY <1>1, <1>2 DEF tableParts
<1>4. Run(t.index, tableParts(t))
  BY <1>1, <1>3, BlockLined DEF Run
<1>5. TableEntries(t) = AllOf(t.index, tableParts(t))
  BY <1>2, <1>3 DEF TableEntries, AllOf
<1> QED
  BY <1>2, <1>3, <1>4, <1>5

\* Of a block, one place has one entry.
LEMMA BlockAt ==
  ASSUME NEW b \in Blocks, NEW P, BlockPos(b, P)
  PROVE  \/ P = {} /\ BlockEntry(b, P) = {}
         \/ \E i \in 1 .. Len(b) : /\ P = {i} /\ BlockEntry(b, P) = {b[i]}
                                   /\ b[i] \in BlockEntries(b)
BY BlockLined DEF BlockPos, BlockEntry

\* An iterator of a block, as one of the table.
LEMMA InBlock ==
  ASSUME NEW t \in Tables, NEW i \in 1 .. Len(t.index), NEW P, BlockPos(t.blocks[i], P)
  PROVE  /\ TablePos(t, At(i, P))
         /\ TableEntry(t, At(i, P)) = BlockEntry(t.blocks[i], P)
         /\ At(i, P) = {} <=> P = {}
         /\ BlockEntry(t.blocks[i], P) = {} <=> P = {}
<1>1. CASE P = {}
  <2>1. At(i, P) = {}
    BY <1>1 DEF At
  <2> QED
    BY <1>1, <2>1 DEF TablePos, TableEntry, BlockEntry
<1>2. CASE \E j \in 1 .. Len(t.blocks[i]) : P = {j}
  <2>1. PICK j \in 1 .. Len(t.blocks[i]) : P = {j}
    BY <1>2
  <2>2. At(i, P) = {<<i, j>>}
    BY <2>1 DEF At
  <2>3. TableEntry(t, At(i, P)) = BlockEntry(t.blocks[i], P)
    <3>1. {BlockEntry(t.blocks[q[1]], {q[2]}) : q \in {<<i, j>>}} = {BlockEntry(t.blocks[i], {j})}
      <4>1. PICK z : z = <<i, j>>
        OBVIOUS
      <4>2. {BlockEntry(t.blocks[q[1]], {q[2]}) : q \in {z}} = {BlockEntry(t.blocks[z[1]], {z[2]})}
        OBVIOUS
      <4> QED
        BY <4>1, <4>2
    <3> QED
      BY <2>1, <2>2, <3>1 DEF TableEntry
  <2>4. BlockEntry(t.blocks[i], P) # {}
    BY <2>1 DEF BlockEntry
  <2> QED
    BY <2>1, <2>2, <2>3, <2>4 DEF TablePos
<1> QED
  BY <1>1, <1>2 DEF BlockPos

\* An iterator of a table is on one of its entries or on none.
LEMMA TableAt ==
  ASSUME NEW t \in Tables, NEW p, TablePos(t, p)
  PROVE  \/ p = {} /\ TableEntry(t, p) = {}
         \/ \E i \in 1 .. Len(t.index) : \E j \in 1 .. Len(t.blocks[i]) :
              /\ p = {<<i, j>>} /\ BlockPos(t.blocks[i], {j})
              /\ TableEntry(t, p) = BlockEntry(t.blocks[i], {j})
              /\ TableEntry(t, p) = {t.blocks[i][j]}
              /\ t.blocks[i][j] \in tableParts(t)[i]
              /\ t.blocks[i][j] \in TableEntries(t)
<1>1. CASE p = {}
  BY <1>1 DEF TableEntry
<1>2. ASSUME NEW i \in 1 .. Len(t.index), NEW j \in 1 .. Len(t.blocks[i]), p = {<<i, j>>}
      PROVE  /\ BlockPos(t.blocks[i], {j})
             /\ TableEntry(t, p) = BlockEntry(t.blocks[i], {j})
             /\ TableEntry(t, p) = {t.blocks[i][j]}
             /\ t.blocks[i][j] \in tableParts(t)[i]
             /\ t.blocks[i][j] \in TableEntries(t)
  <2>1. BlockPos(t.blocks[i], {j}) /\ BlockEntry(t.blocks[i], {j}) = {t.blocks[i][j]}
    BY DEF BlockPos, BlockEntry
  <2>2. p = At(i, {j})
    BY <1>2 DEF At
  <2>3. TableEntry(t, p) = BlockEntry(t.blocks[i], {j})
    BY <2>1, <2>2, InBlock
  <2>4. t.blocks[i][j] \in tableParts(t)[i]
    BY TableRun, BlockLined
  <2>5. t.blocks[i][j] \in TableEntries(t)
    BY <2>4, TableRun DEF AllOf
  <2> QED
    BY <2>1, <2>3, <2>4, <2>5
<1> QED
  BY <1>1, <1>2 DEF TablePos

\* What SkipForward and SkipBackward make of an iterator of block i at P.
forwardInTable(t, i, P) ==
  IF P # {} THEN At(i, P)
  ELSE IF i < Len(t.index) THEN At(i + 1, BlockMoved(t.blocks[i + 1], {}, Move("First")))
  ELSE {}
backwardInTable(t, i, P) ==
  IF P # {} THEN At(i, P)
  ELSE IF 1 < i THEN At(i - 1, BlockMoved(t.blocks[i - 1], {}, Move("Last")))
  ELSE {}

\* InitDataBlock and a move there.
inTableBlock(t, i, move) ==
  UNION {{<<j, q>> : q \in BlockMoved(t.blocks[j], {}, move)} : j \in {i} \cap 1 .. Len(t.index)}

\* They lead where an iterator of that block, or of the one beside it, is.
LEMMA TablePart ==
  ASSUME NEW t \in Tables
  PROVE  /\ \A i : \A move : inTableBlock(t, i, move) =
              IF i \in 1 .. Len(t.index) THEN At(i, BlockMoved(t.blocks[i], {}, move)) ELSE {}
         /\ \A i \in 1 .. Len(t.index) : \A P :
              /\ (IF At(i, P) # {} THEN At(i, P) ELSE inTableBlock(t, i + 1, Move("First")))
                  = forwardInTable(t, i, P)
              /\ (IF At(i, P) # {} THEN At(i, P) ELSE inTableBlock(t, i - 1, Move("Last")))
                  = backwardInTable(t, i, P)
<1> DEFINE n == Len(t.index)
<1>1. n \in Nat \ {0}
  BY TableRun
<1>2. \A i : \A move : inTableBlock(t, i, move) = IF i \in 1 .. n
                        THEN At(i, BlockMoved(t.blocks[i], {}, move)) ELSE {}
  <2> TAKE i
  <2> TAKE move
  <2>1. CASE i \in 1 .. n
    <3>1. {i} \cap 1 .. n = {i}
      BY <2>1
    <3> HIDE DEF n
    <3> QED
      BY <2>1, <3>1 DEF At, inTableBlock, n
  <2>2. CASE i \notin 1 .. n
    <3>1. {i} \cap 1 .. n = {}
      BY <2>2
    <3> HIDE DEF n
    <3> QED
      BY <2>2, <3>1 DEF inTableBlock, n
  <2> QED
    BY <2>1, <2>2
<1>3. ASSUME NEW i \in 1 .. n, NEW P
      PROVE  /\ (IF At(i, P) # {} THEN At(i, P) ELSE inTableBlock(t, i + 1, Move("First")))
                  = forwardInTable(t, i, P)
             /\ (IF At(i, P) # {} THEN At(i, P) ELSE inTableBlock(t, i - 1, Move("Last")))
                  = backwardInTable(t, i, P)
  <2>1. At(i, P) # {} <=> P # {}
    BY DEF At
  <2>2. (i + 1 \in 1 .. n <=> i < n) /\ (i - 1 \in 1 .. n <=> 1 < i)
    BY <1>1
  <2> QED
    BY <1>2, <2>1, <2>2 DEF forwardInTable, backwardInTable
<1> QED
  BY <1>2, <1>3

\* The moves of a table's iterator: to an end, ...
LEMMA TableMovedToEnds ==
  ASSUME NEW t \in Tables, NEW p
  PROVE  /\ TableMoved(t, p, Move("First"))
              = At(1, BlockMoved(t.blocks[1], {}, Move("First")))
         /\ TableMoved(t, p, Move("Last"))
              = At(Len(t.index), BlockMoved(t.blocks[Len(t.index)], {}, Move("Last")))
<1>1. Len(t.index) \in Nat \ {0}
  BY TableRun
<1>2. /\ TableMoved(t, p, Move("First")) = inTableBlock(t, 1, Move("First"))
      /\ TableMoved(t, p, Move("Last")) = inTableBlock(t, Len(t.index), Move("Last"))
  BY DEF TableMoved, RunMoved, InPart, Move, inTableBlock
<1> QED
  BY <1>1, <1>2, TablePart

\* ... to a key ...
LEMMA TableMovedToKey ==
  ASSUME NEW t \in Tables, NEW p, NEW k
  PROVE  /\ IndexSeek(t.index, k) = {} => TableMoved(t, p, SeekTo(k)) = {}
         /\ \A i \in 1 .. Len(t.index) : IndexSeek(t.index, k) = {i} =>
              TableMoved(t, p, SeekTo(k))
                = forwardInTable(t, i, BlockMoved(t.blocks[i], {}, SeekTo(k)))
<1> DEFINE sought(i) ==
             IF inTableBlock(t, i, SeekTo(k)) # {} THEN inTableBlock(t, i, SeekTo(k))
             ELSE inTableBlock(t, i + 1, Move("First"))
<1>1. TableMoved(t, p, SeekTo(k)) = UNION {sought(i) : i \in IndexSeek(t.index, k)}
  BY DEF TableMoved, RunMoved, InPart, SeekTo, inTableBlock
<1>2. IndexSeek(t.index, k) = {} => TableMoved(t, p, SeekTo(k)) = {}
  BY <1>1
<1>3. ASSUME NEW i \in 1 .. Len(t.index), IndexSeek(t.index, k) = {i}
      PROVE  TableMoved(t, p, SeekTo(k))
               = forwardInTable(t, i, BlockMoved(t.blocks[i], {}, SeekTo(k)))
  <2>1. TableMoved(t, p, SeekTo(k)) = sought(i)
    <3> HIDE DEF sought
    <3> QED
      BY <1>1, <1>3
  <2>2. inTableBlock(t, i, SeekTo(k)) = At(i, BlockMoved(t.blocks[i], {}, SeekTo(k)))
    BY TablePart
  <2> QED
    BY <2>1, <2>2, TablePart
<1> QED
  BY <1>2, <1>3

\* ... or by a step.
LEMMA TableStepped ==
  ASSUME NEW t \in Tables, NEW i \in 1 .. Len(t.index), NEW j
  PROVE  /\ TableMoved(t, {<<i, j>>}, Move("Next"))
              = forwardInTable(t, i, BlockMoved(t.blocks[i], {j}, Move("Next")))
         /\ TableMoved(t, {<<i, j>>}, Move("Prev"))
              = backwardInTable(t, i, BlockMoved(t.blocks[i], {j}, Move("Prev")))
<1> DEFINE within(q, move) == {<<q[1], x>> : x \in BlockMoved(t.blocks[q[1]], {q[2]}, move)}
           after(q) == IF within(q, Move("Next")) # {} THEN within(q, Move("Next"))
                       ELSE inTableBlock(t, q[1] + 1, Move("First"))
           before(q) == IF within(q, Move("Prev")) # {} THEN within(q, Move("Prev"))
                        ELSE inTableBlock(t, q[1] - 1, Move("Last"))
<1>1. PICK z : z = <<i, j>>
  OBVIOUS
<1>2. /\ TableMoved(t, {z}, Move("Next")) = UNION {after(q) : q \in {z}}
      /\ TableMoved(t, {z}, Move("Prev")) = UNION {before(q) : q \in {z}}
  BY DEF TableMoved, RunMoved, InPart, Move, inTableBlock
<1>3. TableMoved(t, {z}, Move("Next")) = after(z) /\ TableMoved(t, {z}, Move("Prev")) = before(z)
  <2> HIDE DEF after, before
  <2> QED
    BY <1>2
<1>4. \A move : within(z, move) = At(i, BlockMoved(t.blocks[i], {j}, move))
  BY <1>1 DEF At
<1>5. /\ TableMoved(t, {z}, Move("Next")) =
           IF At(i, BlockMoved(t.blocks[i], {j}, Move("Next"))) # {}
           THEN At(i, BlockMoved(t.blocks[i], {j}, Move("Next")))
           ELSE inTableBlock(t, i + 1, Move("First"))
      /\ TableMoved(t, {z}, Move("Prev")) =
           IF At(i, BlockMoved(t.blocks[i], {j}, Move("Prev"))) # {}
           THEN At(i, BlockMoved(t.blocks[i], {j}, Move("Prev")))
           ELSE inTableBlock(t, i - 1, Move("Last"))
  <2>1. z[1] = i
    BY <1>1
  <2> HIDE DEF within
  <2> QED
    BY <1>3, <1>4, <2>1
<1> QED
  BY <1>1, <1>5, TablePart

\* Where they lead, in the table and among its entries.
LEMMA TableTurns ==
  ASSUME NEW t \in Tables, NEW i \in 1 .. Len(t.index), NEW P, BlockPos(t.blocks[i], P)
  PROVE  /\ TablePos(t, forwardInTable(t, i, P)) /\ TablePos(t, backwardInTable(t, i, P))
         /\ TableEntry(t, forwardInTable(t, i, P))
              = Forward(t.index, tableParts(t), i, BlockEntry(t.blocks[i], P))
         /\ TableEntry(t, backwardInTable(t, i, P))
              = Backward(t.index, tableParts(t), i, BlockEntry(t.blocks[i], P))
<1>1. /\ Len(t.index) \in Nat \ {0}
      /\ \A j \in 1 .. Len(t.index) :
           t.blocks[j] \in Blocks /\ tableParts(t)[j] = BlockEntries(t.blocks[j])
  BY TableRun
<1>2. /\ TablePos(t, At(i, P)) /\ TableEntry(t, At(i, P)) = BlockEntry(t.blocks[i], P)
      /\ BlockEntry(t.blocks[i], P) = {} <=> P = {}
  <2>1. TablePos(t, At(i, P)) /\ TableEntry(t, At(i, P)) = BlockEntry(t.blocks[i], P)
    BY InBlock
  <2>2. BlockEntry(t.blocks[i], P) = {} <=> P = {}
    BY InBlock
  <2> QED
    BY <2>1, <2>2
<1>3. TablePos(t, {}) /\ TableEntry(t, {}) = {}
  BY DEF TablePos, TableEntry
<1>4. ASSUME NEW j \in 1 .. Len(t.index), NEW move \in {Move("First"), Move("Last")}
      PROVE  /\ TablePos(t, At(j, BlockMoved(t.blocks[j], {}, move)))
             /\ TableEntry(t, At(j, BlockMoved(t.blocks[j], {}, move)))
                  = MovedIn(tableParts(t)[j], {}, move)
  <2>1. BlockPos(t.blocks[j], {}) /\ BlockEntry(t.blocks[j], {}) = {}
    BY DEF BlockPos, BlockEntry
  <2>2. Movable(BlockEntry(t.blocks[j], {}), move)
    BY <2>1 DEF Movable, Moves, Move
  <2>3. /\ BlockPos(t.blocks[j], BlockMoved(t.blocks[j], {}, move))
        /\ BlockEntry(t.blocks[j], BlockMoved(t.blocks[j], {}, move))
             = MovedIn(tableParts(t)[j], {}, move)
    <3>1. t.blocks[j] \in Blocks /\ BlockEntries(t.blocks[j]) = tableParts(t)[j]
      BY <1>1
    <3>2. BlockEntry(t.blocks[j], BlockMoved(t.blocks[j], {}, move))
            = MovedIn(BlockEntries(t.blocks[j]), BlockEntry(t.blocks[j], {}), move)
      BY <2>1, <2>2, <3>1, BlockMoves, Zenon
    <3>3. BlockPos(t.blocks[j], BlockMoved(t.blocks[j], {}, move))
      BY <2>1, <2>2, <3>1, BlockMoves, Zenon
    <3> QED
      BY <2>1, <3>1, <3>2, <3>3
  <2> QED
    BY <2>3, InBlock
<1>5. ASSUME NEW j \in 1 .. Len(t.index)
      PROVE  /\ TablePos(t, At(j, BlockMoved(t.blocks[j], {}, Move("First"))))
             /\ TableEntry(t, At(j, BlockMoved(t.blocks[j], {}, Move("First"))))
                  = least(tableParts(t)[j])
             /\ TablePos(t, At(j, BlockMoved(t.blocks[j], {}, Move("Last"))))
             /\ TableEntry(t, At(j, BlockMoved(t.blocks[j], {}, Move("Last"))))
                  = greatest(tableParts(t)[j])
  BY <1>4, MoveCases
<1>6. CASE P # {}
  BY <1>2, <1>6 DEF forwardInTable, backwardInTable, Forward, Backward
<1>7. CASE P = {}
  <2>1. i < Len(t.index) => i + 1 \in 1 .. Len(t.index)
    BY <1>1
  <2>2. 1 < i => i - 1 \in 1 .. Len(t.index)
    BY <1>1
  <2>3. /\ TablePos(t, forwardInTable(t, i, P))
        /\ TableEntry(t, forwardInTable(t, i, P))
              = Forward(t.index, tableParts(t), i, BlockEntry(t.blocks[i], P))
    BY <1>2, <1>3, <1>5, <1>7, <2>1 DEF forwardInTable, Forward
  <2>4. /\ TablePos(t, backwardInTable(t, i, P))
        /\ TableEntry(t, backwardInTable(t, i, P))
              = Backward(t.index, tableParts(t), i, BlockEntry(t.blocks[i], P))
    BY <1>2, <1>3, <1>5, <1>7, <2>2 DEF backwardInTable, Backward
  <2> QED
    BY <2>3, <2>4
<1> QED
  BY <1>6, <1>7

\* A table's iterator moves among the entries of the table.
LEMMA TableMoves ==
  ASSUME NEW t \in Tables, NEW p, TablePos(t, p),
         NEW move, Movable(TableEntry(t, p), move)
  PROVE  /\ TablePos(t, TableMoved(t, p, move))
         /\ TableEntry(t, TableMoved(t, p, move))
              = MovedIn(TableEntries(t), TableEntry(t, p), move)
<1> DEFINE n == Len(t.index)
           parts == tableParts(t)
<1>1. /\ n \in Nat \ {0} /\ Run(t.index, parts)
      /\ TableEntries(t) = AllOf(t.index, parts)
      /\ \A j \in 1 .. n : t.blocks[j] \in Blocks /\ parts[j] = BlockEntries(t.blocks[j])
  BY TableRun
<1>2. ASSUME NEW j \in 1 .. n, NEW P, BlockPos(t.blocks[j], P),
             NEW m, Movable(BlockEntry(t.blocks[j], P), m)
      PROVE  /\ BlockPos(t.blocks[j], BlockMoved(t.blocks[j], P, m))
             /\ BlockEntry(t.blocks[j], BlockMoved(t.blocks[j], P, m))
                  = MovedIn(parts[j], BlockEntry(t.blocks[j], P), m)
  BY <1>1, <1>2, BlockMoves
<1>3. ASSUME NEW j \in 1 .. n,
             NEW m \in {Move("First"), Move("Last")} \cup {SeekTo(k) : k \in Point}
      PROVE  /\ BlockPos(t.blocks[j], BlockMoved(t.blocks[j], {}, m))
             /\ BlockEntry(t.blocks[j], BlockMoved(t.blocks[j], {}, m))
                  = MovedIn(parts[j], {}, m)
  <2>1. BlockPos(t.blocks[j], {}) /\ BlockEntry(t.blocks[j], {}) = {}
    BY DEF BlockPos, BlockEntry
  <2>2. Movable(BlockEntry(t.blocks[j], {}), m)
    BY <2>1 DEF Movable, Moves, Move, SeekTo
  <2> HIDE DEF parts
  <2> QED
    BY <1>2, <2>1, <2>2
<1> HIDE DEF n, parts
<1>4. CASE move = Move("First")
  <2>1. TableMoved(t, p, move) = At(1, BlockMoved(t.blocks[1], {}, move)) /\ 1 \in 1 .. n
    BY <1>1, <1>4, TableMovedToEnds
  <2>2. /\ TablePos(t, TableMoved(t, p, move))
        /\ TableEntry(t, TableMoved(t, p, move)) = MovedIn(parts[1], {}, move)
    BY <1>3, <1>4, <2>1, InBlock DEF n
  <2>3. MovedIn(TableEntries(t), TableEntry(t, p), move) = MovedIn(parts[1], {}, move)
    <3>1. least(AllOf(t.index, parts)) = least(parts[1])
      BY <1>1, RunEnds
    <3>2. MovedIn(TableEntries(t), TableEntry(t, p), Move("First")) = least(TableEntries(t))
      BY MoveCases
    <3>3. MovedIn(parts[1], {}, Move("First")) = least(parts[1])
      BY MoveCases
    <3> QED
      BY <1>1, <1>4, <3>1, <3>2, <3>3
  <2> QED
    BY <2>2, <2>3
<1>5. CASE move = Move("Last")
  <2>1. TableMoved(t, p, move) = At(n, BlockMoved(t.blocks[n], {}, move)) /\ n \in 1 .. n
    BY <1>1, <1>5, TableMovedToEnds DEF n
  <2>2. /\ TablePos(t, TableMoved(t, p, move))
        /\ TableEntry(t, TableMoved(t, p, move)) = MovedIn(parts[n], {}, move)
    <3>1. PICK k \in 1 .. n : k = n
      BY <2>1
    <3>2. /\ BlockPos(t.blocks[k], BlockMoved(t.blocks[k], {}, move))
          /\ BlockEntry(t.blocks[k], BlockMoved(t.blocks[k], {}, move)) = MovedIn(parts[k], {}, move)
      BY <1>3, <1>5
    <3>3. PICK P : P = BlockMoved(t.blocks[k], {}, move)
      OBVIOUS
    <3>4. /\ TablePos(t, At(k, P))
          /\ TableEntry(t, At(k, P)) = BlockEntry(t.blocks[k], P)
      BY <3>1, <3>2, <3>3, InBlock DEF n
    <3> QED
      BY <2>1, <3>1, <3>2, <3>3, <3>4
  <2>3. MovedIn(TableEntries(t), TableEntry(t, p), move) = MovedIn(parts[n], {}, move)
    <3>1. greatest(AllOf(t.index, parts)) = greatest(parts[n])
      BY <1>1, RunEnds DEF n
    <3>2. MovedIn(TableEntries(t), TableEntry(t, p), Move("Last")) = greatest(TableEntries(t))
      BY MoveCases
    <3>3. MovedIn(parts[n], {}, Move("Last")) = greatest(parts[n])
      BY MoveCases
    <3> QED
      BY <1>1, <1>5, <3>1, <3>2, <3>3
  <2> QED
    BY <2>2, <2>3
<1>6. ASSUME NEW k \in Point, move = SeekTo(k)
      PROVE  /\ TablePos(t, TableMoved(t, p, move))
             /\ TableEntry(t, TableMoved(t, p, move))
                  = MovedIn(TableEntries(t), TableEntry(t, p), move)
  <2>1. MovedIn(TableEntries(t), TableEntry(t, p), move)
          = MovedIn(AllOf(t.index, parts), {}, SeekTo(k))
    BY <1>1, <1>6 DEF MovedIn, SeekTo
  <2>2. CASE IndexSeek(t.index, k) = {} /\ MovedIn(AllOf(t.index, parts), {}, SeekTo(k)) = {}
    <3>1. TableMoved(t, p, move) = {}
      BY <1>6, <2>2, TableMovedToKey
    <3> QED
      BY <2>1, <2>2, <3>1 DEF TablePos, TableEntry
  <2>3. ASSUME NEW i \in 1 .. n, IndexSeek(t.index, k) = {i},
               MovedIn(AllOf(t.index, parts), {}, SeekTo(k))
                 = Forward(t.index, parts, i, MovedIn(parts[i], {}, SeekTo(k)))
        PROVE  /\ TablePos(t, TableMoved(t, p, move))
               /\ TableEntry(t, TableMoved(t, p, move))
                    = MovedIn(TableEntries(t), TableEntry(t, p), move)
    <3>1. TableMoved(t, p, move) = forwardInTable(t, i, BlockMoved(t.blocks[i], {}, move))
      BY <1>6, <2>3, TableMovedToKey DEF n
    <3>2. /\ BlockPos(t.blocks[i], BlockMoved(t.blocks[i], {}, move))
          /\ BlockEntry(t.blocks[i], BlockMoved(t.blocks[i], {}, move))
               = MovedIn(parts[i], {}, move)
      BY <1>3, <1>6
    <3>3. /\ TablePos(t, TableMoved(t, p, move))
          /\ TableEntry(t, TableMoved(t, p, move))
               = Forward(t.index, parts, i, MovedIn(parts[i], {}, move))
      BY <3>1, <3>2, TableTurns DEF n, parts
    <3> QED
      BY <1>6, <2>1, <2>3, <3>3
  <2> QED
    BY <1>1, <2>2, <2>3, RunSeeks DEF n
<1>7. CASE move \in {Move("Next"), Move("Prev")}
  <2>1. TableEntry(t, p) # {}
    BY <1>7 DEF Movable, Move
  <2>2. PICK i \in 1 .. n : \E j \in 1 .. Len(t.blocks[i]) :
          /\ p = {<<i, j>>} /\ BlockPos(t.blocks[i], {j})
          /\ TableEntry(t, p) = BlockEntry(t.blocks[i], {j})
          /\ TableEntry(t, p) = {t.blocks[i][j]}
          /\ t.blocks[i][j] \in parts[i]
    BY <2>1, TableAt DEF n, parts
  <2>3. PICK j, c : /\ p = {<<i, j>>} /\ BlockPos(t.blocks[i], {j})
                    /\ TableEntry(t, p) = BlockEntry(t.blocks[i], {j})
                    /\ TableEntry(t, p) = {c} /\ c \in parts[i]
    BY <2>2
  <2>4. /\ BlockPos(t.blocks[i], BlockMoved(t.blocks[i], {j}, move))
        /\ BlockEntry(t.blocks[i], BlockMoved(t.blocks[i], {j}, move))
             = MovedIn(parts[i], {c}, move)
    <3>1. Movable(BlockEntry(t.blocks[i], {j}), move)
      BY <2>3
    <3> QED
      BY <1>2, <2>3, <3>1
  <2>5. CASE move = Move("Next")
    <3>1. TableMoved(t, p, move) = forwardInTable(t, i, BlockMoved(t.blocks[i], {j}, move))
      <4>1. i \in 1 .. Len(t.index) /\ p = {<<i, j>>}
        BY <2>3 DEF n
      <4>2. TableMoved(t, p, Move("Next"))
              = forwardInTable(t, i, BlockMoved(t.blocks[i], {j}, Move("Next")))
        BY <4>1, TableStepped
      <4> QED
        BY <2>5, <4>2
    <3>2. /\ TablePos(t, TableMoved(t, p, move))
          /\ TableEntry(t, TableMoved(t, p, move))
               = Forward(t.index, parts, i, MovedIn(parts[i], {c}, move))
      BY <2>4, <3>1, TableTurns DEF n, parts
    <3>3. MovedIn(AllOf(t.index, parts), {c}, move)
            = Forward(t.index, parts, i, MovedIn(parts[i], {c}, move))
      <4>1. Run(t.index, parts) /\ i \in 1 .. Len(t.index) /\ c \in parts[i]
        BY <1>1, <2>3 DEF n
      <4>2. MovedIn(AllOf(t.index, parts), {c}, Move("Next"))
              = Forward(t.index, parts, i, MovedIn(parts[i], {c}, Move("Next")))
        BY <4>1, RunNext
      <4> QED
        BY <2>5, <4>2
    <3> QED
      BY <1>1, <2>3, <3>2, <3>3
  <2>6. CASE move = Move("Prev")
    <3>1. TableMoved(t, p, move) = backwardInTable(t, i, BlockMoved(t.blocks[i], {j}, move))
      <4>1. i \in 1 .. Len(t.index) /\ p = {<<i, j>>}
        BY <2>3 DEF n
      <4>2. TableMoved(t, p, Move("Prev"))
              = backwardInTable(t, i, BlockMoved(t.blocks[i], {j}, Move("Prev")))
        BY <4>1, TableStepped
      <4> QED
        BY <2>6, <4>2
    <3>2. /\ TablePos(t, TableMoved(t, p, move))
          /\ TableEntry(t, TableMoved(t, p, move))
               = Backward(t.index, parts, i, MovedIn(parts[i], {c}, move))
      BY <2>4, <3>1, TableTurns DEF n, parts
    <3>3. MovedIn(AllOf(t.index, parts), {c}, move)
            = Backward(t.index, parts, i, MovedIn(parts[i], {c}, move))
      <4>1. Run(t.index, parts) /\ i \in 1 .. Len(t.index) /\ c \in parts[i]
        BY <1>1, <2>3 DEF n
      <4>2. MovedIn(AllOf(t.index, parts), {c}, Move("Prev"))
              = Backward(t.index, parts, i, MovedIn(parts[i], {c}, Move("Prev")))
        <5>1. PICK index, q, h : index = t.index /\ q = parts /\ h = i
          OBVIOUS
        <5>2. Run(index, q) /\ h \in 1 .. Len(index) /\ c \in q[h]
          BY <4>1, <5>1
        <5>3. MovedIn(AllOf(index, q), {c}, Move("Prev"))
                = Backward(index, q, h, MovedIn(q[h], {c}, Move("Prev")))
          BY <5>2, RunPrev
        <5> QED
          BY <5>1, <5>3
      <4> QED
        BY <2>6, <4>2
    <3> QED
      BY <1>1, <2>3, <3>2, <3>3
  <2> QED
    BY <1>7, <2>5, <2>6
<1> QED
  BY <1>4, <1>5, <1>6, <1>7 DEF Movable, Moves

-----------------------------------------------------------------------------
(* Levels, which are to tables what tables are to blocks *)

\* The entries of a table are in line.
LEMMA TableLined ==
  ASSUME NEW t \in Tables
  PROVE  Lined(TableEntries(t)) /\ TableEntries(t) # {}
BY TableRun, AllLined

\* A table's iterator, with the place left out.
LEMMA TableOn ==
  ASSUME NEW t \in Tables, NEW p, TablePos(t, p)
  PROVE  IF p = {} THEN TableEntry(t, p) = {}
         ELSE \E c \in TableEntries(t) : TableEntry(t, p) = {c}
<1>1. CASE p = {}
  BY <1>1 DEF TableEntry
<1>2. CASE p # {}
  <2>1. PICK i \in 1 .. Len(t.index) : \E j \in 1 .. Len(t.blocks[i]) :
          /\ TableEntry(t, p) = {t.blocks[i][j]}
          /\ t.blocks[i][j] \in TableEntries(t)
    BY <1>2, TableAt
  <2> QED
    BY <1>2, <2>1
<1> QED
  BY <1>1, <1>2

\* The parts of a level are the entries of its tables.
levelParts(l) == [i \in DOMAIN l.files |-> TableEntries(l.files[i])]

\* Where an iterator of a level can be.
LevelPos(l, p) ==
  p = {} \/ \E i \in 1 .. Len(l.index) : \E q : TablePos(l.files[i], {q}) /\ p = {<<i, q>>}

\* A level is a run of its tables.
LEMMA LevelRun ==
  ASSUME NEW l \in Levels
  PROVE  /\ Run(l.index, levelParts(l)) /\ Len(l.index) \in Nat \ {0}
         /\ \A i \in 1 .. Len(l.index) :
              l.files[i] \in Tables /\ levelParts(l)[i] = TableEntries(l.files[i])
         /\ LevelEntries(l) = AllOf(l.index, levelParts(l))
<1>1. /\ l.files \in Seq(Tables) /\ l.index \in Seq(Point)
      /\ Leads(l.index, levelParts(l))
  BY DEF Levels, levelParts
<1>2. Len(l.index) \in Nat \ {0} /\ DOMAIN l.index = 1 .. Len(l.index)
      /\ DOMAIN l.files = 1 .. Len(l.index)
  BY <1>1 DEF Leads, levelParts
<1>3. \A i \in 1 .. Len(l.index) :
        l.files[i] \in Tables /\ levelParts(l)[i] = TableEntries(l.files[i])
  BY <1>1, <1>2 DEF levelParts
<1>4. Run(l.index, levelParts(l))
  BY <1>1, <1>3, TableLined DEF Run
<1>5. LevelEntries(l) = AllOf(l.index, levelParts(l))
  BY <1>2, <1>3 DEF LevelEntries, AllOf
<1> QED
  BY <1>2, <1>3, <1>4, <1>5

\* An iterator of a table, as one of the level.
LEMMA InTable ==
  ASSUME NEW l \in Levels, NEW i \in 1 .. Len(l.index), NEW P, TablePos(l.files[i], P)
  PROVE  /\ LevelPos(l, At(i, P))
         /\ LevelEntry(l, At(i, P)) = TableEntry(l.files[i], P)
         /\ At(i, P) = {} <=> P = {}
         /\ TableEntry(l.files[i], P) = {} <=> P = {}
<1>0. l.files[i] \in Tables
  BY LevelRun
<1>1. CASE P = {}
  <2>1. At(i, P) = {}
    BY <1>1 DEF At
  <2> QED
    BY <1>1, <2>1 DEF LevelPos, LevelEntry, TableEntry
<1>2. CASE P # {}
  <2>1. PICK q : P = {q}
    BY <1>2 DEF TablePos
  <2>2. At(i, P) = {<<i, q>>}
    BY <2>1 DEF At
  <2>3. LevelEntry(l, At(i, P)) = TableEntry(l.files[i], P)
    <3>1. {TableEntry(l.files[r[1]], {r[2]}) : r \in {<<i, q>>}} = {TableEntry(l.files[i], {q})}
      <4>1. PICK z : z = <<i, q>>
        OBVIOUS
      <4>2. {TableEntry(l.files[r[1]], {r[2]}) : r \in {z}} = {TableEntry(l.files[z[1]], {z[2]})}
        OBVIOUS
      <4> QED
        BY <4>1, <4>2
    <3> QED
      BY <2>1, <2>2, <3>1 DEF LevelEntry
  <2>4. TableEntry(l.files[i], P) # {}
    BY <1>0, <1>2, TableOn
  <2>5. LevelPos(l, At(i, P))
    BY <2>1, <2>2 DEF LevelPos
  <2> QED
    BY <1>2, <2>2, <2>3, <2>4, <2>5
<1> QED
  BY <1>1, <1>2

\* An iterator of a level is on one of its entries or on none.
LEMMA LevelAt ==
  ASSUME NEW l \in Levels, NEW p, LevelPos(l, p)
  PROVE  \/ p = {} /\ LevelEntry(l, p) = {}
         \/ \E i \in 1 .. Len(l.index) : \E q : \E c \in levelParts(l)[i] :
              /\ p = {<<i, q>>} /\ TablePos(l.files[i], {q})
              /\ LevelEntry(l, p) = TableEntry(l.files[i], {q})
              /\ LevelEntry(l, p) = {c} /\ c \in LevelEntries(l)
<1>1. CASE p = {}
  BY <1>1 DEF LevelEntry
<1>2. ASSUME NEW i \in 1 .. Len(l.index), NEW q, TablePos(l.files[i], {q}), p = {<<i, q>>}
      PROVE  \E c \in levelParts(l)[i] :
               /\ LevelEntry(l, p) = TableEntry(l.files[i], {q})
               /\ LevelEntry(l, p) = {c} /\ c \in LevelEntries(l)
  <2>1. l.files[i] \in Tables /\ levelParts(l)[i] = TableEntries(l.files[i])
    BY LevelRun
  <2>2. p = At(i, {q})
    BY <1>2 DEF At
  <2>3. LevelEntry(l, p) = TableEntry(l.files[i], {q})
    <3>1. PICK P : P = {q}
      OBVIOUS
    <3>2. LevelEntry(l, At(i, P)) = TableEntry(l.files[i], P)
      BY <1>2, <3>1, InTable
    <3> QED
      BY <2>2, <3>1, <3>2
  <2>4. PICK c \in TableEntries(l.files[i]) : TableEntry(l.files[i], {q}) = {c}
    <3>1. PICK P : P = {q}
      OBVIOUS
    <3>2. TablePos(l.files[i], P) /\ P # {}
      BY <1>2, <3>1
    <3>3. \E c \in TableEntries(l.files[i]) : TableEntry(l.files[i], P) = {c}
      BY <2>1, <3>2, TableOn
    <3> QED
      BY <3>1, <3>3
  <2>5. c \in LevelEntries(l)
    BY <2>1, <2>4, LevelRun DEF AllOf
  <2> QED
    BY <2>1, <2>3, <2>4, <2>5
<1> QED
  BY <1>1, <1>2 DEF LevelPos

\* What SkipForward and SkipBackward make of an iterator of table i at P.
forwardInLevel(l, i, P) ==
  IF P # {} THEN At(i, P)
  ELSE IF i < Len(l.index) THEN At(i + 1, TableMoved(l.files[i + 1], {}, Move("First")))
  ELSE {}
backwardInLevel(l, i, P) ==
  IF P # {} THEN At(i, P)
  ELSE IF 1 < i THEN At(i - 1, TableMoved(l.files[i - 1], {}, Move("Last")))
  ELSE {}

\* InitDataBlock and a move there.
inLevelTable(l, i, move) ==
  UNION {{<<j, q>> : q \in TableMoved(l.files[j], {}, move)} : j \in {i} \cap 1 .. Len(l.index)}

\* They lead where an iterator of that table, or of the one beside it, is.
LEMMA LevelPart ==
  ASSUME NEW l \in Levels
  PROVE  /\ \A i : \A move : inLevelTable(l, i, move) =
              IF i \in 1 .. Len(l.index) THEN At(i, TableMoved(l.files[i], {}, move)) ELSE {}
         /\ \A i \in 1 .. Len(l.index) : \A P :
              /\ (IF At(i, P) # {} THEN At(i, P) ELSE inLevelTable(l, i + 1, Move("First")))
                  = forwardInLevel(l, i, P)
              /\ (IF At(i, P) # {} THEN At(i, P) ELSE inLevelTable(l, i - 1, Move("Last")))
                  = backwardInLevel(l, i, P)
<1> DEFINE n == Len(l.index)
<1>1. n \in Nat \ {0}
  BY LevelRun
<1>2. \A i : \A move : inLevelTable(l, i, move) = IF i \in 1 .. n
                        THEN At(i, TableMoved(l.files[i], {}, move)) ELSE {}
  <2> TAKE i
  <2> TAKE move
  <2>1. CASE i \in 1 .. n
    <3>1. {i} \cap 1 .. n = {i}
      BY <2>1
    <3> HIDE DEF n
    <3> QED
      BY <2>1, <3>1 DEF At, inLevelTable, n
  <2>2. CASE i \notin 1 .. n
    <3>1. {i} \cap 1 .. n = {}
      BY <2>2
    <3> HIDE DEF n
    <3> QED
      BY <2>2, <3>1 DEF inLevelTable, n
  <2> QED
    BY <2>1, <2>2
<1>3. ASSUME NEW i \in 1 .. n, NEW P
      PROVE  /\ (IF At(i, P) # {} THEN At(i, P) ELSE inLevelTable(l, i + 1, Move("First")))
                  = forwardInLevel(l, i, P)
             /\ (IF At(i, P) # {} THEN At(i, P) ELSE inLevelTable(l, i - 1, Move("Last")))
                  = backwardInLevel(l, i, P)
  <2>1. At(i, P) # {} <=> P # {}
    BY DEF At
  <2>2. (i + 1 \in 1 .. n <=> i < n) /\ (i - 1 \in 1 .. n <=> 1 < i)
    BY <1>1
  <2> QED
    BY <1>2, <2>1, <2>2 DEF forwardInLevel, backwardInLevel
<1> QED
  BY <1>2, <1>3

\* The moves of a level's iterator: to an end, ...
LEMMA LevelMovedToEnds ==
  ASSUME NEW l \in Levels, NEW p
  PROVE  /\ LevelMoved(l, p, Move("First"))
              = At(1, TableMoved(l.files[1], {}, Move("First")))
         /\ LevelMoved(l, p, Move("Last"))
              = At(Len(l.index), TableMoved(l.files[Len(l.index)], {}, Move("Last")))
<1>1. Len(l.index) \in Nat \ {0}
  BY LevelRun
<1>2. /\ LevelMoved(l, p, Move("First")) = inLevelTable(l, 1, Move("First"))
      /\ LevelMoved(l, p, Move("Last")) = inLevelTable(l, Len(l.index), Move("Last"))
  BY DEF LevelMoved, RunMoved, InPart, Move, inLevelTable
<1> QED
  BY <1>1, <1>2, LevelPart

\* ... to a key ...
LEMMA LevelMovedToKey ==
  ASSUME NEW l \in Levels, NEW p, NEW k
  PROVE  /\ IndexSeek(l.index, k) = {} => LevelMoved(l, p, SeekTo(k)) = {}
         /\ \A i \in 1 .. Len(l.index) : IndexSeek(l.index, k) = {i} =>
              LevelMoved(l, p, SeekTo(k))
                = forwardInLevel(l, i, TableMoved(l.files[i], {}, SeekTo(k)))
<1> DEFINE sought(i) ==
             IF inLevelTable(l, i, SeekTo(k)) # {} THEN inLevelTable(l, i, SeekTo(k))
             ELSE inLevelTable(l, i + 1, Move("First"))
<1>1. LevelMoved(l, p, SeekTo(k)) = UNION {sought(i) : i \in IndexSeek(l.index, k)}
  BY DEF LevelMoved, RunMoved, InPart, SeekTo, inLevelTable
<1>2. IndexSeek(l.index, k) = {} => LevelMoved(l, p, SeekTo(k)) = {}
  BY <1>1
<1>3. ASSUME NEW i \in 1 .. Len(l.index), IndexSeek(l.index, k) = {i}
      PROVE  LevelMoved(l, p, SeekTo(k))
               = forwardInLevel(l, i, TableMoved(l.files[i], {}, SeekTo(k)))
  <2>1. LevelMoved(l, p, SeekTo(k)) = sought(i)
    <3> HIDE DEF sought
    <3> QED
      BY <1>1, <1>3
  <2>2. inLevelTable(l, i, SeekTo(k)) = At(i, TableMoved(l.files[i], {}, SeekTo(k)))
    BY LevelPart
  <2> QED
    BY <2>1, <2>2, LevelPart
<1> QED
  BY <1>2, <1>3

\* ... or by a step.
LEMMA LevelStepped ==
  ASSUME NEW l \in Levels, NEW i \in 1 .. Len(l.index), NEW j
  PROVE  /\ LevelMoved(l, {<<i, j>>}, Move("Next"))
              = forwardInLevel(l, i, TableMoved(l.files[i], {j}, Move("Next")))
         /\ LevelMoved(l, {<<i, j>>}, Move("Prev"))
              = backwardInLevel(l, i, TableMoved(l.files[i], {j}, Move("Prev")))
<1> DEFINE within(q, move) == {<<q[1], x>> : x \in TableMoved(l.files[q[1]], {q[2]}, move)}
           after(q) == IF within(q, Move("Next")) # {} THEN within(q, Move("Next"))
                       ELSE inLevelTable(l, q[1] + 1, Move("First"))
           before(q) == IF within(q, Move("Prev")) # {} THEN within(q, Move("Prev"))
                        ELSE inLevelTable(l, q[1] - 1, Move("Last"))
<1>1. PICK z : z = <<i, j>>
  OBVIOUS
<1>2. /\ LevelMoved(l, {z}, Move("Next")) = UNION {after(q) : q \in {z}}
      /\ LevelMoved(l, {z}, Move("Prev")) = UNION {before(q) : q \in {z}}
  BY DEF LevelMoved, RunMoved, InPart, Move, inLevelTable
<1>3. LevelMoved(l, {z}, Move("Next")) = after(z) /\ LevelMoved(l, {z}, Move("Prev")) = before(z)
  <2> HIDE DEF after, before
  <2> QED
    BY <1>2
<1>4. \A move : within(z, move) = At(i, TableMoved(l.files[i], {j}, move))
  BY <1>1 DEF At
<1>5. /\ LevelMoved(l, {z}, Move("Next")) =
           IF At(i, TableMoved(l.files[i], {j}, Move("Next"))) # {}
           THEN At(i, TableMoved(l.files[i], {j}, Move("Next")))
           ELSE inLevelTable(l, i + 1, Move("First"))
      /\ LevelMoved(l, {z}, Move("Prev")) =
           IF At(i, TableMoved(l.files[i], {j}, Move("Prev"))) # {}
           THEN At(i, TableMoved(l.files[i], {j}, Move("Prev")))
           ELSE inLevelTable(l, i - 1, Move("Last"))
  <2>1. z[1] = i
    BY <1>1
  <2> HIDE DEF within
  <2> QED
    BY <1>3, <1>4, <2>1
<1> QED
  BY <1>1, <1>5, LevelPart

\* Where they lead, in the level and among its entries.
LEMMA LevelTurns ==
  ASSUME NEW l \in Levels, NEW i \in 1 .. Len(l.index), NEW P, TablePos(l.files[i], P)
  PROVE  /\ LevelPos(l, forwardInLevel(l, i, P)) /\ LevelPos(l, backwardInLevel(l, i, P))
         /\ LevelEntry(l, forwardInLevel(l, i, P))
              = Forward(l.index, levelParts(l), i, TableEntry(l.files[i], P))
         /\ LevelEntry(l, backwardInLevel(l, i, P))
              = Backward(l.index, levelParts(l), i, TableEntry(l.files[i], P))
<1>1. /\ Len(l.index) \in Nat \ {0}
      /\ \A j \in 1 .. Len(l.index) :
           l.files[j] \in Tables /\ levelParts(l)[j] = TableEntries(l.files[j])
  BY LevelRun
<1>2. /\ LevelPos(l, At(i, P)) /\ LevelEntry(l, At(i, P)) = TableEntry(l.files[i], P)
      /\ TableEntry(l.files[i], P) = {} <=> P = {}
  <2>1. LevelPos(l, At(i, P)) /\ LevelEntry(l, At(i, P)) = TableEntry(l.files[i], P)
    BY InTable
  <2>2. TableEntry(l.files[i], P) = {} <=> P = {}
    BY InTable
  <2> QED
    BY <2>1, <2>2
<1>3. LevelPos(l, {}) /\ LevelEntry(l, {}) = {}
  BY DEF LevelPos, LevelEntry
<1>4. ASSUME NEW j \in 1 .. Len(l.index), NEW move \in {Move("First"), Move("Last")}
      PROVE  /\ LevelPos(l, At(j, TableMoved(l.files[j], {}, move)))
             /\ LevelEntry(l, At(j, TableMoved(l.files[j], {}, move)))
                  = MovedIn(levelParts(l)[j], {}, move)
  <2>1. TablePos(l.files[j], {}) /\ TableEntry(l.files[j], {}) = {}
    BY DEF TablePos, TableEntry
  <2>2. Movable(TableEntry(l.files[j], {}), move)
    BY <2>1 DEF Movable, Moves, Move
  <2>3. /\ TablePos(l.files[j], TableMoved(l.files[j], {}, move))
        /\ TableEntry(l.files[j], TableMoved(l.files[j], {}, move))
             = MovedIn(levelParts(l)[j], {}, move)
    <3>1. l.files[j] \in Tables /\ TableEntries(l.files[j]) = levelParts(l)[j]
      BY <1>1
    <3>2. TableEntry(l.files[j], TableMoved(l.files[j], {}, move))
            = MovedIn(TableEntries(l.files[j]), TableEntry(l.files[j], {}), move)
      BY <2>1, <2>2, <3>1, TableMoves, Zenon
    <3>3. TablePos(l.files[j], TableMoved(l.files[j], {}, move))
      BY <2>1, <2>2, <3>1, TableMoves, Zenon
    <3> QED
      BY <2>1, <3>1, <3>2, <3>3
  <2> QED
    BY <2>3, InTable
<1>5. ASSUME NEW j \in 1 .. Len(l.index)
      PROVE  /\ LevelPos(l, At(j, TableMoved(l.files[j], {}, Move("First"))))
             /\ LevelEntry(l, At(j, TableMoved(l.files[j], {}, Move("First"))))
                  = least(levelParts(l)[j])
             /\ LevelPos(l, At(j, TableMoved(l.files[j], {}, Move("Last"))))
             /\ LevelEntry(l, At(j, TableMoved(l.files[j], {}, Move("Last"))))
                  = greatest(levelParts(l)[j])
  BY <1>4, MoveCases
<1>6. CASE P # {}
  BY <1>2, <1>6 DEF forwardInLevel, backwardInLevel, Forward, Backward
<1>7. CASE P = {}
  <2>1. i < Len(l.index) => i + 1 \in 1 .. Len(l.index)
    BY <1>1
  <2>2. 1 < i => i - 1 \in 1 .. Len(l.index)
    BY <1>1
  <2>3. /\ LevelPos(l, forwardInLevel(l, i, P))
        /\ LevelEntry(l, forwardInLevel(l, i, P))
              = Forward(l.index, levelParts(l), i, TableEntry(l.files[i], P))
    BY <1>2, <1>3, <1>5, <1>7, <2>1 DEF forwardInLevel, Forward
  <2>4. /\ LevelPos(l, backwardInLevel(l, i, P))
        /\ LevelEntry(l, backwardInLevel(l, i, P))
              = Backward(l.index, levelParts(l), i, TableEntry(l.files[i], P))
    BY <1>2, <1>3, <1>5, <1>7, <2>2 DEF backwardInLevel, Backward
  <2> QED
    BY <2>3, <2>4
<1> QED
  BY <1>6, <1>7

\* A level's iterator moves among the entries of the level.
LEMMA LevelMoves ==
  ASSUME NEW l \in Levels, NEW p, LevelPos(l, p),
         NEW move, Movable(LevelEntry(l, p), move)
  PROVE  /\ LevelPos(l, LevelMoved(l, p, move))
         /\ LevelEntry(l, LevelMoved(l, p, move))
              = MovedIn(LevelEntries(l), LevelEntry(l, p), move)
<1> DEFINE n == Len(l.index)
           parts == levelParts(l)
<1>1. /\ n \in Nat \ {0} /\ Run(l.index, parts)
      /\ LevelEntries(l) = AllOf(l.index, parts)
      /\ \A j \in 1 .. n : l.files[j] \in Tables /\ parts[j] = TableEntries(l.files[j])
  BY LevelRun
<1>2. ASSUME NEW j \in 1 .. n, NEW P, TablePos(l.files[j], P),
             NEW m, Movable(TableEntry(l.files[j], P), m)
      PROVE  /\ TablePos(l.files[j], TableMoved(l.files[j], P, m))
             /\ TableEntry(l.files[j], TableMoved(l.files[j], P, m))
                  = MovedIn(parts[j], TableEntry(l.files[j], P), m)
  BY <1>1, <1>2, TableMoves
<1>3. ASSUME NEW j \in 1 .. n,
             NEW m \in {Move("First"), Move("Last")} \cup {SeekTo(k) : k \in Point}
      PROVE  /\ TablePos(l.files[j], TableMoved(l.files[j], {}, m))
             /\ TableEntry(l.files[j], TableMoved(l.files[j], {}, m))
                  = MovedIn(parts[j], {}, m)
  <2>1. TablePos(l.files[j], {}) /\ TableEntry(l.files[j], {}) = {}
    BY DEF TablePos, TableEntry
  <2>2. Movable(TableEntry(l.files[j], {}), m)
    BY <2>1 DEF Movable, Moves, Move, SeekTo
  <2> HIDE DEF parts
  <2> QED
    BY <1>2, <2>1, <2>2
<1> HIDE DEF n, parts
<1>4. CASE move = Move("First")
  <2>1. LevelMoved(l, p, move) = At(1, TableMoved(l.files[1], {}, move)) /\ 1 \in 1 .. n
    BY <1>1, <1>4, LevelMovedToEnds
  <2>2. /\ LevelPos(l, LevelMoved(l, p, move))
        /\ LevelEntry(l, LevelMoved(l, p, move)) = MovedIn(parts[1], {}, move)
    BY <1>3, <1>4, <2>1, InTable DEF n
  <2>3. MovedIn(LevelEntries(l), LevelEntry(l, p), move) = MovedIn(parts[1], {}, move)
    <3>1. least(AllOf(l.index, parts)) = least(parts[1])
      BY <1>1, RunEnds
    <3>2. MovedIn(LevelEntries(l), LevelEntry(l, p), Move("First")) = least(LevelEntries(l))
      BY MoveCases
    <3>3. MovedIn(parts[1], {}, Move("First")) = least(parts[1])
      BY MoveCases
    <3> QED
      BY <1>1, <1>4, <3>1, <3>2, <3>3
  <2> QED
    BY <2>2, <2>3
<1>5. CASE move = Move("Last")
  <2>1. LevelMoved(l, p, move) = At(n, TableMoved(l.files[n], {}, move)) /\ n \in 1 .. n
    BY <1>1, <1>5, LevelMovedToEnds DEF n
  <2>2. /\ LevelPos(l, LevelMoved(l, p, move))
        /\ LevelEntry(l, LevelMoved(l, p, move)) = MovedIn(parts[n], {}, move)
    <3>1. PICK k \in 1 .. n : k = n
      BY <2>1
    <3>2. /\ TablePos(l.files[k], TableMoved(l.files[k], {}, move))
          /\ TableEntry(l.files[k], TableMoved(l.files[k], {}, move)) = MovedIn(parts[k], {}, move)
      BY <1>3, <1>5
    <3>3. PICK P : P = TableMoved(l.files[k], {}, move)
      OBVIOUS
    <3>4. /\ LevelPos(l, At(k, P))
          /\ LevelEntry(l, At(k, P)) = TableEntry(l.files[k], P)
      BY <3>1, <3>2, <3>3, InTable DEF n
    <3> QED
      BY <2>1, <3>1, <3>2, <3>3, <3>4
  <2>3. MovedIn(LevelEntries(l), LevelEntry(l, p), move) = MovedIn(parts[n], {}, move)
    <3>1. greatest(AllOf(l.index, parts)) = greatest(parts[n])
      BY <1>1, RunEnds DEF n
    <3>2. MovedIn(LevelEntries(l), LevelEntry(l, p), Move("Last")) = greatest(LevelEntries(l))
      BY MoveCases
    <3>3. MovedIn(parts[n], {}, Move("Last")) = greatest(parts[n])
      BY MoveCases
    <3> QED
      BY <1>1, <1>5, <3>1, <3>2, <3>3
  <2> QED
    BY <2>2, <2>3
<1>6. ASSUME NEW k \in Point, move = SeekTo(k)
      PROVE  /\ LevelPos(l, LevelMoved(l, p, move))
             /\ LevelEntry(l, LevelMoved(l, p, move))
                  = MovedIn(LevelEntries(l), LevelEntry(l, p), move)
  <2>1. MovedIn(LevelEntries(l), LevelEntry(l, p), move)
          = MovedIn(AllOf(l.index, parts), {}, SeekTo(k))
    BY <1>1, <1>6 DEF MovedIn, SeekTo
  <2>2. CASE IndexSeek(l.index, k) = {} /\ MovedIn(AllOf(l.index, parts), {}, SeekTo(k)) = {}
    <3>1. LevelMoved(l, p, move) = {}
      BY <1>6, <2>2, LevelMovedToKey
    <3> QED
      BY <2>1, <2>2, <3>1 DEF LevelPos, LevelEntry
  <2>3. ASSUME NEW i \in 1 .. n, IndexSeek(l.index, k) = {i},
               MovedIn(AllOf(l.index, parts), {}, SeekTo(k))
                 = Forward(l.index, parts, i, MovedIn(parts[i], {}, SeekTo(k)))
        PROVE  /\ LevelPos(l, LevelMoved(l, p, move))
               /\ LevelEntry(l, LevelMoved(l, p, move))
                    = MovedIn(LevelEntries(l), LevelEntry(l, p), move)
    <3>1. LevelMoved(l, p, move) = forwardInLevel(l, i, TableMoved(l.files[i], {}, move))
      BY <1>6, <2>3, LevelMovedToKey DEF n
    <3>2. /\ TablePos(l.files[i], TableMoved(l.files[i], {}, move))
          /\ TableEntry(l.files[i], TableMoved(l.files[i], {}, move))
               = MovedIn(parts[i], {}, move)
      BY <1>3, <1>6
    <3>3. /\ LevelPos(l, LevelMoved(l, p, move))
          /\ LevelEntry(l, LevelMoved(l, p, move))
               = Forward(l.index, parts, i, MovedIn(parts[i], {}, move))
      BY <3>1, <3>2, LevelTurns DEF n, parts
    <3> QED
      BY <1>6, <2>1, <2>3, <3>3
  <2> QED
    BY <1>1, <2>2, <2>3, RunSeeks DEF n
<1>7. CASE move \in {Move("Next"), Move("Prev")}
  <2>1. LevelEntry(l, p) # {}
    BY <1>7 DEF Movable, Move
  <2>2. PICK i \in 1 .. n : \E q : \E x \in parts[i] :
          /\ p = {<<i, q>>} /\ TablePos(l.files[i], {q})
          /\ LevelEntry(l, p) = TableEntry(l.files[i], {q})
          /\ LevelEntry(l, p) = {x}
    <3>1. PICK i \in 1 .. Len(l.index) : \E q : \E c \in levelParts(l)[i] :
            /\ p = {<<i, q>>} /\ TablePos(l.files[i], {q})
            /\ LevelEntry(l, p) = TableEntry(l.files[i], {q})
            /\ LevelEntry(l, p) = {c} /\ c \in LevelEntries(l)
      BY <2>1, LevelAt
    <3> QED
      BY <3>1 DEF n, parts
  <2>3. PICK j, c : /\ p = {<<i, j>>} /\ TablePos(l.files[i], {j})
                    /\ LevelEntry(l, p) = TableEntry(l.files[i], {j})
                    /\ LevelEntry(l, p) = {c} /\ c \in parts[i]
    BY <2>2
  <2>4. /\ TablePos(l.files[i], TableMoved(l.files[i], {j}, move))
        /\ TableEntry(l.files[i], TableMoved(l.files[i], {j}, move))
             = MovedIn(parts[i], {c}, move)
    <3>1. Movable(TableEntry(l.files[i], {j}), move)
      BY <2>3
    <3> QED
      BY <1>2, <2>3, <3>1
  <2>5. CASE move = Move("Next")
    <3>1. LevelMoved(l, p, move) = forwardInLevel(l, i, TableMoved(l.files[i], {j}, move))
      <4>1. i \in 1 .. Len(l.index) /\ p = {<<i, j>>}
        BY <2>3 DEF n
      <4>2. LevelMoved(l, p, Move("Next"))
              = forwardInLevel(l, i, TableMoved(l.files[i], {j}, Move("Next")))
        BY <4>1, LevelStepped
      <4> QED
        BY <2>5, <4>2
    <3>2. /\ LevelPos(l, LevelMoved(l, p, move))
          /\ LevelEntry(l, LevelMoved(l, p, move))
               = Forward(l.index, parts, i, MovedIn(parts[i], {c}, move))
      BY <2>4, <3>1, LevelTurns DEF n, parts
    <3>3. MovedIn(AllOf(l.index, parts), {c}, move)
            = Forward(l.index, parts, i, MovedIn(parts[i], {c}, move))
      <4>1. Run(l.index, parts) /\ i \in 1 .. Len(l.index) /\ c \in parts[i]
        BY <1>1, <2>3 DEF n
      <4>2. MovedIn(AllOf(l.index, parts), {c}, Move("Next"))
              = Forward(l.index, parts, i, MovedIn(parts[i], {c}, Move("Next")))
        BY <4>1, RunNext
      <4> QED
        BY <2>5, <4>2
    <3> QED
      BY <1>1, <2>3, <3>2, <3>3
  <2>6. CASE move = Move("Prev")
    <3>1. LevelMoved(l, p, move) = backwardInLevel(l, i, TableMoved(l.files[i], {j}, move))
      <4>1. i \in 1 .. Len(l.index) /\ p = {<<i, j>>}
        BY <2>3 DEF n
      <4>2. LevelMoved(l, p, Move("Prev"))
              = backwardInLevel(l, i, TableMoved(l.files[i], {j}, Move("Prev")))
        BY <4>1, LevelStepped
      <4> QED
        BY <2>6, <4>2
    <3>2. /\ LevelPos(l, LevelMoved(l, p, move))
          /\ LevelEntry(l, LevelMoved(l, p, move))
               = Backward(l.index, parts, i, MovedIn(parts[i], {c}, move))
      BY <2>4, <3>1, LevelTurns DEF n, parts
    <3>3. MovedIn(AllOf(l.index, parts), {c}, move)
            = Backward(l.index, parts, i, MovedIn(parts[i], {c}, move))
      <4>1. Run(l.index, parts) /\ i \in 1 .. Len(l.index) /\ c \in parts[i]
        BY <1>1, <2>3 DEF n
      <4>2. MovedIn(AllOf(l.index, parts), {c}, Move("Prev"))
              = Backward(l.index, parts, i, MovedIn(parts[i], {c}, Move("Prev")))
        <5>1. PICK index, q, h : index = l.index /\ q = parts /\ h = i
          OBVIOUS
        <5>2. Run(index, q) /\ h \in 1 .. Len(index) /\ c \in q[h]
          BY <4>1, <5>1
        <5>3. MovedIn(AllOf(index, q), {c}, Move("Prev"))
                = Backward(index, q, h, MovedIn(q[h], {c}, Move("Prev")))
          BY <5>2, RunPrev
        <5> QED
          BY <5>1, <5>3
      <4> QED
        BY <2>6, <4>2
    <3> QED
      BY <1>1, <2>3, <3>2, <3>3
  <2> QED
    BY <1>7, <2>5, <2>6
<1> QED
  BY <1>4, <1>5, <1>6, <1>7 DEF Movable, Moves
-----------------------------------------------------------------------------
(* The invariant *)

\* The entries of each child, where each child is, and what the iterator may
\* show of them: the entries not newer than its sequence number, of which the
\* newest of a key is live unless it is a deletion.
Sources(m, ts) == [i \in 1 .. Len(ts) + 1 |-> IF i = 1 THEN m ELSE EntriesOf(ts[i - 1])]
Heads(ts, ch) == [i \in 1 .. Len(ts) + 1 |-> IF i = 1 THEN ch[1] ELSE EntryAt(ts[i - 1], ch[i])]
Seen(m, ts, s) == {x \in entriesIn(m, ts) : x.seq <= s}
Live(V) == {e \in V : ~e.del /\ \A x \in V : x.key = e.key => x.seq <= e.seq}

\* Of the present state: the children's entries, where they are, what is visible.
Src == Sources(mem, tables)
Hd == Heads(tables, children)
Vis == Seen(mem, tables, sequence)

\* No child is before c, or after it.
FirstIn(h, c) == \A i \in DOMAIN h : \A y \in h[i] : ~Before(y, c)
LastIn(h, c)  == \A i \in DOMAIN h : \A y \in h[i] : ~Before(c, y)

\* No child has gone past an entry of X it has, forward or backward.
Covers(s, h, X)   == \A i \in DOMAIN s : \A x \in s[i] \cap X : \E y \in h[i] : ~Before(x, y)
CoversBack(s, h, X) == \A i \in DOMAIN s : \A x \in s[i] \cap X : \E y \in h[i] : ~Before(y, x)

\* The entries of X after c, and those before it.
After(X, c)  == {x \in X : Before(c, x)}
Under(X, c)  == {x \in X : Before(x, c)}

\* The MergingIterator can go on forward, or backward among the entries of X.
Ahead == current # 0 /\ FirstIn(Hd, iterEntry) /\ Covers(Src, Hd, After(Vis, iterEntry))
Behind(X) == current # 0 /\ LastIn(Hd, iterEntry) /\ CoversBack(Src, Hd, Under(X, iterEntry))

\* The keys a call asks for.
InRange(A, from, k) == \A call \in A :
  /\ call.op = "Seek" => k >= call.key
  /\ call.op = "Next" => \A c \in from : k > c.key
  /\ call.op = "Prev" => \A c \in from : k < c.key

\* The entries the running call may show, and those of the keys before k.
Ranged(X) == {x \in X : InRange(asked, last, x.key)}
Lower(X, k) == {x \in X : x.key < k}

\* What was asked, and the key shown when it was.
AskedOf(ops) == \E call \in Calls : asked = {call} /\ call.op \in ops
LastKey(k) == \E c \in [key : Nat, seq : Nat] : last = {c} /\ c.key = k

\* Where a child can be: child 1 on a node of the memtable.
EntryPos(s, p) == IF isTable(s) THEN TablePos(s, p) ELSE LevelPos(s, p)
ChildPos(i, p) ==
  IF i = 1 THEN p = {} \/ \E e \in mem : p = {e} ELSE EntryPos(tables[i - 1], p)

\* The types.  The current child of the MergingIterator is on an entry.
DatabaseOK ==
  IsDatabase([mem |-> mem, tables |-> tables, sequence |-> sequence, last |-> lastSequence])

ChildrenOK ==
  /\ DOMAIN children = 1 .. Len(tables) + 1
  /\ \A i \in DOMAIN children : ChildPos(i, children[i])
  /\ current \in 0 .. Len(tables) + 1
  /\ current # 0 => Hd[current] # {}

FieldsOK ==
  /\ mergeDirection \in {"kForward", "kReverse"} /\ direction \in {"kForward", "kReverse"}
  /\ valid \in BOOLEAN /\ skipping \in BOOLEAN /\ found \in BOOLEAN
  /\ savedKey \in Nat /\ savedValue \in Nat
  /\ IF pc = "idle" THEN asked = {} /\ last = {}
     ELSE /\ pc \in {"return", "findNext", "findPrev", "turnForward", "turnBack", "back"}
          /\ \E call \in Calls : asked = {call}

\* The iterator stands on an entry, going forward or going backward.
OnEntryForward ==
  direction = "kForward" /\ mergeDirection = "kForward" /\ Ahead /\ iterEntry \in Live(Vis)

\* Going backward, it is on an entry of an earlier key, or through: the entries
\* of the key it shows are behind it.
Gap ==
  IF current = 0 THEN Lower(Vis, savedKey) = {}
  ELSE /\ iterEntry.key < savedKey
       /\ \A x \in Lower(Vis, savedKey) : ~Before(iterEntry, x)
       /\ Behind(Lower(Vis, savedKey))

OnEntryReverse ==
  /\ direction = "kReverse" /\ mergeDirection = "kReverse" /\ Gap
  /\ \E s \in Live(Vis) : s.key = savedKey /\ s.seq = savedValue

\* Between two calls.
Resting == pc \in {"idle", "return"} /\ valid => OnEntryForward \/ OnEntryReverse

\* A change of direction under way in Next, when the other children have sought
\* the current entry.
TurningForward == pc = "turnForward" =>
  /\ AskedOf({"Next"}) /\ LastKey(savedKey)
  /\ direction = "kForward" /\ mergeDirection = "kReverse" /\ Ahead
  /\ iterEntry.key < savedKey /\ \A x \in Lower(Vis, savedKey) : ~Before(iterEntry, x)

\* The loop of FindNextUserEntry has gone past no live entry in range, nor past
\* a part of the entries of a key that is not hidden.
Unhidden(X) == {x \in X : ~hidden(x)}
FindingNext == pc = "findNext" =>
  /\ AskedOf({"SeekToFirst", "Seek", "Next"})
  /\ direction = "kForward" /\ mergeDirection = "kForward" /\ Ahead
  /\ \A x \in Ranged(Live(Vis)) : ~Before(x, iterEntry) /\ ~hidden(x)
  /\ \A x \in Vis : ~Before(x, iterEntry) =>
       /\ skipping => x.key >= savedKey
       /\ ~hidden(x) => /\ InRange(asked, last, x.key)
                        /\ \A y \in Vis : y.key = x.key => ~Before(y, iterEntry)

\* The same in Prev, and its loop that leaves the current key.
TurningBack == pc = "turnBack" =>
  /\ AskedOf({"Prev"}) /\ LastKey(savedKey)
  /\ mergeDirection = "kForward" /\ current # 0 /\ FirstIn(Hd, iterEntry)
  /\ savedKey = iterEntry.key

GoingBack == pc = "back" =>
  /\ AskedOf({"Prev"}) /\ LastKey(savedKey)
  /\ mergeDirection = "kReverse" /\ Behind(Lower(Vis, savedKey))
  /\ iterEntry.key >= savedKey

\* The loop of FindPrevUserEntry.  What is saved is no deletion, and no live key
\* in range is greater; the loop has just met it, so that of its key only newer
\* entries can follow.  If nothing is saved, no live entry in range was passed.
Saved(s) ==
  /\ s \in Vis /\ s.key = savedKey /\ s.seq = savedValue /\ ~s.del
  /\ InRange(asked, last, s.key)
  /\ \A x \in Ranged(Live(Vis)) : x.key <= s.key

FindingPrev == pc = "findPrev" =>
  /\ AskedOf({"SeekToLast", "Prev"})
  /\ AskedOf({"Prev"}) => \E k \in Nat : LastKey(k)
  /\ direction = "kReverse" /\ mergeDirection = "kReverse" /\ Behind(Ranged(Vis))
  /\ InRange(asked, last, iterEntry.key)
  /\ found => \E s \in Vis :
                 /\ Saved(s) /\ ~Before(s, iterEntry)
                 /\ \A y \in Ranged(Vis) : Before(iterEntry, y) => ~Before(y, s)
  /\ ~found => \A x \in Ranged(Live(Vis)) : ~Before(iterEntry, x)

\* The call's answer is what is shown.
Answered == pc = "return" =>
  IF ~valid THEN Ranged(Live(Vis)) = {}
  ELSE \E e \in Ranged(Live(Vis)) :
         /\ shown = {[key |-> e.key, seq |-> e.seq]}
         /\ \A x \in Ranged(Live(Vis)) :
              IF AskedOf({"SeekToLast", "Prev"}) THEN x.key <= e.key ELSE e.key <= x.key

\* The invariant.
TypeOK == DatabaseOK /\ ChildrenOK /\ FieldsOK

IteratorInv ==
  /\ TypeOK
  /\ Resting /\ TurningForward /\ FindingNext
  /\ TurningBack /\ GoingBack /\ FindingPrev /\ Answered

-----------------------------------------------------------------------------
(* The children *)

\* A source is a table or a level; its iterator moves among its entries.
LEMMA SourceMoves ==
  ASSUME NEW s \in Tables \cup Levels, NEW p, EntryPos(s, p)
  PROVE  /\ Lined(EntriesOf(s))
         /\ EntryAt(s, p) = {} \/ \E e \in EntriesOf(s) : EntryAt(s, p) = {e}
         /\ \A move : Movable(EntryAt(s, p), move) =>
              /\ EntryPos(s, Moved(s, p, move))
              /\ EntryAt(s, Moved(s, p, move)) = MovedIn(EntriesOf(s), EntryAt(s, p), move)
<1>1. CASE s \in Tables
  <2>1. isTable(s)
    BY <1>1 DEF Tables, isTable
  <2>2. Lined(TableEntries(s)) /\ TablePos(s, p)
    BY <1>1, <2>1, TableLined DEF EntryPos
  <2>3. TableEntry(s, p) = {} \/ \E e \in TableEntries(s) : TableEntry(s, p) = {e}
    BY <1>1, <2>2, TableOn
  <2>4. \A move : Movable(TableEntry(s, p), move) =>
          /\ TablePos(s, TableMoved(s, p, move))
          /\ TableEntry(s, TableMoved(s, p, move))
               = MovedIn(TableEntries(s), TableEntry(s, p), move)
    BY <1>1, <2>2, TableMoves
  <2> QED
    BY <2>1, <2>2, <2>3, <2>4 DEF EntriesOf, EntryAt, EntryPos, Moved
<1>2. CASE s \in Levels
  <2>1. ~isTable(s)
    BY <1>2 DEF Levels, isTable
  <2>2. Lined(LevelEntries(s)) /\ LevelPos(s, p)
    <3>1. Lined(LevelEntries(s))
      BY <1>2, LevelRun, AllLined
    <3>2. LevelPos(s, p)
      BY <2>1 DEF EntryPos
    <3> QED
      BY <3>1, <3>2
  <2>3. LevelEntry(s, p) = {} \/ \E e \in LevelEntries(s) : LevelEntry(s, p) = {e}
    <3>1. \/ p = {} /\ LevelEntry(s, p) = {}
          \/ \E i \in 1 .. Len(s.index) : \E q : \E c \in levelParts(s)[i] :
               /\ p = {<<i, q>>} /\ TablePos(s.files[i], {q})
               /\ LevelEntry(s, p) = TableEntry(s.files[i], {q})
               /\ LevelEntry(s, p) = {c} /\ c \in LevelEntries(s)
      BY <1>2, <2>2, LevelAt
    <3> QED
      BY <3>1
  <2>4. \A move : Movable(LevelEntry(s, p), move) =>
          /\ LevelPos(s, LevelMoved(s, p, move))
          /\ LevelEntry(s, LevelMoved(s, p, move))
               = MovedIn(LevelEntries(s), LevelEntry(s, p), move)
    BY <1>2, <2>2, LevelMoves
  <2> QED
    BY <2>1, <2>2, <2>3, <2>4 DEF EntriesOf, EntryAt, EntryPos, Moved
<1> QED
  BY <1>1, <1>2

\* The entries of the database and how they lie in its sources.
LEMMA DatabaseFacts ==
  ASSUME DatabaseOK
  PROVE  /\ Len(tables) \in Nat /\ DOMAIN Src = 1 .. Len(tables) + 1
         /\ sequence \in Nat /\ lastSequence \in Nat /\ sequence <= lastSequence
         /\ \A i \in DOMAIN Src : Lined(Src[i]) /\ Src[i] \subseteq Entry
         /\ \A x : x \in entriesIn(mem, tables) <=> \E i \in DOMAIN Src : x \in Src[i]
         /\ \A x \in entriesIn(mem, tables) : x \in Entry /\ x \in Point /\ x.seq <= lastSequence
         /\ \A x, y \in entriesIn(mem, tables) :
              (x.seq = y.seq => x = y) /\ (x # y => Before(x, y) \/ Before(y, x))
         /\ Lined(mem) /\ mem \subseteq entriesIn(mem, tables)
         /\ \A i \in 1 .. Len(tables) : tables[i] \in Tables \cup Levels
<1> DEFINE n == Len(tables)
           E == entriesIn(mem, tables)
<1>1. /\ mem \subseteq Entry /\ IsFiniteSet(mem) /\ tables \in Seq(Tables \cup Levels)
      /\ lastSequence \in Nat /\ sequence \in 0 .. lastSequence
      /\ \A e \in E : e.seq <= lastSequence /\ \A f \in E : e.seq = f.seq => e = f
  BY DEF DatabaseOK, IsDatabase
<1>2. /\ n \in Nat /\ DOMAIN tables = 1 .. n
      /\ \A i \in 1 .. n : tables[i] \in Tables \cup Levels
  BY <1>1
<1>3. \A x : x \in E <=> x \in mem \/ \E i \in 1 .. n : x \in EntriesOf(tables[i])
  BY <1>2 DEF entriesIn
<1> HIDE DEF E
<1>4. /\ DOMAIN Src = 1 .. n + 1 /\ Src[1] = mem
      /\ \A i \in 1 .. n : i + 1 \in 1 .. n + 1 /\ Src[i + 1] = EntriesOf(tables[i])
      /\ \A i \in 1 .. n + 1 : i = 1 \/ (i - 1 \in 1 .. n /\ Src[i] = EntriesOf(tables[i - 1]))
  <2>1. 1 \in 1 .. n + 1
    BY <1>2
  <2>2. \A i \in 1 .. n : i + 1 \in 1 .. n + 1 /\ i + 1 # 1 /\ (i + 1) - 1 = i
    BY <1>2
  <2>3. \A i \in 1 .. n + 1 : i = 1 \/ (i - 1 \in 1 .. n /\ i # 1)
    BY <1>2
  <2>4. Src = [i \in 1 .. n + 1 |-> IF i = 1 THEN mem ELSE EntriesOf(tables[i - 1])]
    BY DEF Src, Sources
  <2> HIDE DEF n
  <2> QED
    BY <2>1, <2>2, <2>3, <2>4
<1>5. \A x : x \in E <=> \E i \in DOMAIN Src : x \in Src[i]
  <2>1. ASSUME NEW x \in E
        PROVE  \E i \in DOMAIN Src : x \in Src[i]
    <3>1. CASE x \in mem
      <4>1. 1 \in DOMAIN Src
        BY <1>2, <1>4
      <4> QED
        BY <1>4, <3>1, <4>1
    <3>2. CASE \E i \in 1 .. n : x \in EntriesOf(tables[i])
      BY <1>4, <3>2
    <3> QED
      BY <1>3, <3>1, <3>2
  <2>2. ASSUME NEW x, NEW i \in DOMAIN Src, x \in Src[i]
        PROVE  x \in E
    BY <1>3, <1>4, <2>2
  <2> QED
    BY <2>1, <2>2
<1>6. \A i \in 1 .. n : Lined(EntriesOf(tables[i]))
  <2>1. \A s \in Tables \cup Levels : EntryPos(s, {})
    BY DEF EntryPos, TablePos, LevelPos
  <2> QED
    BY <1>2, <2>1, SourceMoves
<1>7. \A x \in E : x \in Entry /\ x \in Point
  BY <1>1, <1>3, <1>6 DEF Lined, Entry
<1>8. \A x, y \in E : x # y => Before(x, y) \/ Before(y, x)
  <2> TAKE x, y \in E
  <2>1. x \in Point /\ y \in Point /\ (x.seq = y.seq => x = y)
    BY <1>1, <1>7 DEF E
  <2> QED
    BY <2>1 DEF Point, Before
<1>9. Lined(mem)
  <2>1. mem \subseteq E
    BY <1>3
  <2> QED
    BY <1>1, <1>8, <2>1 DEF Lined
<1>10. \A i \in DOMAIN Src : Lined(Src[i]) /\ Src[i] \subseteq Entry
  BY <1>4, <1>6, <1>9 DEF Lined
<1>11. sequence \in Nat /\ lastSequence \in Nat /\ sequence <= lastSequence
  BY <1>1
<1> QED
  BY <1>1, <1>2, <1>3, <1>4, <1>5, <1>7, <1>8, <1>9, <1>10, <1>11 DEF E

\* What children of a database are, wherever they stand.
ChildrenAt(ch) ==
  DOMAIN ch = 1 .. Len(tables) + 1 /\ \A i \in DOMAIN ch : ChildPos(i, ch[i])

\* A child stands on an entry of its source or on none.
LEMMA HeadFacts ==
  ASSUME DatabaseOK, NEW ch, ChildrenAt(ch)
  PROVE  /\ DOMAIN Heads(tables, ch) = DOMAIN Src /\ DOMAIN ch = DOMAIN Src
         /\ \A i \in DOMAIN Src :
              /\ childEntry(ch, i) = Heads(tables, ch)[i]
              /\ \/ Heads(tables, ch)[i] = {}
                 \/ \E e \in Src[i] : Heads(tables, ch)[i] = {e}
<1> DEFINE h == Heads(tables, ch)
<1>1. Len(tables) \in Nat /\ DOMAIN Src = 1 .. Len(tables) + 1
      /\ \A i \in 1 .. Len(tables) : tables[i] \in Tables \cup Levels
  BY DatabaseFacts
<1>2. DOMAIN h = 1 .. Len(tables) + 1
      /\ \A i \in DOMAIN h : h[i] = IF i = 1 THEN ch[1] ELSE EntryAt(tables[i - 1], ch[i])
  BY DEF Heads
<1>3. Src = [i \in 1 .. Len(tables) + 1 |-> IF i = 1 THEN mem ELSE EntriesOf(tables[i - 1])]
  BY DEF Src, Sources
<1> HIDE DEF h
<1>4. ASSUME NEW i \in DOMAIN Src
      PROVE  /\ childEntry(ch, i) = h[i]
             /\ h[i] = {} \/ \E e \in Src[i] : h[i] = {e}
  <2>1. childEntry(ch, i) = h[i]
    BY <1>1, <1>2 DEF childEntry
  <2>2. ChildPos(i, ch[i])
    BY <1>1 DEF ChildrenAt
  <2>3. CASE i = 1
    BY <1>1, <1>2, <1>3, <2>1, <2>2, <2>3 DEF ChildPos
  <2>4. CASE i # 1
    <3>1. i - 1 \in 1 .. Len(tables) /\ Src[i] = EntriesOf(tables[i - 1])
          /\ h[i] = EntryAt(tables[i - 1], ch[i])
      BY <1>1, <1>2, <1>3, <2>4
    <3>2. EntryPos(tables[i - 1], ch[i])
      BY <2>2, <2>4 DEF ChildPos
    <3>3. PICK s \in Tables \cup Levels : s = tables[i - 1]
      BY <1>1, <3>1
    <3> PICK p : p = ch[i]
      OBVIOUS
    <3>4. EntryAt(s, p) = {} \/ \E e \in EntriesOf(s) : EntryAt(s, p) = {e}
      BY <3>2, <3>3, SourceMoves
    <3> QED
      BY <2>1, <3>1, <3>3, <3>4
  <2> QED
    BY <2>3, <2>4
<1> QED
  BY <1>1, <1>2, <1>4 DEF h, ChildrenAt

\* The children ch, of which child i has moved.
LEMMA ChildMoves ==
  ASSUME DatabaseOK, NEW ch, ChildrenAt(ch), NEW i \in DOMAIN Src,
         NEW move, Movable(Heads(tables, ch)[i], move)
  PROVE  /\ ChildPos(i, childMoved(ch, i, move))
         /\ \A q : DOMAIN q = DOMAIN Src /\ q[i] = childMoved(ch, i, move) =>
              Heads(tables, q)[i] = MovedIn(Src[i], Heads(tables, ch)[i], move)
<1>1. Len(tables) \in Nat /\ DOMAIN Src = 1 .. Len(tables) + 1
      /\ \A j \in 1 .. Len(tables) : tables[j] \in Tables \cup Levels
  BY DatabaseFacts
<1>2. \A q : Heads(tables, q)[i] = IF i = 1 THEN q[1] ELSE EntryAt(tables[i - 1], q[i])
  BY <1>1 DEF Heads
<1>3. Src[i] = IF i = 1 THEN mem ELSE EntriesOf(tables[i - 1])
  BY <1>1 DEF Src, Sources
<1>4. ChildPos(i, ch[i])
  BY <1>1 DEF ChildrenAt
<1>5. CASE i = 1
  <2>1. childMoved(ch, i, move) = MovedIn(mem, ch[1], move)
    BY <1>5, MemMoves DEF childMoved
  <2>2. MovedIn(mem, ch[1], move) = {} \/ \E e \in mem : MovedIn(mem, ch[1], move) = {e}
    <3>1. PICK X \in SUBSET mem : \/ MovedIn(mem, ch[1], move) = least(X)
                                  \/ MovedIn(mem, ch[1], move) = greatest(X)
      <4>1. move \in Moves
        BY DEF Movable
      <4>2. CASE move = Move("First") \/ move = Move("Last")
        <5>1. mem \in SUBSET mem
          OBVIOUS
        <5>2. MovedIn(mem, ch[1], move) = least(mem) \/ MovedIn(mem, ch[1], move) = greatest(mem)
          BY <4>2, MoveCases
        <5> QED
          BY <5>1, <5>2
      <4>3. CASE \E t \in Point : move = SeekTo(t)
        <5>1. PICK t \in Point : move = SeekTo(t)
          BY <4>3
        <5>2. {e \in mem : ~Before(e, t)} \in SUBSET mem
          OBVIOUS
        <5>3. MovedIn(mem, ch[1], move) = least({e \in mem : ~Before(e, t)})
          BY <5>1 DEF MovedIn, SeekTo
        <5> QED
          BY <5>2, <5>3
      <4>4. CASE move = Move("Next")
        BY <4>4 DEF MovedIn, Move
      <4>5. CASE move = Move("Prev")
        BY <4>5 DEF MovedIn, Move
      <4> QED
        BY <4>1, <4>2, <4>3, <4>4, <4>5 DEF Moves
    <3>2. Lined(X)
      BY DatabaseFacts, PartLined
    <3>3. least({}) = {} /\ greatest({}) = {}
      BY DEF least, greatest
    <3>4. X # {} => \E e, f \in X : least(X) = {e} /\ greatest(X) = {f}
      BY <3>2, FirstAndLast
    <3> QED
      BY <3>1, <3>3, <3>4
  <2> QED
    BY <1>2, <1>3, <1>5, <2>1, <2>2 DEF ChildPos
<1>6. CASE i # 1
  <2>1. PICK s \in Tables \cup Levels : s = tables[i - 1]
    BY <1>1, <1>6
  <2> PICK p : p = ch[i]
    OBVIOUS
  <2>2. EntryPos(s, p) /\ Movable(EntryAt(s, p), move)
    BY <1>2, <1>4, <1>6, <2>1 DEF ChildPos
  <2>3. /\ EntryPos(s, Moved(s, p, move))
        /\ EntryAt(s, Moved(s, p, move)) = MovedIn(EntriesOf(s), EntryAt(s, p), move)
    BY <2>2, SourceMoves
  <2>4. childMoved(ch, i, move) = Moved(s, p, move)
    BY <1>6, <2>1 DEF childMoved
  <2>5. ChildPos(i, childMoved(ch, i, move))
    BY <1>6, <2>1, <2>3, <2>4 DEF ChildPos
  <2>6. ASSUME NEW q, q[i] = childMoved(ch, i, move)
        PROVE  Heads(tables, q)[i] = MovedIn(Src[i], Heads(tables, ch)[i], move)
    BY <1>2, <1>3, <1>6, <2>1, <2>3, <2>4, <2>6
  <2> QED
    BY <2>5, <2>6
<1> QED
  BY <1>5, <1>6

\* A child that has not moved stands where it stood.
LEMMA ChildStays ==
  ASSUME DatabaseOK, NEW i \in DOMAIN Src, NEW p, NEW q, p[i] = q[i]
  PROVE  Heads(tables, p)[i] = Heads(tables, q)[i]
<1>1. DOMAIN Src = 1 .. Len(tables) + 1
  BY DatabaseFacts
<1> QED
  BY <1>1 DEF Heads

\* What a move finds among the entries E: nothing it should find is passed over.
LEMMA MoveFinds ==
  ASSUME NEW E, Lined(E)
  PROVE  /\ \A at : /\ \A y \in MovedIn(E, at, Move("First")) : y \in E
                    /\ \A x \in E : \E y \in MovedIn(E, at, Move("First")) : ~Before(x, y)
         /\ \A at : /\ \A y \in MovedIn(E, at, Move("Last")) : y \in E
                    /\ \A x \in E : \E y \in MovedIn(E, at, Move("Last")) : ~Before(y, x)
         /\ \A at, t : /\ \A y \in MovedIn(E, at, SeekTo(t)) : y \in E /\ ~Before(y, t)
                       /\ \A x \in E : ~Before(x, t) =>
                            \E y \in MovedIn(E, at, SeekTo(t)) : ~Before(x, y)
         /\ \A c : /\ \A y \in MovedIn(E, {c}, Move("Next")) : y \in E /\ Before(c, y)
                   /\ \A x \in E : Before(c, x) =>
                        \E y \in MovedIn(E, {c}, Move("Next")) : ~Before(x, y)
         /\ \A c : /\ \A y \in MovedIn(E, {c}, Move("Prev")) : y \in E /\ Before(y, c)
                   /\ \A x \in E : Before(x, c) =>
                        \E y \in MovedIn(E, {c}, Move("Prev")) : ~Before(y, x)
<1>1. ASSUME NEW X \in SUBSET E
      PROVE  /\ \A y \in least(X) : y \in X
             /\ \A x \in X : \E y \in least(X) : ~Before(x, y)
             /\ \A y \in greatest(X) : y \in X
             /\ \A x \in X : \E y \in greatest(X) : ~Before(y, x)
  <2>1. Lined(X)
    BY PartLined
  <2>2. X # {} => \E e, f \in X : least(X) = {e} /\ greatest(X) = {f}
    BY <2>1, FirstAndLast
  <2> QED
    BY <2>1, <2>2, Extremes
<1>2. \A at : /\ \A y \in MovedIn(E, at, Move("First")) : y \in E
              /\ \A x \in E : \E y \in MovedIn(E, at, Move("First")) : ~Before(x, y)
  <2> TAKE at
  <2>1. MovedIn(E, at, Move("First")) = least(E)
    BY MoveCases
  <2>2. E \in SUBSET E
    OBVIOUS
  <2> QED
    BY <1>1, <2>1, <2>2
<1>3. \A at : /\ \A y \in MovedIn(E, at, Move("Last")) : y \in E
              /\ \A x \in E : \E y \in MovedIn(E, at, Move("Last")) : ~Before(y, x)
  <2> TAKE at
  <2>1. MovedIn(E, at, Move("Last")) = greatest(E)
    BY MoveCases
  <2>2. E \in SUBSET E
    OBVIOUS
  <2> QED
    BY <1>1, <2>1, <2>2
<1>4. ASSUME NEW at, NEW t
      PROVE  /\ \A y \in MovedIn(E, at, SeekTo(t)) : y \in E /\ ~Before(y, t)
             /\ \A x \in E : ~Before(x, t) =>
                  \E y \in MovedIn(E, at, SeekTo(t)) : ~Before(x, y)
  <2> DEFINE X == {e \in E : ~Before(e, t)}
  <2>1. MovedIn(E, at, SeekTo(t)) = least(X)
    BY DEF MovedIn, SeekTo
  <2>2. X \in SUBSET E /\ \A x : x \in X <=> x \in E /\ ~Before(x, t)
    OBVIOUS
  <2> HIDE DEF X
  <2> QED
    BY <1>1, <2>1, <2>2
<1>5. ASSUME NEW c
      PROVE  /\ \A y \in MovedIn(E, {c}, Move("Next")) : y \in E /\ Before(c, y)
             /\ \A x \in E : Before(c, x) =>
                  \E y \in MovedIn(E, {c}, Move("Next")) : ~Before(x, y)
  <2> DEFINE X == {e \in E : \A n \in {c} : Before(n, e)}
  <2>1. MovedIn(E, {c}, Move("Next")) = least(X)
    BY DEF MovedIn, Move
  <2>2. X \in SUBSET E /\ \A x : x \in X <=> x \in E /\ Before(c, x)
    OBVIOUS
  <2> HIDE DEF X
  <2>3. /\ \A y \in least(X) : y \in X
        /\ \A x \in X : \E y \in least(X) : ~Before(x, y)
    BY <1>1, <2>2
  <2> QED
    BY <2>1, <2>2, <2>3
<1>6. ASSUME NEW c
      PROVE  /\ \A y \in MovedIn(E, {c}, Move("Prev")) : y \in E /\ Before(y, c)
             /\ \A x \in E : Before(x, c) =>
                  \E y \in MovedIn(E, {c}, Move("Prev")) : ~Before(y, x)
  <2> DEFINE X == {e \in E : \A n \in {c} : Before(e, n)}
  <2>1. MovedIn(E, {c}, Move("Prev")) = greatest(X)
    BY DEF MovedIn, Move
  <2>2. X \in SUBSET E /\ \A x : x \in X <=> x \in E /\ Before(x, c)
    OBVIOUS
  <2> HIDE DEF X
  <2>3. /\ \A y \in greatest(X) : y \in X
        /\ \A x \in X : \E y \in greatest(X) : ~Before(y, x)
    BY <1>1, <2>2
  <2> QED
    BY <2>1, <2>2, <2>3
<1> QED
  BY <1>2, <1>3, <1>4, <1>5, <1>6

\* What Next and Prev find, for one entry.
LEMMA NextFinds ==
  ASSUME NEW E, Lined(E), NEW c
  PROVE  /\ \A y \in MovedIn(E, {c}, Move("Next")) : y \in E /\ Before(c, y)
         /\ \A x \in E : Before(c, x) =>
              \E y \in MovedIn(E, {c}, Move("Next")) : ~Before(x, y)
<1> DEFINE M(d) == MovedIn(E, {d}, Move("Next"))
           P(d) == /\ \A y \in M(d) : y \in E /\ Before(d, y)
                   /\ \A x \in E : Before(d, x) => \E y \in M(d) : ~Before(x, y)
<1>1. \A d : P(d)
  BY MoveFinds
<1> HIDE DEF P
<1>2. P(c)
  BY <1>1
<1> QED
  BY <1>2 DEF P

\* Prev finds the last entry before c.
LEMMA PrevFinds ==
  ASSUME NEW E, Lined(E), NEW c
  PROVE  /\ \A y \in MovedIn(E, {c}, Move("Prev")) : y \in E /\ Before(y, c)
         /\ \A x \in E : Before(x, c) =>
              \E y \in MovedIn(E, {c}, Move("Prev")) : ~Before(y, x)
<1> DEFINE M(d) == MovedIn(E, {d}, Move("Prev"))
           P(d) == /\ \A y \in M(d) : y \in E /\ Before(y, d)
                   /\ \A x \in E : Before(x, d) => \E y \in M(d) : ~Before(y, x)
<1>1. \A d : P(d)
  BY MoveFinds
<1> HIDE DEF P
<1>2. P(c)
  BY <1>1
<1> QED
  BY <1>2 DEF P

-----------------------------------------------------------------------------
(* The MergingIterator *)

\* The first and the last child are found.
LEMMA ExtremeChild ==
  ASSUME DatabaseOK, NEW ch, ChildrenAt(ch)
  PROVE  /\ \/ /\ FindSmallest(ch) = 0 /\ FindLargest(ch) = 0
               /\ \A i \in DOMAIN Src : Heads(tables, ch)[i] = {}
            \/ /\ FindSmallest(ch) \in DOMAIN Src /\ FindLargest(ch) \in DOMAIN Src
               /\ \E c \in Src[FindSmallest(ch)] :
                    Heads(tables, ch)[FindSmallest(ch)] = {c} /\ FirstIn(Heads(tables, ch), c)
               /\ \E c \in Src[FindLargest(ch)] :
                    Heads(tables, ch)[FindLargest(ch)] = {c} /\ LastIn(Heads(tables, ch), c)
<1> DEFINE h == Heads(tables, ch)
           U == heads(ch)
<1>1. /\ DOMAIN h = DOMAIN Src /\ DOMAIN ch = DOMAIN Src
      /\ \A i \in DOMAIN Src : childEntry(ch, i) = h[i]
      /\ \A i \in DOMAIN Src : h[i] = {} \/ \E e \in Src[i] : h[i] = {e}
  BY HeadFacts
<1>2. Len(tables) \in Nat /\ DOMAIN Src = 1 .. Len(tables) + 1
  BY DatabaseFacts
<1> HIDE DEF h
<1>3. \A x : x \in U <=> \E i \in DOMAIN Src : x \in h[i]
  BY <1>1 DEF heads
<1>4. Lined(U)
  <2>1. IsFiniteSet(U)
    <3>1. IsFiniteSet(DOMAIN ch)
      BY <1>1, <1>2, FS_Interval
    <3>2. [i \in DOMAIN ch |-> childEntry(ch, i)]
            \in Surjection(DOMAIN ch, {childEntry(ch, i) : i \in DOMAIN ch})
      BY DEF Surjection
    <3>3. IsFiniteSet({childEntry(ch, i) : i \in DOMAIN ch})
      BY <3>1, <3>2, FS_Surjection
    <3>4. \A T \in {childEntry(ch, i) : i \in DOMAIN ch} : IsFiniteSet(T)
      <4>1. ASSUME NEW i \in DOMAIN ch
            PROVE  IsFiniteSet(childEntry(ch, i))
        <5>1. childEntry(ch, i) = {} \/ \E e : childEntry(ch, i) = {e}
          BY <1>1
        <5> QED
          BY <5>1, FS_EmptySet, FS_Singleton
      <4> QED
        BY <4>1
    <3> QED
      BY <3>3, <3>4, FS_UNION DEF heads
  <2>2. U \subseteq entriesIn(mem, tables)
    BY <1>1, <1>3, DatabaseFacts
  <2> HIDE DEF U
  <2> QED
    BY <2>1, <2>2, DatabaseFacts DEF Lined
<1>5. /\ onFirst(ch) = {i \in DOMAIN Src : \E e \in h[i] : \A x \in U : ~Before(x, e)}
      /\ onLast(ch) = {i \in DOMAIN Src : \E e \in h[i] : \A x \in U : ~Before(e, x)}
  BY <1>1 DEF onFirst, onLast
<1>6. \A e : /\ (\A x \in U : ~Before(x, e)) => FirstIn(h, e)
             /\ (\A x \in U : ~Before(e, x)) => LastIn(h, e)
  BY <1>1, <1>3 DEF FirstIn, LastIn
<1> HIDE DEF U
<1>7. CASE U = {}
  BY <1>3, <1>5, <1>7 DEF FindSmallest, FindLargest, h
<1>8. CASE U # {}
  <2>1. PICK a, b \in U : least(U) = {a} /\ greatest(U) = {b}
    BY <1>4, <1>8, FirstAndLast
  <2>2. (\A x \in U : ~Before(x, a)) /\ (\A x \in U : ~Before(b, x))
    BY <1>4, <2>1, Extremes
  <2>3. onFirst(ch) # {} /\ onLast(ch) # {}
    BY <1>3, <1>5, <2>1, <2>2
  <2>4. onFirst(ch) \in SUBSET Nat /\ onLast(ch) \in SUBSET Nat /\ IsFiniteSet(onLast(ch))
    <3>1. onFirst(ch) \subseteq 1 .. Len(tables) + 1 /\ onLast(ch) \subseteq 1 .. Len(tables) + 1
      BY <1>2, <1>5
    <3>2. IsFiniteSet(1 .. Len(tables) + 1)
      BY <1>2, FS_Interval
    <3> QED
      BY <1>2, <3>1, <3>2, FS_Subset
  <2>5. FindSmallest(ch) \in onFirst(ch)
    BY <2>3, <2>4, LeastOf DEF FindSmallest, Min
  <2>6. FindLargest(ch) \in onLast(ch)
    <3>1. \E n \in onLast(ch) : \A x \in onLast(ch) : n >= x
      BY <2>3, <2>4, GreatestOf
    <3> QED
      BY <2>3, <3>1 DEF FindLargest, Max
  <2>7. \E c \in Src[FindSmallest(ch)] : h[FindSmallest(ch)] = {c} /\ FirstIn(h, c)
    BY <1>1, <1>5, <1>6, <2>5
  <2>8. \E c \in Src[FindLargest(ch)] : h[FindLargest(ch)] = {c} /\ LastIn(h, c)
    BY <1>1, <1>5, <1>6, <2>6
  <2> QED
    BY <1>5, <2>5, <2>6, <2>7, <2>8 DEF h
<1> QED
  BY <1>7, <1>8

\* The element iterEntry takes from a child's entry.
anElement(A) == CHOOSE e \in A : TRUE

\* The current entry is one of the database.
LEMMA CurrentEntry ==
  ASSUME DatabaseOK, ChildrenOK, current # 0
  PROVE  /\ current \in DOMAIN Src /\ Hd[current] = {iterEntry} /\ iterEntry \in Src[current]
         /\ childEntry(children, current) = {iterEntry}
         /\ iterEntry \in entriesIn(mem, tables) /\ iterEntry \in Point
         /\ iterEntry.key \in Keys /\ iterEntry.key \in Nat /\ iterEntry.seq \in Nat
<1>1. ChildrenAt(children) /\ DOMAIN Src = 1 .. Len(tables) + 1
      /\ current \in 1 .. Len(tables) + 1 /\ Hd[current] # {}
  BY DatabaseFacts DEF ChildrenOK, ChildrenAt
<1>2. childEntry(children, current) = Hd[current]
      /\ \E e \in Src[current] : Hd[current] = {e}
  BY <1>1, HeadFacts DEF Hd
<1>3. PICK e \in Src[current] : childEntry(children, current) = {e}
  BY <1>2
<1>4. iterEntry = e
  <2>1. iterEntry = anElement(childEntry(children, current))
    BY DEF iterEntry, anElement
  <2>2. anElement({e}) = e
    BY DEF anElement
  <2> QED
    BY <1>3, <2>1, <2>2
<1>5. e \in entriesIn(mem, tables) /\ e \in Entry
  BY <1>1, <1>3, DatabaseFacts
<1> QED
  BY <1>1, <1>2, <1>3, <1>4, <1>5 DEF Entry, Point

\* While nobody writes, the database is what it was.
Steady == UNCHANGED dbVars

\* So the children's entries and what is visible stay.
LEMMA Unmoved ==
  ASSUME DatabaseOK, Steady
  PROVE  /\ DatabaseOK' /\ Src' = Src /\ Vis' = Vis
         /\ tables' = tables /\ mem' = mem /\ sequence' = sequence
         /\ \A ch : Heads(tables, ch)' = Heads(tables, ch)
         /\ \A i, p : ChildPos(i, p)' <=> ChildPos(i, p)
<1>1. tables' = tables /\ mem' = mem /\ sequence' = sequence /\ lastSequence' = lastSequence
  BY DEF Steady, dbVars
<1> QED
  BY <1>1 DEF DatabaseOK, Src, Vis, ChildPos

\* After a move of its children the MergingIterator stands on one of them, and
\* on the first or last entry of what they have not passed.
LEMMA Gone ==
  ASSUME DatabaseOK, Steady, NEW ch, ChildrenAt(ch), children' = ch,
         current' = FindSmallest(ch) \/ current' = FindLargest(ch)
  PROVE  /\ DatabaseOK' /\ ChildrenOK' /\ Hd' = Heads(tables, ch)
         /\ current' = 0 => \A i \in DOMAIN Src : Heads(tables, ch)[i] = {}
         /\ current' # 0 =>
              /\ current' \in DOMAIN Src /\ Heads(tables, ch)[current'] = {iterEntry'}
              /\ iterEntry' \in Src[current'] /\ iterEntry' \in entriesIn(mem, tables)
              /\ iterEntry' \in Point /\ iterEntry'.key \in Nat /\ iterEntry'.seq \in Nat
              /\ current' = FindSmallest(ch) => FirstIn(Heads(tables, ch), iterEntry')
              /\ current' = FindLargest(ch) => LastIn(Heads(tables, ch), iterEntry')
<1>1. /\ DatabaseOK' /\ tables' = tables
      /\ \A i, p : ChildPos(i, p)' <=> ChildPos(i, p)
  BY Unmoved
<1>2. Hd' = Heads(tables, ch)
  BY <1>1 DEF Hd
<1>3. DOMAIN Src = 1 .. Len(tables) + 1 /\ Len(tables) \in Nat
  BY DatabaseFacts
<1>4. \/ /\ current' = 0 /\ \A i \in DOMAIN Src : Heads(tables, ch)[i] = {}
      \/ /\ current' \in DOMAIN Src
         /\ \E c \in Src[current'] :
              /\ Heads(tables, ch)[current'] = {c}
              /\ current' = FindSmallest(ch) => FirstIn(Heads(tables, ch), c)
              /\ current' = FindLargest(ch) => LastIn(Heads(tables, ch), c)
  BY ExtremeChild
<1>5. ChildrenOK'
  <2>1. DOMAIN children' = 1 .. Len(tables') + 1
    BY <1>1 DEF ChildrenAt
  <2>2. \A i \in DOMAIN children' : ChildPos(i, children[i])'
    <3>1. \A i \in DOMAIN children' : ChildPos(i, children'[i])
      BY DEF ChildrenAt
    <3> QED
      BY <1>1, <3>1 DEF ChildPos
  <2>3. current' \in 0 .. Len(tables') + 1 /\ (current' # 0 => Hd'[current'] # {})
    BY <1>1, <1>2, <1>3, <1>4
  <2> QED
    BY <2>1, <2>2, <2>3 DEF ChildrenOK
<1>6. ASSUME current' # 0
      PROVE  /\ current' \in DOMAIN Src /\ Heads(tables, ch)[current'] = {iterEntry'}
             /\ iterEntry' \in Src[current'] /\ iterEntry' \in entriesIn(mem, tables)
             /\ iterEntry' \in Point /\ iterEntry'.key \in Nat /\ iterEntry'.seq \in Nat
             /\ current' = FindSmallest(ch) => FirstIn(Heads(tables, ch), iterEntry')
             /\ current' = FindLargest(ch) => LastIn(Heads(tables, ch), iterEntry')
  <2>1. current' \in DOMAIN Src
    BY <1>3, <1>4, <1>6
  <2>2. PICK c \in Src[current'] :
          /\ Heads(tables, ch)[current'] = {c}
          /\ current' = FindSmallest(ch) => FirstIn(Heads(tables, ch), c)
          /\ current' = FindLargest(ch) => LastIn(Heads(tables, ch), c)
    BY <1>3, <1>4, <1>6
  <2>3. childEntry(ch, current') = {c}
    BY <2>1, <2>2, HeadFacts
  <2>4. iterEntry' = c
    <3>1. iterEntry' = anElement(childEntry(children, current)')
      BY DEF iterEntry, anElement
    <3>2. childEntry(children, current)' = childEntry(ch, current')
      BY <1>1 DEF childEntry
    <3>3. anElement({c}) = c
      BY DEF anElement
    <3> QED
      BY <2>3, <3>1, <3>2, <3>3
  <2>5. c \in entriesIn(mem, tables) /\ c \in Point
    BY <2>1, DatabaseFacts
  <2>6. c.key \in Nat /\ c.seq \in Nat
    BY <2>5 DEF Point
  <2>7. Heads(tables, ch)[current'] = {iterEntry'} /\ iterEntry' \in Src[current']
    BY <2>2, <2>4
  <2>8. /\ iterEntry' \in entriesIn(mem, tables)
        /\ iterEntry' \in Point /\ iterEntry'.key \in Nat /\ iterEntry'.seq \in Nat
    BY <2>4, <2>5, <2>6
  <2>9. /\ current' = FindSmallest(ch) => FirstIn(Heads(tables, ch), iterEntry')
        /\ current' = FindLargest(ch) => LastIn(Heads(tables, ch), iterEntry')
    BY <2>2, <2>4
  <2> QED
    BY <2>1, <2>7, <2>8, <2>9
<1>7. current' = 0 => \A i \in DOMAIN Src : Heads(tables, ch)[i] = {}
  BY <1>3, <1>4
<1> QED
  BY <1>1, <1>2, <1>5, <1>6, <1>7

\* What it has done to the visible entries X, which its children had not passed.
WentForward(X) ==
  /\ DatabaseOK' /\ ChildrenOK' /\ mergeDirection' = "kForward"
  /\ current' = 0 => X = {}
  /\ current' # 0 =>
       /\ iterEntry' \in entriesIn(mem, tables) /\ iterEntry' \in Point
       /\ iterEntry'.key \in Nat /\ iterEntry'.seq \in Nat
       /\ \A x \in X : ~Before(x, iterEntry')
       /\ After(Vis, iterEntry') \subseteq X => Ahead'

\* The same backward.
WentBack(X) ==
  /\ DatabaseOK' /\ ChildrenOK' /\ mergeDirection' = "kReverse"
  /\ current' = 0 => X = {}
  /\ current' # 0 =>
       /\ iterEntry' \in entriesIn(mem, tables) /\ iterEntry' \in Point
       /\ iterEntry'.key \in Nat /\ iterEntry'.seq \in Nat
       /\ \A x \in X : ~Before(iterEntry', x)
       /\ LastIn(Hd', iterEntry')
       /\ \A Y : Under(Y, iterEntry') \subseteq X =>
                   CoversBack(Src', Hd', Under(Y, iterEntry'))

\* Forward: all that its children have not passed comes here or later.
LEMMA GoneForward ==
  ASSUME DatabaseOK, Steady, NEW ch, ChildrenAt(ch), goForward(ch),
         NEW X \in SUBSET Vis, Covers(Src, Heads(tables, ch), X)
  PROVE  /\ WentForward(X)
         /\ current' # 0 => \E i \in DOMAIN Src : Heads(tables, ch)[i] = {iterEntry'}
<1> DEFINE h == Heads(tables, ch)
<1>1. children' = ch /\ current' = FindSmallest(ch) /\ mergeDirection' = "kForward"
  BY DEF goForward
<1>2. /\ DatabaseOK' /\ ChildrenOK' /\ Hd' = h
      /\ current' = 0 => \A i \in DOMAIN Src : h[i] = {}
      /\ current' # 0 =>
           /\ current' \in DOMAIN Src /\ h[current'] = {iterEntry'}
           /\ iterEntry' \in entriesIn(mem, tables)
           /\ iterEntry' \in Point /\ iterEntry'.key \in Nat /\ iterEntry'.seq \in Nat
           /\ FirstIn(h, iterEntry')
  BY <1>1, Gone
<1>3. Src' = Src /\ Vis' = Vis /\ DOMAIN h = DOMAIN Src
  BY Unmoved, HeadFacts
<1>4. \A x \in X : x \in Point /\ \E i \in DOMAIN Src : x \in Src[i] /\ \E y \in h[i] : ~Before(x, y)
  BY DatabaseFacts DEF Vis, Seen, Covers
<1>5. current' = 0 => X = {}
  BY <1>2, <1>4
<1>6. ASSUME current' # 0, NEW x \in X
      PROVE  ~Before(x, iterEntry')
  <2>1. PICK i \in DOMAIN Src : x \in Src[i] /\ \E y \in h[i] : ~Before(x, y)
    BY <1>4
  <2>2. PICK y \in h[i] : ~Before(x, y) /\ y \in Point
    BY <2>1, HeadFacts, DatabaseFacts DEF Lined, Entry
  <2>3. ~Before(y, iterEntry')
    BY <1>2, <1>3, <1>6, <2>2 DEF FirstIn
  <2> QED
    BY <1>2, <1>4, <1>6, <2>2, <2>3, Order
<1>7. ASSUME current' # 0, After(Vis, iterEntry') \subseteq X
      PROVE  Ahead'
  <2>1. Covers(Src, h, After(Vis, iterEntry'))
    <3>1. Covers(Src, h, X)
      OBVIOUS
    <3> HIDE DEF h
    <3> QED
      BY <1>7, <3>1 DEF Covers
  <2>2. FirstIn(Hd', iterEntry') /\ Covers(Src', Hd', After(Vis', iterEntry'))
    BY <1>2, <1>3, <1>7, <2>1
  <2> QED
    BY <1>7, <2>2 DEF Ahead
<1> QED
  BY <1>1, <1>2, <1>5, <1>6, <1>7 DEF WentForward

\* Backward: all that they have not passed comes here or earlier.
LEMMA GoneBackward ==
  ASSUME DatabaseOK, Steady, NEW ch, ChildrenAt(ch), goBackward(ch),
         NEW X \in SUBSET Vis, CoversBack(Src, Heads(tables, ch), X)
  PROVE  /\ WentBack(X)
         /\ current' # 0 => \E i \in DOMAIN Src : Heads(tables, ch)[i] = {iterEntry'}
<1> DEFINE h == Heads(tables, ch)
<1>1. children' = ch /\ current' = FindLargest(ch) /\ mergeDirection' = "kReverse"
  BY DEF goBackward
<1>2. /\ DatabaseOK' /\ ChildrenOK' /\ Hd' = h
      /\ current' = 0 => \A i \in DOMAIN Src : h[i] = {}
      /\ current' # 0 =>
           /\ current' \in DOMAIN Src /\ h[current'] = {iterEntry'}
           /\ iterEntry' \in entriesIn(mem, tables)
           /\ iterEntry' \in Point /\ iterEntry'.key \in Nat /\ iterEntry'.seq \in Nat
           /\ LastIn(h, iterEntry')
  BY <1>1, Gone
<1>3. Src' = Src /\ Vis' = Vis /\ DOMAIN h = DOMAIN Src
  BY Unmoved, HeadFacts
<1>4. \A x \in X : x \in Point /\ \E i \in DOMAIN Src : x \in Src[i] /\ \E y \in h[i] : ~Before(y, x)
  BY DatabaseFacts DEF Vis, Seen, CoversBack
<1>5. current' = 0 => X = {}
  BY <1>2, <1>4
<1>6. ASSUME current' # 0, NEW x \in X
      PROVE  ~Before(iterEntry', x)
  <2>1. PICK i \in DOMAIN Src : x \in Src[i] /\ \E y \in h[i] : ~Before(y, x)
    BY <1>4
  <2>2. PICK y \in h[i] : ~Before(y, x) /\ y \in Point
    BY <2>1, HeadFacts, DatabaseFacts DEF Lined, Entry
  <2>3. ~Before(iterEntry', y)
    BY <1>2, <1>3, <1>6, <2>2 DEF LastIn
  <2> QED
    BY <1>2, <1>4, <1>6, <2>2, <2>3, Order
<1>7. ASSUME NEW Y, Under(Y, iterEntry') \subseteq X
      PROVE  CoversBack(Src', Hd', Under(Y, iterEntry'))
  <2>1. CoversBack(Src, h, Under(Y, iterEntry'))
    <3>1. CoversBack(Src, h, X)
      OBVIOUS
    <3> HIDE DEF h
    <3> QED
      BY <1>7, <3>1 DEF CoversBack
  <2> QED
    BY <1>2, <1>3, <2>1
<1> QED
  BY <1>1, <1>2, <1>5, <1>6, <1>7 DEF WentBack

\* All children move.
LEMMA MovedAll ==
  ASSUME DatabaseOK, ChildrenOK,
         NEW move \in {Move("First"), Move("Last")} \cup {SeekTo(t) : t \in Point}
  PROVE  /\ ChildrenAt(allMoved(move))
         /\ \A i \in DOMAIN Src : Heads(tables, allMoved(move))[i] = MovedIn(Src[i], Hd[i], move)
<1>1. ChildrenAt(children) /\ DOMAIN children = DOMAIN Src
  BY DatabaseFacts DEF ChildrenOK, ChildrenAt
<1>2. \A i \in DOMAIN Src : Movable(Heads(tables, children)[i], move)
  BY DEF Movable, Moves, Move, SeekTo
<1>3. /\ DOMAIN allMoved(move) = DOMAIN Src
      /\ \A i \in DOMAIN Src : allMoved(move)[i] = childMoved(children, i, move)
  BY <1>1 DEF allMoved
<1>4. ASSUME NEW i \in DOMAIN Src
      PROVE  /\ ChildPos(i, allMoved(move)[i])
             /\ Heads(tables, allMoved(move))[i] = MovedIn(Src[i], Hd[i], move)
  <2>1. /\ ChildPos(i, childMoved(children, i, move))
        /\ \A q : DOMAIN q = DOMAIN Src /\ q[i] = childMoved(children, i, move) =>
             Heads(tables, q)[i] = MovedIn(Src[i], Heads(tables, children)[i], move)
    BY <1>1, <1>2, ChildMoves
  <2> QED
    BY <1>3, <2>1 DEF Hd
<1> QED
  BY <1>3, <1>4, DatabaseFacts DEF ChildrenAt

\* The current child moves, the others stay as they are in ch.
LEMMA MovedOne ==
  ASSUME DatabaseOK, current \in DOMAIN Src, NEW ch, ChildrenAt(ch),
         Heads(tables, ch)[current] # {}, NEW move \in {Move("Next"), Move("Prev")}
  PROVE  /\ ChildrenAt(currentMoved(ch, move))
         /\ \A i \in DOMAIN Src : Heads(tables, currentMoved(ch, move))[i] =
              IF i = current THEN MovedIn(Src[i], Heads(tables, ch)[i], move)
              ELSE Heads(tables, ch)[i]
<1>1. DOMAIN ch = DOMAIN Src /\ DOMAIN Src = 1 .. Len(tables) + 1
  BY DatabaseFacts DEF ChildrenAt
<1>2. Movable(Heads(tables, ch)[current], move)
  BY DEF Movable, Moves
<1>3. /\ DOMAIN currentMoved(ch, move) = DOMAIN Src
      /\ \A i \in DOMAIN Src : currentMoved(ch, move)[i] =
           IF i = current THEN childMoved(ch, current, move) ELSE ch[i]
  BY <1>1 DEF currentMoved
<1>4. /\ ChildPos(current, childMoved(ch, current, move))
      /\ \A q : DOMAIN q = DOMAIN Src /\ q[current] = childMoved(ch, current, move) =>
           Heads(tables, q)[current] = MovedIn(Src[current], Heads(tables, ch)[current], move)
  BY <1>2, ChildMoves
<1>5. ChildrenAt(currentMoved(ch, move))
  BY <1>1, <1>3, <1>4 DEF ChildrenAt
<1>6. ASSUME NEW i \in DOMAIN Src, i # current
      PROVE  Heads(tables, currentMoved(ch, move))[i] = Heads(tables, ch)[i]
  BY <1>3, <1>6, ChildStays
<1> QED
  BY <1>3, <1>4, <1>5, <1>6

\* SeekToFirst, SeekToLast and Seek.
LEMMA MergeFirst ==
  ASSUME DatabaseOK, ChildrenOK, Steady, mergeSeekToFirst
  PROVE  WentForward(Vis) /\ (current' # 0 => Ahead')
<1> DEFINE ch == allMoved(Move("First"))
<1>1. /\ ChildrenAt(ch)
      /\ \A i \in DOMAIN Src : Heads(tables, ch)[i] = MovedIn(Src[i], Hd[i], Move("First"))
  BY MovedAll
<1>2. Covers(Src, Heads(tables, ch), Vis)
  BY <1>1, DatabaseFacts, MoveFinds DEF Covers
<1>3. goForward(ch)
  BY DEF mergeSeekToFirst
<1> HIDE DEF ch
<1>4. WentForward(Vis)
  BY <1>1, <1>2, <1>3, GoneForward
<1>5. After(Vis, iterEntry') \subseteq Vis
  BY DEF After
<1> QED
  BY <1>4, <1>5 DEF WentForward

\* SeekToLast goes back from the end: all that is visible is before it.
LEMMA MergeLast ==
  ASSUME DatabaseOK, ChildrenOK, Steady, mergeSeekToLast
  PROVE  WentBack(Vis)
<1> DEFINE ch == allMoved(Move("Last"))
<1>1. /\ ChildrenAt(ch)
      /\ \A i \in DOMAIN Src : Heads(tables, ch)[i] = MovedIn(Src[i], Hd[i], Move("Last"))
  BY MovedAll
<1>2. CoversBack(Src, Heads(tables, ch), Vis)
  BY <1>1, DatabaseFacts, MoveFinds DEF CoversBack
<1>3. goBackward(ch)
  BY DEF mergeSeekToLast
<1> HIDE DEF ch
<1> QED
  BY <1>1, <1>2, <1>3, GoneBackward

\* Seek goes forward to the first entry not before its target.
LEMMA MergeSeek ==
  ASSUME DatabaseOK, ChildrenOK, Steady, NEW t \in Point, mergeSeek(t)
  PROVE  /\ WentForward({x \in Vis : ~Before(x, t)})
         /\ current' # 0 => Ahead' /\ ~Before(iterEntry', t)
<1> DEFINE ch == allMoved(SeekTo(t))
           X == {x \in Vis : ~Before(x, t)}
<1>1. /\ ChildrenAt(ch)
      /\ \A i \in DOMAIN Src : Heads(tables, ch)[i] = MovedIn(Src[i], Hd[i], SeekTo(t))
  BY MovedAll
<1>2. \A i \in DOMAIN Src : /\ \A y \in Heads(tables, ch)[i] : ~Before(y, t)
                            /\ \A x \in Src[i] : ~Before(x, t) =>
                                 \E y \in Heads(tables, ch)[i] : ~Before(x, y)
  BY <1>1, DatabaseFacts, MoveFinds
<1>3. Covers(Src, Heads(tables, ch), X)
  BY <1>2 DEF Covers
<1>4. goForward(ch)
  BY DEF mergeSeek
<1> HIDE DEF ch, X
<1>5. WentForward(X) /\ (current' # 0 => \E i \in DOMAIN Src : Heads(tables, ch)[i] = {iterEntry'})
  <2>1. X \in SUBSET Vis
    BY DEF X
  <2> QED
    BY <1>1, <1>3, <1>4, <2>1, GoneForward
<1>6. ASSUME current' # 0
      PROVE  Ahead' /\ ~Before(iterEntry', t)
  <2>1. ~Before(iterEntry', t) /\ iterEntry' \in Point
    BY <1>2, <1>5, <1>6 DEF WentForward
  <2>2. After(Vis, iterEntry') \subseteq X
    <3> SUFFICES ASSUME NEW x \in Vis, Before(iterEntry', x)
                 PROVE  ~Before(x, t)
      BY DEF After, X
    <3>1. x \in Point
      BY DatabaseFacts DEF Vis, Seen
    <3> QED
      BY <2>1, <3>1, Order
  <2> QED
    BY <1>5, <1>6, <2>1, <2>2 DEF WentForward
<1> QED
  BY <1>5, <1>6 DEF X

\* Next and Prev in the direction it goes in.
LEMMA MergeNext ==
  ASSUME DatabaseOK, ChildrenOK, Steady, Ahead, mergeNext
  PROVE  /\ WentForward(After(Vis, iterEntry))
         /\ current' # 0 => Ahead' /\ ~Before(iterEntry', iterEntry)
<1> DEFINE ch == currentMoved(children, Move("Next"))
           X == After(Vis, iterEntry)
<1>1. /\ current # 0 /\ FirstIn(Hd, iterEntry) /\ Covers(Src, Hd, X)
  BY DEF Ahead
<1>2. current \in DOMAIN Src /\ Hd[current] = {iterEntry} /\ iterEntry \in Point
  BY <1>1, CurrentEntry
<1>3. /\ ChildrenAt(ch) /\ DOMAIN Hd = DOMAIN Src
      /\ \A i \in DOMAIN Src : Heads(tables, ch)[i] =
           IF i = current THEN MovedIn(Src[i], {iterEntry}, Move("Next")) ELSE Hd[i]
  <2>1. ChildrenAt(children)
    BY DEF ChildrenOK, ChildrenAt
  <2>2. Heads(tables, children) = Hd
    BY DEF Hd
  <2> QED
    BY <1>2, <2>1, <2>2, MovedOne, HeadFacts
<1>4. \A x : x \in X => x \in Vis /\ Before(iterEntry, x) /\ x \in Point
  BY DatabaseFacts DEF After, Vis, Seen
<1> HIDE DEF ch, X
<1>5. /\ \A y \in MovedIn(Src[current], {iterEntry}, Move("Next")) :
           y \in Src[current] /\ Before(iterEntry, y)
      /\ \A x \in Src[current] : Before(iterEntry, x) =>
           \E y \in MovedIn(Src[current], {iterEntry}, Move("Next")) : ~Before(x, y)
  <2>1. PICK E, c : E = Src[current] /\ c = iterEntry
    OBVIOUS
  <2>2. Lined(E)
    BY <1>2, <2>1, DatabaseFacts
  <2>3. /\ \A y \in MovedIn(E, {c}, Move("Next")) : y \in E /\ Before(c, y)
        /\ \A x \in E : Before(c, x) =>
             \E y \in MovedIn(E, {c}, Move("Next")) : ~Before(x, y)
    BY <2>2, NextFinds
  <2> QED
    BY <2>1, <2>3
<1>6. Covers(Src, Heads(tables, ch), X)
  BY <1>1, <1>3, <1>4, <1>5 DEF Covers
<1>7. \A i \in DOMAIN Src : \A y \in Heads(tables, ch)[i] : ~Before(y, iterEntry)
  <2> TAKE i \in DOMAIN Src
  <2> TAKE y \in Heads(tables, ch)[i]
  <2>1. CASE i = current
    <3>1. Before(iterEntry, y) /\ y \in Src[i]
      BY <1>3, <1>5, <2>1
    <3>2. y \in Point
      BY <3>1, DatabaseFacts DEF Entry
    <3> QED
      BY <1>2, <3>1, <3>2, Order
  <2>2. CASE i # current
    BY <1>1, <1>3, <2>2 DEF FirstIn
  <2> QED
    BY <2>1, <2>2
<1>8. WentForward(X) /\ (current' # 0 => \E i \in DOMAIN Src : Heads(tables, ch)[i] = {iterEntry'})
  <2>1. X \in SUBSET Vis
    BY <1>4
  <2>2. goForward(ch)
    BY DEF mergeNext, ch
  <2> QED
    BY <1>3, <1>6, <2>1, <2>2, GoneForward
<1>9. ASSUME current' # 0
      PROVE  Ahead' /\ ~Before(iterEntry', iterEntry)
  <2>1. ~Before(iterEntry', iterEntry) /\ iterEntry' \in Point
    BY <1>7, <1>8, <1>9 DEF WentForward
  <2>2. After(Vis, iterEntry') \subseteq X
    <3> SUFFICES ASSUME NEW x \in Vis, Before(iterEntry', x)
                 PROVE  Before(iterEntry, x)
      BY DEF After, X
    <3>1. x \in Point
      BY DatabaseFacts DEF Vis, Seen
    <3> QED
      BY <1>2, <2>1, <3>1, Order
  <2> QED
    BY <1>8, <1>9, <2>1, <2>2 DEF WentForward
<1> QED
  BY <1>8, <1>9 DEF X

\* Prev, going backward: to the entry before the current one.
LEMMA MergePrev ==
  ASSUME DatabaseOK, ChildrenOK, Steady, NEW Y \in SUBSET Vis, Behind(Y), mergePrev
  PROVE  /\ WentBack(Under(Y, iterEntry))
         /\ current' # 0 => ~Before(iterEntry, iterEntry')
<1> DEFINE ch == currentMoved(children, Move("Prev"))
           X == Under(Y, iterEntry)
<1>1. /\ current # 0 /\ LastIn(Hd, iterEntry) /\ CoversBack(Src, Hd, X)
  BY DEF Behind
<1>2. current \in DOMAIN Src /\ Hd[current] = {iterEntry} /\ iterEntry \in Point
  BY <1>1, CurrentEntry
<1>3. /\ ChildrenAt(ch) /\ DOMAIN Hd = DOMAIN Src
      /\ \A i \in DOMAIN Src : Heads(tables, ch)[i] =
           IF i = current THEN MovedIn(Src[i], {iterEntry}, Move("Prev")) ELSE Hd[i]
  <2>1. ChildrenAt(children)
    BY DEF ChildrenOK, ChildrenAt
  <2>2. Heads(tables, children) = Hd
    BY DEF Hd
  <2> QED
    BY <1>2, <2>1, <2>2, MovedOne, HeadFacts
<1>4. \A x : x \in X => x \in Vis /\ Before(x, iterEntry)
  BY DEF Under
<1> HIDE DEF ch, X
<1>5. /\ \A y \in MovedIn(Src[current], {iterEntry}, Move("Prev")) :
           y \in Src[current] /\ Before(y, iterEntry)
      /\ \A x \in Src[current] : Before(x, iterEntry) =>
           \E y \in MovedIn(Src[current], {iterEntry}, Move("Prev")) : ~Before(y, x)
  BY <1>2, DatabaseFacts, MoveFinds
<1>6. CoversBack(Src, Heads(tables, ch), X)
  BY <1>1, <1>3, <1>4, <1>5 DEF CoversBack
<1>7. \A i \in DOMAIN Src : \A y \in Heads(tables, ch)[i] : ~Before(iterEntry, y)
  <2> TAKE i \in DOMAIN Src
  <2> TAKE y \in Heads(tables, ch)[i]
  <2>1. CASE i = current
    <3>1. Before(y, iterEntry) /\ y \in Src[i]
      BY <1>3, <1>5, <2>1
    <3>2. y \in Point
      BY <3>1, DatabaseFacts DEF Entry
    <3> QED
      BY <1>2, <3>1, <3>2, Order
  <2>2. CASE i # current
    BY <1>1, <1>3, <2>2 DEF LastIn
  <2> QED
    BY <2>1, <2>2
<1>8. WentBack(X) /\ (current' # 0 => \E i \in DOMAIN Src : Heads(tables, ch)[i] = {iterEntry'})
  <2>1. X \in SUBSET Vis
    BY <1>4
  <2>2. goBackward(ch)
    BY DEF mergePrev, ch
  <2> QED
    BY <1>3, <1>6, <2>1, <2>2, GoneBackward
<1>9. current' # 0 => ~Before(iterEntry, iterEntry')
  BY <1>7, <1>8
<1> QED
  BY <1>8, <1>9 DEF X

\* The first half of a change of direction: the other children seek the current
\* entry, and none is before it then.
LEMMA MergeSeeksOthers ==
  ASSUME DatabaseOK, ChildrenOK, Steady, current # 0, NEW dir, mergeDirection # dir,
         seekOthers(dir)
  PROVE  /\ DatabaseOK' /\ ChildrenOK' /\ Ahead'
         /\ mergeDirection' = mergeDirection /\ iterEntry' = iterEntry
<1> DEFINE c == iterEntry
           moved(i) == IF i = current THEN children[i]
                       ELSE childMoved(children, i, SeekTo(c))
           ch == [i \in DOMAIN children |-> moved(i)]
<1>1. children' = ch /\ current' = current /\ mergeDirection' = mergeDirection
  BY DEF seekOthers
<1>2. /\ current \in DOMAIN Src /\ Hd[current] = {c} /\ c \in Point
      /\ childEntry(children, current) = {c}
  BY CurrentEntry
<1>3. ChildrenAt(children) /\ DOMAIN children = DOMAIN Src
      /\ DOMAIN Src = 1 .. Len(tables) + 1
  BY DatabaseFacts DEF ChildrenOK, ChildrenAt
<1>4. DOMAIN ch = DOMAIN Src /\ \A i \in DOMAIN Src : ch[i] = moved(i)
  BY <1>3
<1> HIDE DEF ch, c
<1>5. ASSUME NEW i \in DOMAIN Src
      PROVE  /\ ChildPos(i, ch[i])
             /\ Heads(tables, ch)[i] =
                  IF i = current THEN {c} ELSE MovedIn(Src[i], Hd[i], SeekTo(c))
  <2>1. CASE i = current
    <3>1. ch[i] = children[i]
      BY <1>4, <2>1
    <3>2. Heads(tables, ch)[i] = Heads(tables, children)[i]
      BY <3>1, ChildStays
    <3>3. ChildPos(i, ch[i])
      BY <1>3, <3>1 DEF ChildrenAt
    <3> QED
      BY <1>2, <2>1, <3>2, <3>3 DEF Hd
  <2>2. CASE i # current
    <3>1. ch[i] = childMoved(children, i, SeekTo(c))
      BY <1>4, <2>2
    <3>2. Movable(Heads(tables, children)[i], SeekTo(c))
      BY <1>2 DEF Movable, Moves, SeekTo, Move
    <3>3. /\ ChildPos(i, childMoved(children, i, SeekTo(c)))
          /\ \A q : DOMAIN q = DOMAIN Src /\ q[i] = childMoved(children, i, SeekTo(c)) =>
               Heads(tables, q)[i] = MovedIn(Src[i], Heads(tables, children)[i], SeekTo(c))
      BY <1>3, <3>2, ChildMoves
    <3> QED
      BY <1>4, <2>2, <3>1, <3>3 DEF Hd
  <2> QED
    BY <2>1, <2>2
<1>6. ChildrenAt(ch)
  BY <1>3, <1>4, <1>5 DEF ChildrenAt
<1>7. /\ tables' = tables /\ DatabaseOK' /\ Src' = Src /\ Vis' = Vis
      /\ \A i, p : ChildPos(i, p)' <=> ChildPos(i, p)
  BY Unmoved
<1>8. Hd' = Heads(tables, ch)
  BY <1>1, <1>7 DEF Hd
<1>9. ChildrenOK'
  <2>1. \A i \in DOMAIN children' : ChildPos(i, children[i])'
    <3>1. \A i \in DOMAIN children' : ChildPos(i, children'[i])
      BY <1>1, <1>6 DEF ChildrenAt
    <3> QED
      BY <1>7, <3>1 DEF ChildPos
  <2>2. current' \in 0 .. Len(tables') + 1 /\ Hd'[current'] # {}
    BY <1>1, <1>2, <1>5, <1>7, <1>8 DEF ChildrenOK
  <2> QED
    BY <1>1, <1>4, <1>3, <1>7, <2>1, <2>2 DEF ChildrenOK
<1>10. iterEntry' = c
  <2>1. childEntry(children, current)' = childEntry(ch, current)
    BY <1>1, <1>7 DEF childEntry
  <2>2. childEntry(ch, current) = {c}
    BY <1>2, <1>5, <1>6, HeadFacts
  <2>3. iterEntry' = anElement(childEntry(children, current)')
    BY DEF iterEntry, anElement
  <2>4. anElement({c}) = c
    BY DEF anElement
  <2> QED
    BY <2>1, <2>2, <2>3, <2>4
<1>11. \A i \in DOMAIN Src :
          /\ \A y \in Heads(tables, ch)[i] : ~Before(y, c)
          /\ \A x \in Src[i] : ~Before(x, c) => \E y \in Heads(tables, ch)[i] : ~Before(x, y)
  <2> TAKE i \in DOMAIN Src
  <2>1. CASE i = current
    BY <1>2, <1>5, <2>1, Order
  <2>2. CASE i # current
    <3>1. Lined(Src[i])
      BY DatabaseFacts
    <3> QED
      BY <1>5, <2>2, <3>1, MoveFinds
  <2> QED
    BY <2>1, <2>2
<1>12. FirstIn(Hd', c)
  BY <1>8, <1>11, <1>6, HeadFacts DEF FirstIn
<1>13. Covers(Src', Hd', After(Vis', c))
  <2> SUFFICES ASSUME NEW i \in DOMAIN Src, NEW x \in Src[i], x \in After(Vis, c)
               PROVE  \E y \in Heads(tables, ch)[i] : ~Before(x, y)
    BY <1>7, <1>8 DEF Covers
  <2>1. ~Before(x, c)
    <3>1. Before(c, x) /\ x \in Point
      BY DatabaseFacts DEF After, Vis, Seen
    <3> QED
      BY <1>2, <3>1, Order
  <2> QED
    BY <1>11, <2>1
<1>14. Ahead'
  BY <1>1, <1>10, <1>12, <1>13 DEF Ahead
<1> QED
  BY <1>1, <1>7, <1>9, <1>10, <1>14 DEF c

\* The second half, forward: those that stand on it as well step past it.
LEMMA MergeNextTurning ==
  ASSUME DatabaseOK, ChildrenOK, Steady, Ahead, mergeDirection = "kReverse", nextTurning
  PROVE  /\ WentForward(After(Vis, iterEntry))
         /\ current' # 0 => Ahead' /\ Before(iterEntry, iterEntry')
<1> DEFINE c == iterEntry
           ch0 == [i \in DOMAIN children |-> IF i = current THEN children[i] ELSE stepAfter(i)]
           ch == currentMoved(ch0, Move("Next"))
           X == After(Vis, c)
<1>1. current # 0 /\ FirstIn(Hd, c) /\ Covers(Src, Hd, X)
  BY DEF Ahead
<1>2. /\ current \in DOMAIN Src /\ Hd[current] = {c} /\ c \in Point
      /\ c \in entriesIn(mem, tables)
  BY <1>1, CurrentEntry
<1>3. /\ ChildrenAt(children) /\ DOMAIN children = DOMAIN Src /\ DOMAIN Hd = DOMAIN Src
      /\ \A i \in DOMAIN Src : /\ childEntry(children, i) = Hd[i]
                               /\ Hd[i] = {} \/ \E e \in Src[i] : Hd[i] = {e}
  <2>1. ChildrenAt(children)
    BY DEF ChildrenOK, ChildrenAt
  <2> QED
    BY <2>1, HeadFacts DEF Hd
<1>4. /\ DOMAIN ch0 = DOMAIN Src
      /\ \A i \in DOMAIN Src : ch0[i] = IF i # current /\ Hd[i] = {c}
                                        THEN childMoved(children, i, Move("Next"))
                                        ELSE children[i]
  BY <1>3 DEF stepAfter
<1>5. goForward(ch)
  BY DEF nextTurning
<1>6. \A x : x \in X => x \in Vis /\ Before(c, x) /\ x \in Point
  BY DatabaseFacts DEF After, Vis, Seen
<1> HIDE DEF c, X, ch, ch0
<1>7. ASSUME NEW i \in DOMAIN Src
      PROVE  /\ ChildPos(i, ch0[i])
             /\ Heads(tables, ch0)[i] = IF i # current /\ Hd[i] = {c}
                                        THEN MovedIn(Src[i], {c}, Move("Next")) ELSE Hd[i]
  <2>1. CASE i # current /\ Hd[i] = {c}
    <3>1. Movable(Heads(tables, children)[i], Move("Next"))
      BY <2>1 DEF Movable, Moves, Hd
    <3>2. /\ ChildPos(i, childMoved(children, i, Move("Next")))
          /\ \A q : DOMAIN q = DOMAIN Src /\ q[i] = childMoved(children, i, Move("Next")) =>
               Heads(tables, q)[i] = MovedIn(Src[i], Heads(tables, children)[i], Move("Next"))
      BY <1>3, <3>1, ChildMoves
    <3> QED
      BY <1>4, <2>1, <3>2 DEF Hd
  <2>2. CASE ~(i # current /\ Hd[i] = {c})
    <3>1. ch0[i] = children[i]
      BY <1>4, <2>2
    <3>2. Heads(tables, ch0)[i] = Heads(tables, children)[i]
      BY <3>1, ChildStays
    <3>3. ChildPos(i, ch0[i])
      BY <1>3, <3>1 DEF ChildrenAt
    <3> QED
      BY <2>2, <3>2, <3>3 DEF Hd
  <2> QED
    BY <2>1, <2>2
<1>8. ChildrenAt(ch0)
  BY <1>4, <1>7, DatabaseFacts DEF ChildrenAt
<1>9. /\ ChildrenAt(ch)
      /\ \A i \in DOMAIN Src : Heads(tables, ch)[i] =
           IF Hd[i] = {c} THEN MovedIn(Src[i], {c}, Move("Next")) ELSE Hd[i]
  <2>1. Heads(tables, ch0)[current] = {c}
    BY <1>2, <1>7
  <2>2. /\ ChildrenAt(ch)
        /\ \A i \in DOMAIN Src : Heads(tables, ch)[i] =
             IF i = current THEN MovedIn(Src[i], Heads(tables, ch0)[i], Move("Next"))
             ELSE Heads(tables, ch0)[i]
    BY <1>2, <1>8, <2>1, MovedOne DEF ch
  <2> QED
    BY <1>2, <1>7, <2>1, <2>2
<1>10. \A i \in DOMAIN Src :
         /\ \A y \in Heads(tables, ch)[i] : Before(c, y)
         /\ \A x \in Src[i] : x \in X => \E y \in Heads(tables, ch)[i] : ~Before(x, y)
  <2> TAKE i \in DOMAIN Src
  <2>1. CASE Hd[i] = {c}
    <3>1. PICK E : E = Src[i]
      OBVIOUS
    <3>2. Lined(E)
      BY <3>1, DatabaseFacts
    <3>3. /\ \A y \in MovedIn(E, {c}, Move("Next")) : y \in E /\ Before(c, y)
          /\ \A x \in E : Before(c, x) =>
               \E y \in MovedIn(E, {c}, Move("Next")) : ~Before(x, y)
      BY <3>2, NextFinds
    <3> QED
      BY <1>6, <1>9, <2>1, <3>1, <3>3
  <2>2. CASE Hd[i] # {c}
    <3>1. Heads(tables, ch)[i] = Hd[i]
      BY <1>9, <2>2
    <3>2. ASSUME NEW y \in Hd[i]
          PROVE  Before(c, y)
      <4>1. y # c /\ y \in Src[i]
        BY <1>3, <2>2
      <4>2. y \in entriesIn(mem, tables)
        BY <4>1, DatabaseFacts
      <4>3. ~Before(y, c)
        BY <1>1, <1>3 DEF FirstIn
      <4> QED
        BY <1>2, <4>1, <4>2, <4>3, DatabaseFacts
    <3>3. \A x \in Src[i] : x \in X => \E y \in Hd[i] : ~Before(x, y)
      BY <1>1 DEF Covers
    <3> QED
      BY <3>1, <3>2, <3>3
  <2> QED
    BY <2>1, <2>2
<1>11. Covers(Src, Heads(tables, ch), X)
  BY <1>10 DEF Covers
<1>12. WentForward(X) /\ (current' # 0 => \E i \in DOMAIN Src : Heads(tables, ch)[i] = {iterEntry'})
  <2>1. X \in SUBSET Vis
    BY <1>6
  <2> QED
    BY <1>5, <1>9, <1>11, <2>1, GoneForward
<1>13. ASSUME current' # 0
       PROVE  Ahead' /\ Before(c, iterEntry')
  <2>1. Before(c, iterEntry') /\ iterEntry' \in Point
    BY <1>10, <1>12, <1>13 DEF WentForward
  <2>2. After(Vis, iterEntry') \subseteq X
    <3> SUFFICES ASSUME NEW x \in Vis, Before(iterEntry', x)
                 PROVE  Before(c, x)
      BY DEF After, X
    <3>1. x \in Point
      BY DatabaseFacts DEF Vis, Seen
    <3> QED
      BY <1>2, <2>1, <3>1, Order
  <2> QED
    BY <1>12, <1>13, <2>1, <2>2 DEF WentForward
<1> QED
  BY <1>12, <1>13 DEF X, c

\* The second half, backward: they step before it, from the end if they have
\* nothing after it.
LEMMA MergePrevTurning ==
  ASSUME DatabaseOK, ChildrenOK, Steady, current # 0, FirstIn(Hd, iterEntry),
         mergeDirection = "kForward", prevTurning
  PROVE  WentBack(Under(Vis, iterEntry))
<1> DEFINE c == iterEntry
           ch0 == [i \in DOMAIN children |-> IF i = current THEN children[i] ELSE stepBefore(i)]
           ch == currentMoved(ch0, Move("Prev"))
           X == Under(Vis, c)
           back(i) == IF Hd[i] # {} THEN Move("Prev") ELSE Move("Last")
<1>1. current \in DOMAIN Src /\ Hd[current] = {c} /\ c \in Point
  BY CurrentEntry
<1>2. /\ ChildrenAt(children) /\ DOMAIN children = DOMAIN Src /\ DOMAIN Hd = DOMAIN Src
      /\ \A i \in DOMAIN Src : /\ childEntry(children, i) = Hd[i]
                               /\ Hd[i] = {} \/ \E e \in Src[i] : Hd[i] = {e}
  <2>1. ChildrenAt(children)
    BY DEF ChildrenOK, ChildrenAt
  <2> QED
    BY <2>1, HeadFacts DEF Hd
<1>3. /\ DOMAIN ch0 = DOMAIN Src
      /\ \A i \in DOMAIN Src : ch0[i] = IF i # current THEN childMoved(children, i, back(i))
                                        ELSE children[i]
  <2>1. mergeDirection # "kReverse"
    OBVIOUS
  <2>2. \A i \in DOMAIN Src : stepBefore(i) = childMoved(children, i, back(i))
    <3> TAKE i \in DOMAIN Src
    <3>1. CASE Hd[i] = {}
      BY <1>2, <2>1, <3>1, Zenon DEF stepBefore, Move
    <3>2. CASE Hd[i] # {}
      BY <1>2, <2>1, <3>2, Zenon DEF stepBefore, Move
    <3> QED
      BY <3>1, <3>2
  <2> QED
    BY <1>2, <2>2
<1>4. goBackward(ch)
  BY DEF prevTurning
<1>5. \A x : x \in X => x \in Vis /\ Before(x, c) /\ x \in Point
  BY DatabaseFacts DEF Under, Vis, Seen
<1> HIDE DEF c, X, ch, ch0
<1>6. ASSUME NEW i \in DOMAIN Src
      PROVE  /\ ChildPos(i, ch0[i])
             /\ Heads(tables, ch0)[i] = IF i # current THEN MovedIn(Src[i], Hd[i], back(i))
                                        ELSE Hd[i]
  <2>1. CASE i # current
    <3>1. Movable(Heads(tables, children)[i], back(i))
      <4>1. Move("Prev") \in Moves /\ Move("Last") \in Moves /\ Move("Last").op = "Last"
        BY DEF Moves, Move
      <4>2. CASE Hd[i] = {}
        BY <4>1, <4>2 DEF Movable
      <4>3. CASE Hd[i] # {}
        BY <4>1, <4>3 DEF Movable, Hd
      <4> QED
        BY <4>2, <4>3
    <3> HIDE DEF back
    <3>2. /\ ChildPos(i, childMoved(children, i, back(i)))
          /\ \A q : DOMAIN q = DOMAIN Src /\ q[i] = childMoved(children, i, back(i)) =>
               Heads(tables, q)[i] = MovedIn(Src[i], Heads(tables, children)[i], back(i))
      BY <1>2, <3>1, ChildMoves
    <3> QED
      BY <1>3, <2>1, <3>2 DEF Hd
  <2>2. CASE i = current
    <3>1. ch0[i] = children[i]
      BY <1>3, <2>2
    <3>2. Heads(tables, ch0)[i] = Heads(tables, children)[i]
      BY <3>1, ChildStays
    <3>3. ChildPos(i, ch0[i])
      BY <1>2, <3>1 DEF ChildrenAt
    <3> QED
      BY <2>2, <3>2, <3>3 DEF Hd
  <2> QED
    BY <2>1, <2>2
<1>7. ChildrenAt(ch0)
  BY <1>3, <1>6, DatabaseFacts DEF ChildrenAt
<1>8. /\ ChildrenAt(ch)
      /\ \A i \in DOMAIN Src : Heads(tables, ch)[i] = MovedIn(Src[i], Hd[i], back(i))
  <2>1. Heads(tables, ch0)[current] = {c}
    BY <1>1, <1>6
  <2>2. /\ ChildrenAt(ch)
        /\ \A i \in DOMAIN Src : Heads(tables, ch)[i] =
             IF i = current THEN MovedIn(Src[i], Heads(tables, ch0)[i], Move("Prev"))
             ELSE Heads(tables, ch0)[i]
    BY <1>1, <1>7, <2>1, MovedOne DEF ch
  <2>3. back(current) = Move("Prev")
    BY <1>1
  <2> HIDE DEF back
  <2> QED
    BY <1>1, <1>6, <2>1, <2>2, <2>3
<1>9. CoversBack(Src, Heads(tables, ch), X)
  <2> SUFFICES ASSUME NEW i \in DOMAIN Src, NEW x \in Src[i], x \in X
               PROVE  \E y \in Heads(tables, ch)[i] : ~Before(y, x)
    BY DEF CoversBack
  <2>1. Lined(Src[i])
    BY DatabaseFacts
  <2>2. PICK E : E = Src[i]
    OBVIOUS
  <2>3. CASE Hd[i] = {}
    <3>1. Heads(tables, ch)[i] = MovedIn(E, {}, Move("Last"))
      BY <1>8, <2>2, <2>3
    <3> QED
      BY <2>1, <2>2, <3>1, MoveFinds
  <2>4. CASE Hd[i] # {}
    <3>1. PICK e \in Src[i] : Hd[i] = {e}
      BY <1>2, <2>4
    <3>2. Heads(tables, ch)[i] = MovedIn(E, {e}, Move("Prev"))
      BY <1>8, <2>2, <2>4, <3>1
    <3>3. ~Before(e, c) /\ e \in Point
      BY <1>2, <3>1, DatabaseFacts DEF FirstIn, c
    <3>4. Before(x, e)
      BY <1>1, <1>5, <3>3, Order
    <3> QED
      BY <2>1, <2>2, <3>2, <3>4, PrevFinds
  <2> QED
    BY <2>3, <2>4
<1> QED
  <2>1. X \in SUBSET Vis
    BY <1>5
  <2> QED
    BY <1>4, <1>8, <1>9, <2>1, GoneBackward DEF X, c

-----------------------------------------------------------------------------
(* The invariant is kept *)

\* What may be shown, in numbers.
LEMMA Visible ==
  ASSUME DatabaseOK
  PROVE  /\ sequence \in Nat
         /\ \A x : x \in Vis <=> x \in entriesIn(mem, tables) /\ x.seq <= sequence
         /\ \A x \in entriesIn(mem, tables) : x \in Point /\ x.key \in Nat /\ x.seq \in Nat
         /\ \A x, y \in entriesIn(mem, tables) : x = y \/ Before(x, y) \/ Before(y, x)
         /\ \A x : x \in Live(Vis) <=>
              x \in Vis /\ ~x.del /\ \A y \in Vis : y.key = x.key => y.seq <= x.seq
<1>1. \A x : x \in Vis <=> x \in entriesIn(mem, tables) /\ x.seq <= sequence
  BY DEF Vis, Seen
<1>2. \A x \in entriesIn(mem, tables) : x \in Point /\ x.key \in Nat /\ x.seq \in Nat
  BY DatabaseFacts DEF Point
<1>3. \A x, y \in entriesIn(mem, tables) : x = y \/ Before(x, y) \/ Before(y, x)
  BY DatabaseFacts
<1>4. \A x : x \in Live(Vis) <=>
        x \in Vis /\ ~x.del /\ \A y \in Vis : y.key = x.key => y.seq <= x.seq
  BY DEF Live
<1> QED
  BY <1>1, <1>2, <1>3, <1>4, DatabaseFacts

\* What each call asks for.
LEMMA Ranges ==
  /\ \A f, k : InRange({[op |-> "SeekToFirst"]}, f, k)
  /\ \A f, k : InRange({[op |-> "SeekToLast"]}, f, k)
  /\ \A f, k, l : InRange({[op |-> "Seek", key |-> l]}, f, k) <=> k >= l
  /\ \A c, k : InRange({[op |-> "Next"]}, {c}, k) <=> k > c.key
  /\ \A c, k : InRange({[op |-> "Prev"]}, {c}, k) <=> k < c.key
<1>1. \A f, k : InRange({[op |-> "SeekToFirst"]}, f, k)
  BY DEF InRange
<1>2. \A f, k : InRange({[op |-> "SeekToLast"]}, f, k)
  BY DEF InRange
<1>3. \A f, k, l : InRange({[op |-> "Seek", key |-> l]}, f, k) <=> k >= l
  BY DEF InRange
<1>4. \A c, k : InRange({[op |-> "Next"]}, {c}, k) <=> k > c.key
  BY DEF InRange
<1>5. \A c, k : InRange({[op |-> "Prev"]}, {c}, k) <=> k < c.key
  BY DEF InRange
<1> QED
  BY <1>1, <1>2, <1>3, <1>4, <1>5

\* The calls by name.
LEMMA CallNames ==
  /\ \A call \in Calls :
       /\ call.op \in {"SeekToFirst", "SeekToLast", "Seek", "Next", "Prev"}
       /\ call.op = "SeekToFirst" => call = [op |-> "SeekToFirst"]
       /\ call.op = "SeekToLast" => call = [op |-> "SeekToLast"]
       /\ call.op = "Next" => call = [op |-> "Next"]
       /\ call.op = "Prev" => call = [op |-> "Prev"]
       /\ call.op = "Seek" => \E k \in Keys : call = [op |-> "Seek", key |-> k]
  /\ [op |-> "SeekToFirst"] \in Calls /\ [op |-> "SeekToLast"] \in Calls
  /\ [op |-> "Next"] \in Calls /\ [op |-> "Prev"] \in Calls
  /\ \A k \in Keys : [op |-> "Seek", key |-> k] \in Calls
<1>1. ASSUME NEW call \in Calls
      PROVE  /\ call.op \in {"SeekToFirst", "SeekToLast", "Seek", "Next", "Prev"}
             /\ call.op = "SeekToFirst" => call = [op |-> "SeekToFirst"]
             /\ call.op = "SeekToLast" => call = [op |-> "SeekToLast"]
             /\ call.op = "Next" => call = [op |-> "Next"]
             /\ call.op = "Prev" => call = [op |-> "Prev"]
             /\ call.op = "Seek" => \E k \in Keys : call = [op |-> "Seek", key |-> k]
  <2>1. CASE call = [op |-> "SeekToFirst"]
    BY <2>1
  <2>2. CASE call = [op |-> "SeekToLast"]
    BY <2>2
  <2>3. CASE call = [op |-> "Next"]
    BY <2>3
  <2>4. CASE call = [op |-> "Prev"]
    BY <2>4
  <2>5. CASE \E k \in Keys : call = [op |-> "Seek", key |-> k]
    BY <2>5
  <2> QED
    BY <2>1, <2>2, <2>3, <2>4, <2>5 DEF Calls
<1>2. /\ [op |-> "SeekToFirst"] \in Calls /\ [op |-> "SeekToLast"] \in Calls
      /\ [op |-> "Next"] \in Calls /\ [op |-> "Prev"] \in Calls
  BY DEF Calls
<1>3. \A k \in Keys : [op |-> "Seek", key |-> k] \in Calls
  BY DEF Calls
<1> QED
  BY <1>1, <1>2, <1>3

\* Where a call is, that part of the invariant is what counts.
LEMMA InvariantByPlace ==
  ASSUME TypeOK'
  PROVE  /\ pc' = "idle" /\ Resting' => IteratorInv'
         /\ pc' = "return" /\ Resting' /\ Answered' => IteratorInv'
         /\ pc' = "turnForward" /\ TurningForward' => IteratorInv'
         /\ pc' = "findNext" /\ FindingNext' => IteratorInv'
         /\ pc' = "turnBack" /\ TurningBack' => IteratorInv'
         /\ pc' = "back" /\ GoingBack' => IteratorInv'
         /\ pc' = "findPrev" /\ FindingPrev' => IteratorInv'
<1> USE DEF IteratorInv
<1>1. pc' = "idle" /\ Resting' => IteratorInv'
  BY DEF TurningForward, FindingNext, TurningBack, GoingBack, FindingPrev, Answered
<1>2. pc' = "return" /\ Resting' /\ Answered' => IteratorInv'
  BY DEF TurningForward, FindingNext, TurningBack, GoingBack, FindingPrev
<1>3. pc' = "turnForward" /\ TurningForward' => IteratorInv'
  BY DEF Resting, FindingNext, TurningBack, GoingBack, FindingPrev, Answered
<1>4. pc' = "findNext" /\ FindingNext' => IteratorInv'
  BY DEF Resting, TurningForward, TurningBack, GoingBack, FindingPrev, Answered
<1>5. pc' = "turnBack" /\ TurningBack' => IteratorInv'
  BY DEF Resting, TurningForward, FindingNext, GoingBack, FindingPrev, Answered
<1>6. pc' = "back" /\ GoingBack' => IteratorInv'
  BY DEF Resting, TurningForward, FindingNext, TurningBack, FindingPrev, Answered
<1>7. pc' = "findPrev" /\ FindingPrev' => IteratorInv'
  BY DEF Resting, TurningForward, FindingNext, TurningBack, GoingBack, Answered
<1> QED
  BY <1>1, <1>2, <1>3, <1>4, <1>5, <1>6, <1>7

\* A call that ends with nothing to show is right if nothing is in its range.
LEMMA NothingToShow ==
  ASSUME TypeOK', pc' = "return", valid' = FALSE,
         {x \in Live(Vis') : InRange(asked', last', x.key)} = {}
  PROVE  IteratorInv'
<1>1. Resting'
  BY DEF Resting
<1>2. Answered'
  BY DEF Answered, Ranged
<1> QED
  BY <1>1, <1>2, InvariantByPlace

\* As long as its children stay and none gets an older entry, the
\* MergingIterator can go on.
LEMMA Undisturbed ==
  ASSUME UNCHANGED <<tables, mergeVars>>, Vis' = Vis, DOMAIN Src' = DOMAIN Src,
         \A i \in DOMAIN Src : \A x \in Src'[i] : x \in Vis => x \in Src[i]
  PROVE  /\ Hd' = Hd /\ iterEntry' = iterEntry /\ current' = current
         /\ mergeDirection' = mergeDirection
         /\ Ahead => Ahead'
         /\ \A X \in SUBSET Vis : CoversBack(Src, Hd, Under(X, iterEntry)) =>
                                    CoversBack(Src', Hd', Under(X, iterEntry'))
<1>1. children' = children /\ current' = current /\ mergeDirection' = mergeDirection
      /\ tables' = tables
  BY DEF mergeVars
<1>2. Hd' = Hd
  BY <1>1 DEF Hd
<1>3. iterEntry' = iterEntry
  <2>1. childEntry(children, current)' = childEntry(children, current)
    BY <1>1 DEF childEntry
  <2> QED
    BY <2>1 DEF iterEntry
<1>4. \A X \in SUBSET Vis : Covers(Src, Hd, After(X, iterEntry)) =>
                              Covers(Src', Hd', After(X, iterEntry))
  BY <1>2 DEF Covers, After
<1>5. \A X \in SUBSET Vis : CoversBack(Src, Hd, Under(X, iterEntry)) =>
                              CoversBack(Src', Hd', Under(X, iterEntry))
  BY <1>2 DEF CoversBack, Under
<1>6. Ahead => Ahead'
  <2>1. Vis \in SUBSET Vis
    OBVIOUS
  <2>2. Covers(Src, Hd, After(Vis, iterEntry)) => Covers(Src', Hd', After(Vis, iterEntry))
    BY <1>4, <2>1
  <2> QED
    BY <1>1, <1>2, <1>3, <2>2 DEF Ahead
<1> QED
  BY <1>1, <1>2, <1>3, <1>5, <1>6

\* In particular while nobody writes.
LEMMA Standing ==
  ASSUME DatabaseOK, ChildrenOK, Steady, UNCHANGED mergeVars
  PROVE  /\ DatabaseOK' /\ ChildrenOK' /\ Vis' = Vis
         /\ Hd' = Hd /\ iterEntry' = iterEntry /\ current' = current
         /\ mergeDirection' = mergeDirection
         /\ Ahead => Ahead'
         /\ \A X \in SUBSET Vis : CoversBack(Src, Hd, Under(X, iterEntry)) =>
                                    CoversBack(Src', Hd', Under(X, iterEntry'))
<1>1. /\ DatabaseOK' /\ Src' = Src /\ Vis' = Vis /\ tables' = tables
      /\ \A i, p : ChildPos(i, p)' <=> ChildPos(i, p)
  BY Unmoved
<1>2. UNCHANGED <<tables, mergeVars>>
  BY <1>1
<1>3. /\ Hd' = Hd /\ iterEntry' = iterEntry /\ current' = current
      /\ mergeDirection' = mergeDirection
      /\ Ahead => Ahead'
      /\ \A X \in SUBSET Vis : CoversBack(Src, Hd, Under(X, iterEntry)) =>
                                 CoversBack(Src', Hd', Under(X, iterEntry'))
  BY <1>1, <1>2, Undisturbed
<1>4. ChildrenOK'
  <2>1. children' = children
    BY DEF mergeVars
  <2>2. \A i \in DOMAIN children : ChildPos(i, children[i])'
    BY <1>1, <2>1 DEF ChildrenOK, ChildPos
  <2> QED
    BY <1>1, <1>3, <2>1, <2>2 DEF ChildrenOK
<1> QED
  BY <1>1, <1>3, <1>4

\* The MergingIterator has gone forward past the entries that are not in X; all
\* that the call may show is in X and after what it stands on now.
LEMMA FindNextGoesOn ==
  ASSUME DatabaseOK, Steady, FieldsOK', NEW X \in SUBSET Vis, WentForward(X),
         direction' = "kForward", AskedOf({"SeekToFirst", "Seek", "Next"})',
         \A x \in Live(Vis) : InRange(asked', last', x.key) => x \in X,
         \/ current' = 0 /\ pc' = "return" /\ valid' = FALSE
         \/ /\ current' # 0 /\ pc' = "findNext" /\ Ahead'
            /\ \A x \in Live(Vis) : InRange(asked', last', x.key) =>
                                      ~(skipping' /\ x.key <= savedKey')
            /\ \A x \in Vis : ~Before(x, iterEntry') =>
                 /\ skipping' => x.key >= savedKey'
                 /\ ~(skipping' /\ x.key <= savedKey') =>
                      /\ InRange(asked', last', x.key)
                      /\ \A y \in Vis : y.key = x.key => ~Before(y, iterEntry')
  PROVE  IteratorInv'
<1>1. Vis' = Vis
  BY Unmoved
<1>2. TypeOK' /\ mergeDirection' = "kForward"
  BY DEF TypeOK, WentForward
<1>3. CASE current' = 0
  <2>1. X = {}
    BY <1>3 DEF WentForward
  <2>2. {x \in Live(Vis') : InRange(asked', last', x.key)} = {}
    BY <1>1, <2>1
  <2> QED
    BY <1>2, <1>3, <2>2, NothingToShow
<1>4. CASE current' # 0
  <2>1. \A x \in X : ~Before(x, iterEntry')
    BY <1>4 DEF WentForward
  <2>2. \A x \in Ranged(Live(Vis))' :
          /\ x \in Live(Vis) /\ InRange(asked', last', x.key)
    BY <1>1 DEF Ranged
  <2>3. \A x \in Ranged(Live(Vis))' : ~Before(x, iterEntry') /\ ~(skipping' /\ x.key <= savedKey')
    BY <1>4, <2>1, <2>2
  <2>4. FindingNext'
    BY <1>1, <1>2, <1>4, <2>3 DEF FindingNext, hidden
  <2> QED
    BY <1>2, <1>4, <2>4, InvariantByPlace
<1> QED
  BY <1>3, <1>4

\* Seek keeps the invariant: no entry from the target on is passed over.
LEMMA SeekKept ==
  ASSUME IteratorInv, Seek
  PROVE  IteratorInv'
<1>1. PICK k \in Keys :
        /\ called([op |-> "Seek", key |-> k])
        /\ mergeSeek([key |-> k, seq |-> sequence, del |-> FALSE])
        /\ direction' = "kForward" /\ savedKey' = k /\ savedValue' = 0
        /\ \/ findNextFrom(FALSE)
           \/ current' = 0 /\ invalid /\ UNCHANGED <<skipping, found>>
  BY DEF Seek
<1> DEFINE t == [key |-> k, seq |-> sequence, del |-> FALSE]
           X == {x \in Vis : ~Before(x, t)}
           call == [op |-> "Seek", key |-> k]
<1>2. DatabaseOK /\ ChildrenOK /\ FieldsOK
  BY DEF IteratorInv, TypeOK
<1>3. k \in Nat
  BY IteratorAssumption
<1>4. t \in Point /\ t.key = k /\ t.seq = sequence
  BY <1>2, <1>3, Visible DEF Point
<1>5. Steady /\ asked' = {call}
  BY <1>1 DEF called, Steady
<1>6. WentForward(X) /\ (current' # 0 => Ahead' /\ ~Before(iterEntry', t))
  BY <1>1, <1>2, <1>4, <1>5, MergeSeek
<1>7. \A x \in Vis : x \in Point /\ (x \in X <=> x.key >= k) /\ (~Before(x, t) <=> x.key >= k)
  <2>1. ASSUME NEW x \in Vis
        PROVE  x \in Point /\ (Before(x, t) <=> x.key < k)
    BY <1>2, <1>3, <1>4, Visible DEF Before
  <2>2. \A x \in Vis : x.key \in Nat
    BY <1>2, Visible
  <2>3. \A x : x \in X <=> x \in Vis /\ ~Before(x, t)
    OBVIOUS
  <2> HIDE DEF t, X
  <2> QED
    BY <1>3, <2>1, <2>2, <2>3
<1>8. \A x : InRange(asked', last', x.key) <=> x.key >= k
  BY <1>5, Ranges
<1>9. AskedOf({"SeekToFirst", "Seek", "Next"})' /\ call \in Calls
  <2>1. call \in Calls /\ call.op \in {"SeekToFirst", "Seek", "Next"}
    BY CallNames
  <2> QED
    BY <1>5, <2>1 DEF AskedOf
<1> HIDE DEF t, X, call
<1>10. FieldsOK'
  BY <1>1, <1>2, <1>3, <1>5, <1>6, <1>9 DEF FieldsOK, findNextFrom, invalid, WentForward
<1>11. ASSUME current' # 0
       PROVE  /\ skipping' = FALSE /\ pc' = "findNext" /\ Ahead'
              /\ \A x \in Vis : ~Before(x, iterEntry') =>
                   /\ InRange(asked', last', x.key)
                   /\ \A y \in Vis : y.key = x.key => ~Before(y, iterEntry')
  <2>1. iterEntry' \in Point /\ ~Before(iterEntry', t) /\ \A x \in X : ~Before(x, iterEntry')
    BY <1>6, <1>11 DEF WentForward
  <2>2. ASSUME NEW x \in Vis, ~Before(x, iterEntry')
        PROVE  x.key >= k
    BY <1>4, <1>7, <2>1, <2>2, Order
  <2> QED
    BY <1>1, <1>6, <1>7, <1>8, <1>11, <2>1, <2>2 DEF findNextFrom
<1>12. X \in SUBSET Vis
  BY DEF X
<1>13. \A x \in Live(Vis) : InRange(asked', last', x.key) => x \in X
  BY <1>2, <1>7, <1>8, Visible
<1>14. \/ current' = 0 /\ pc' = "return" /\ valid' = FALSE
       \/ current' # 0
  BY <1>1 DEF invalid, findNextFrom
<1> QED
  BY <1>1, <1>2, <1>5, <1>6, <1>9, <1>10, <1>11, <1>12, <1>13, <1>14, FindNextGoesOn

\* SeekToFirst keeps it: nothing is passed over.
LEMMA SeekToFirstKept ==
  ASSUME IteratorInv, SeekToFirst
  PROVE  IteratorInv'
<1> DEFINE call == [op |-> "SeekToFirst"]
<1>1. DatabaseOK /\ ChildrenOK /\ FieldsOK
  BY DEF IteratorInv, TypeOK
<1>2. /\ called(call) /\ mergeSeekToFirst
      /\ direction' = "kForward" /\ savedValue' = 0 /\ savedKey' = savedKey
      /\ \/ findNextFrom(FALSE)
         \/ current' = 0 /\ invalid /\ UNCHANGED <<skipping, found>>
  BY DEF SeekToFirst
<1>3. Steady /\ asked' = {call}
  BY <1>2 DEF called, Steady
<1>4. WentForward(Vis) /\ (current' # 0 => Ahead')
  BY <1>1, <1>2, <1>3, MergeFirst
<1>5. \A x : InRange(asked', last', x.key)
  BY <1>3, Ranges
<1>6. AskedOf({"SeekToFirst", "Seek", "Next"})' /\ call \in Calls
  <2>1. call \in Calls /\ call.op \in {"SeekToFirst", "Seek", "Next"}
    BY CallNames
  <2> QED
    BY <1>3, <2>1 DEF AskedOf
<1> HIDE DEF call
<1>7. FieldsOK'
  BY <1>1, <1>2, <1>3, <1>4, <1>6 DEF FieldsOK, findNextFrom, invalid, WentForward
<1>8. Vis \in SUBSET Vis /\ \A x \in Live(Vis) : x \in Vis
  BY DEF Live
<1>9. ASSUME current' # 0
      PROVE  /\ skipping' = FALSE /\ pc' = "findNext" /\ Ahead'
             /\ \A x \in Vis : ~Before(x, iterEntry')
  BY <1>2, <1>4, <1>9 DEF findNextFrom, WentForward
<1>10. \/ current' = 0 /\ pc' = "return" /\ valid' = FALSE
       \/ current' # 0
  BY <1>2 DEF invalid, findNextFrom
<1> QED
  BY <1>1, <1>2, <1>3, <1>4, <1>5, <1>6, <1>7, <1>8, <1>9, <1>10, FindNextGoesOn

\* Next from an entry it came to forward: the entries of its key are hidden.
LEMMA NextAheadKept ==
  ASSUME IteratorInv, Next, direction = "kForward"
  PROVE  IteratorInv'
<1> DEFINE call == [op |-> "Next"]
           c == iterEntry
<1>1. DatabaseOK /\ ChildrenOK /\ FieldsOK /\ Resting
  BY DEF IteratorInv, TypeOK
<1>2. /\ valid /\ called(call) /\ direction' = "kForward"
      /\ UNCHANGED mergeVars /\ savedKey' = c.key /\ savedValue' = savedValue
      /\ findNextFrom(TRUE)
  BY DEF Next
<1>3. Steady /\ asked' = {call} /\ last' = shown /\ pc = "idle"
  BY <1>2 DEF called, Steady
<1>4. mergeDirection = "kForward" /\ Ahead /\ c \in Live(Vis)
  BY <1>1, <1>2, <1>3 DEF Resting, OnEntryForward, OnEntryReverse
<1>5. c \in Point /\ c.key \in Nat /\ c.seq \in Nat
  BY <1>1, <1>4, CurrentEntry DEF Ahead, Point
<1>6. /\ DatabaseOK' /\ ChildrenOK' /\ Vis' = Vis /\ Ahead' /\ iterEntry' = c
      /\ mergeDirection' = "kForward"
  BY <1>1, <1>2, <1>3, <1>4, Standing
<1>7. last' = {[key |-> c.key, seq |-> c.seq]}
  BY <1>2, <1>3 DEF shown
<1>8. \A x : InRange(asked', last', x.key) <=> x.key > c.key
  <2>1. PICK l : l = [key |-> c.key, seq |-> c.seq]
    OBVIOUS
  <2>2. last' = {l} /\ l.key = c.key
    BY <1>7, <2>1
  <2>3. \A k : InRange({call}, {l}, k) <=> k > l.key
    BY Ranges
  <2>4. \A k : InRange(asked', last', k) <=> k > l.key
    BY <1>3, <2>2, <2>3
  <2> QED
    BY <2>2, <2>4
<1>9. AskedOf({"SeekToFirst", "Seek", "Next"})' /\ call \in Calls
  <2>1. call \in Calls /\ call.op \in {"SeekToFirst", "Seek", "Next"}
    BY CallNames
  <2> QED
    BY <1>3, <2>1 DEF AskedOf
<1>10. /\ pc' = "findNext" /\ skipping' = TRUE /\ valid' = valid /\ found' = found
  BY <1>2 DEF findNextFrom
<1> HIDE DEF call, c
<1>11. TypeOK'
  BY <1>1, <1>2, <1>3, <1>5, <1>6, <1>9, <1>10 DEF TypeOK, FieldsOK
<1>12. \A x \in Vis : x.key \in Nat /\ (Before(x, c) => x.key <= c.key)
                      /\ (x.key < c.key => Before(x, c))
  BY <1>1, <1>5, Visible DEF Before
<1>13. \A x : hidden(x)' <=> x.key <= c.key
  BY <1>2, <1>10 DEF hidden
<1>14. \A x \in Ranged(Live(Vis))' : x \in Vis /\ x.key > c.key
  BY <1>1, <1>6, <1>8, Visible DEF Ranged
<1>15. FindingNext'
  <2>1. \A x \in Ranged(Live(Vis))' : ~Before(x, iterEntry') /\ ~hidden(x)'
    BY <1>5, <1>6, <1>12, <1>13, <1>14
  <2>2. \A x \in Vis : ~Before(x, c) =>
          /\ x.key >= savedKey'
          /\ ~hidden(x)' => /\ InRange(asked', last', x.key)
                            /\ \A y \in Vis : y.key = x.key => ~Before(y, c)
    BY <1>2, <1>5, <1>8, <1>12, <1>13
  <2> QED
    BY <1>2, <1>6, <1>9, <2>1, <2>2 DEF FindingNext
<1> QED
  BY <1>10, <1>11, <1>15, InvariantByPlace

\* Next after it came backward to the first key.
LEMMA NextFromStartKept ==
  ASSUME IteratorInv, Next, direction = "kReverse", current = 0
  PROVE  IteratorInv'
<1> DEFINE call == [op |-> "Next"]
<1>1. DatabaseOK /\ ChildrenOK /\ FieldsOK /\ Resting
  BY DEF IteratorInv, TypeOK
<1>2. valid /\ called(call) /\ direction' = "kForward" /\ mergeSeekToFirst /\ leaveKey
  BY DEF Next
<1>3. Steady /\ asked' = {call} /\ last' = shown /\ pc = "idle"
  BY <1>2 DEF called, Steady
<1>4. Lower(Vis, savedKey) = {} /\ savedKey \in Nat
  BY <1>1, <1>2, <1>3 DEF Resting, OnEntryForward, OnEntryReverse, Gap, FieldsOK
<1>5. WentForward(Vis) /\ (current' # 0 => Ahead')
  BY <1>1, <1>2, <1>3, MergeFirst
<1>6. \A x : InRange(asked', last', x.key) <=> x.key > savedKey
  <2>1. PICK l : l = [key |-> savedKey, seq |-> savedValue]
    OBVIOUS
  <2>2. last' = {l} /\ l.key = savedKey
    BY <1>2, <1>3, <2>1 DEF shown
  <2>3. \A k : InRange({call}, {l}, k) <=> k > l.key
    BY Ranges
  <2> QED
    BY <1>3, <2>2, <2>3
<1>7. AskedOf({"SeekToFirst", "Seek", "Next"})' /\ call \in Calls
  <2>1. call \in Calls /\ call.op \in {"SeekToFirst", "Seek", "Next"}
    BY CallNames
  <2> QED
    BY <1>3, <2>1 DEF AskedOf
<1> HIDE DEF call
<1>8. \/ current' = 0 /\ pc' = "return" /\ valid' = FALSE
      \/ current' # 0 /\ pc' = "findNext" /\ skipping' = TRUE /\ savedKey' = savedKey
  BY <1>2 DEF leaveKey, findNextFrom, invalid
<1>9. FieldsOK'
  <2>1. /\ valid' \in BOOLEAN /\ skipping' \in BOOLEAN /\ found' \in BOOLEAN
        /\ savedKey' \in Nat /\ savedValue' \in Nat
    <3>1. /\ valid' = valid \/ valid' = FALSE
          /\ skipping' = skipping \/ skipping' = TRUE
          /\ found' = found /\ savedValue' = savedValue
          /\ savedKey' = savedKey \/ savedKey' = 0
      BY <1>2 DEF leaveKey, findNextFrom, invalid
    <3>2. /\ valid \in BOOLEAN /\ skipping \in BOOLEAN /\ found \in BOOLEAN
          /\ savedKey \in Nat /\ savedValue \in Nat
      BY <1>1 DEF FieldsOK
    <3>3. valid' \in BOOLEAN /\ skipping' \in BOOLEAN /\ found' \in BOOLEAN
      BY <3>1, <3>2, Zenon
    <3>4. savedKey' \in Nat /\ savedValue' \in Nat
      BY <3>1, <3>2
    <3> QED
      BY <3>3, <3>4
  <2>2. mergeDirection' = "kForward"
    BY <1>5 DEF WentForward
  <2> QED
    BY <1>2, <1>3, <1>7, <1>8, <2>1, <2>2 DEF FieldsOK
<1>10. Vis \in SUBSET Vis /\ \A x \in Live(Vis) : x \in Vis
  BY DEF Live
<1>11. \A x \in Vis : x.key \in Nat /\ x.key >= savedKey
  <2>1. \A x \in Vis : x.key \in Nat /\ ~(x.key < savedKey)
    BY <1>1, <1>4, Visible DEF Lower
  <2> QED
    BY <1>4, <2>1
<1>12. current' # 0 => \A x \in Vis : ~Before(x, iterEntry')
  BY <1>5 DEF WentForward
<1>13. ASSUME current' # 0
       PROVE  /\ \A x \in Live(Vis) : InRange(asked', last', x.key) =>
                                        ~(skipping' /\ x.key <= savedKey')
              /\ \A x \in Vis : ~(skipping' /\ x.key <= savedKey') =>
                                  InRange(asked', last', x.key)
              /\ \A x \in Vis : x.key >= savedKey'
  BY <1>4, <1>6, <1>8, <1>10, <1>11, <1>13
<1> QED
  BY <1>1, <1>2, <1>3, <1>5, <1>7, <1>8, <1>9, <1>10, <1>12, <1>13, FindNextGoesOn

\* Next after it came backward to a later key: the direction changes.
LEMMA NextTurningKept ==
  ASSUME IteratorInv, Next, direction = "kReverse", current # 0
  PROVE  IteratorInv'
<1> DEFINE call == [op |-> "Next"]
<1>1. DatabaseOK /\ ChildrenOK /\ FieldsOK /\ Resting
  BY DEF IteratorInv, TypeOK
<1>2. /\ valid /\ called(call) /\ direction' = "kForward"
      /\ seekOthers("kForward") /\ pc' = "turnForward"
      /\ UNCHANGED <<valid, savedKey, savedValue, skipping, found>>
  BY DEF Next
<1>3. Steady /\ asked' = {call} /\ last' = shown /\ pc = "idle"
  BY <1>2 DEF called, Steady
<1>4. /\ mergeDirection = "kReverse"
      /\ iterEntry.key < savedKey /\ \A x \in Lower(Vis, savedKey) : ~Before(iterEntry, x)
  BY <1>1, <1>2, <1>3 DEF Resting, OnEntryForward, OnEntryReverse, Gap
<1>5. /\ DatabaseOK' /\ ChildrenOK' /\ Ahead'
      /\ mergeDirection' = mergeDirection /\ iterEntry' = iterEntry
  BY <1>1, <1>2, <1>3, <1>4, MergeSeeksOthers
<1>6. Vis' = Vis
  BY <1>1, <1>3, Unmoved
<1>7. LastKey(savedKey)'
  <2>1. PICK l : l = [key |-> savedKey, seq |-> savedValue]
    OBVIOUS
  <2>2. l \in [key : Nat, seq : Nat] /\ l.key = savedKey
    BY <1>1, <2>1 DEF FieldsOK
  <2>3. last' = {l}
    BY <1>2, <1>3, <2>1 DEF shown
  <2> QED
    BY <1>2, <2>2, <2>3 DEF LastKey
<1>8. AskedOf({"Next"})' /\ call \in Calls
  <2>1. call \in Calls /\ call.op \in {"Next"}
    BY CallNames
  <2> QED
    BY <1>3, <2>1 DEF AskedOf
<1> HIDE DEF call
<1>9. TypeOK'
  BY <1>1, <1>2, <1>3, <1>5, <1>8 DEF TypeOK, FieldsOK
<1>10. TurningForward'
  BY <1>2, <1>4, <1>5, <1>6, <1>7, <1>8 DEF TurningForward, Lower
<1> QED
  BY <1>2, <1>9, <1>10, InvariantByPlace

\* Next keeps the invariant, whatever the direction before.
LEMMA NextKept ==
  ASSUME IteratorInv, Next
  PROVE  IteratorInv'
<1>1. direction = "kForward" \/ (direction = "kReverse" /\ (current = 0 \/ current # 0))
  BY DEF IteratorInv, TypeOK, FieldsOK
<1> QED
  BY <1>1, NextAheadKept, NextFromStartKept, NextTurningKept

\* Calls that are under way and were made on an entry.
LEMMA RangeOfStep ==
  ASSUME continues, NEW op \in {"Next", "Prev"}, AskedOf({op}), LastKey(savedKey)
  PROVE  /\ asked' = asked /\ last' = last /\ Steady
         /\ op = "Next" => \A k : InRange(asked, last, k) <=> k > savedKey
         /\ op = "Prev" => \A k : InRange(asked, last, k) <=> k < savedKey
<1>1. asked' = asked /\ last' = last /\ Steady
  BY DEF continues, Steady
<1>2. PICK call \in Calls : asked = {call} /\ call.op = op
  BY DEF AskedOf
<1>3. call = [op |-> op]
  BY <1>2, CallNames
<1>4. PICK c : last = {c} /\ c.key = savedKey
  BY DEF LastKey
<1> QED
  BY <1>1, <1>2, <1>3, <1>4, Ranges

\* The rest of a Next that turned: the children that were before the current
\* entry have come back to it, and pass it together.
LEMMA TurnForwardKept ==
  ASSUME IteratorInv, TurnForward
  PROVE  IteratorInv'
<1> DEFINE c == iterEntry
           X == After(Vis, c)
<1>1. DatabaseOK /\ ChildrenOK /\ FieldsOK /\ TurningForward
  BY DEF IteratorInv, TypeOK
<1>2. pc = "turnForward" /\ continues /\ nextTurning /\ leaveKey /\ direction' = direction
  BY DEF TurnForward
<1>3. /\ AskedOf({"Next"}) /\ LastKey(savedKey)
      /\ direction = "kForward" /\ mergeDirection = "kReverse" /\ Ahead
      /\ c.key < savedKey /\ \A x \in Lower(Vis, savedKey) : ~Before(c, x)
  BY <1>1, <1>2 DEF TurningForward
<1>4. /\ asked' = asked /\ last' = last /\ Steady
      /\ \A k : InRange(asked, last, k) <=> k > savedKey
  BY <1>2, <1>3, RangeOfStep
<1>5. WentForward(X) /\ (current' # 0 => Ahead' /\ Before(c, iterEntry'))
  BY <1>1, <1>2, <1>3, <1>4, MergeNextTurning
<1>6. c \in Point /\ c.key \in Nat /\ savedKey \in Nat
  BY <1>1, <1>3, CurrentEntry DEF Ahead, FieldsOK
<1>7. AskedOf({"SeekToFirst", "Seek", "Next"})'
  BY <1>3, <1>4 DEF AskedOf
<1>8. \A x : x \in X <=> x \in Vis /\ Before(c, x)
  BY DEF After
<1> HIDE DEF c, X
<1>9. \/ current' = 0 /\ pc' = "return" /\ valid' = FALSE
      \/ current' # 0 /\ pc' = "findNext" /\ skipping' = TRUE /\ savedKey' = savedKey
  BY <1>2 DEF leaveKey, findNextFrom, invalid
<1>10. FieldsOK'
  <2>1. /\ valid' \in BOOLEAN /\ skipping' \in BOOLEAN /\ found' \in BOOLEAN
        /\ savedKey' \in Nat /\ savedValue' \in Nat
    <3>1. /\ valid' = valid \/ valid' = FALSE
          /\ skipping' = skipping \/ skipping' = TRUE
          /\ found' = found /\ savedValue' = savedValue
          /\ savedKey' = savedKey \/ savedKey' = 0
      BY <1>2 DEF leaveKey, findNextFrom, invalid
    <3>2. /\ valid \in BOOLEAN /\ skipping \in BOOLEAN /\ found \in BOOLEAN
          /\ savedKey \in Nat /\ savedValue \in Nat
      BY <1>1 DEF FieldsOK
    <3>3. valid' \in BOOLEAN /\ skipping' \in BOOLEAN /\ found' \in BOOLEAN
      BY <3>1, <3>2, Zenon
    <3>4. savedKey' \in Nat /\ savedValue' \in Nat
      BY <3>1, <3>2
    <3> QED
      BY <3>3, <3>4
  <2>2. mergeDirection' = "kForward"
    BY <1>5 DEF WentForward
  <2>3. \E call \in Calls : asked' = {call}
    BY <1>7 DEF AskedOf
  <2> QED
    BY <1>2, <1>3, <1>9, <2>1, <2>2, <2>3 DEF FieldsOK
<1>11. \A x \in Vis : x \in Point /\ x.key \in Nat
  BY <1>1, Visible
<1>12. \A x \in Vis : x.key > savedKey => x \in X
  BY <1>3, <1>6, <1>8, <1>11 DEF Before
<1>13. ASSUME current' # 0, NEW x \in Vis, ~Before(x, iterEntry')
       PROVE  x.key >= savedKey
  <2>1. Before(c, iterEntry') /\ iterEntry' \in Point
    BY <1>5, <1>13 DEF WentForward
  <2>2. Before(c, x)
    BY <1>6, <1>11, <1>13, <2>1, Order
  <2>3. ~(x.key < savedKey)
    BY <1>3, <2>2 DEF Lower
  <2> QED
    BY <1>6, <1>11, <2>3
<1>14. current' # 0 => \A y \in X : ~Before(y, iterEntry')
  BY <1>5 DEF WentForward
<1>15. X \in SUBSET Vis /\ \A x \in Live(Vis) : x \in Vis
  BY <1>8 DEF Live
<1>16. \A x \in Live(Vis) : InRange(asked', last', x.key) => x \in X
  BY <1>4, <1>12, <1>15
<1>17. ASSUME current' # 0
       PROVE  /\ \A x \in Live(Vis) : InRange(asked', last', x.key) =>
                                        ~(skipping' /\ x.key <= savedKey')
              /\ \A x \in Vis : ~Before(x, iterEntry') =>
                   /\ skipping' => x.key >= savedKey'
                   /\ ~(skipping' /\ x.key <= savedKey') =>
                        /\ InRange(asked', last', x.key)
                        /\ \A y \in Vis : y.key = x.key => ~Before(y, iterEntry')
  <2>1. skipping' = TRUE /\ savedKey' = savedKey
    BY <1>9, <1>17
  <2>2. \A x \in Vis : InRange(asked', last', x.key) <=> ~(x.key <= savedKey)
    BY <1>4, <1>6, <1>11
  <2>3. \A x \in Vis : ~(x.key <= savedKey) =>
          \A y \in Vis : y.key = x.key => ~Before(y, iterEntry')
    BY <1>6, <1>11, <1>12, <1>14, <1>17
  <2> QED
    BY <1>13, <1>15, <1>17, <2>1, <2>2, <2>3
<1> QED
  BY <1>1, <1>2, <1>3, <1>4, <1>5, <1>7, <1>9, <1>10, <1>15, <1>16, <1>17, FindNextGoesOn

\* What the loop of FindNextUserEntry has passed over, with the entry it looks
\* at: every live entry in range is after it unless it is the one to show.
LEMMA SkipKept ==
  ASSUME IteratorInv, SkipEntry
  PROVE  IteratorInv'
<1> DEFINE e == iterEntry
           deletion == e.seq <= sequence /\ e.del
           X == After(Vis, e)
           R == {x \in Live(Vis) : InRange(asked, last, x.key)}
<1>1. DatabaseOK /\ ChildrenOK /\ FieldsOK /\ FindingNext
  BY DEF IteratorInv, TypeOK
<1>2. /\ pc = "findNext" /\ continues
      /\ e.seq > sequence \/ e.del \/ hidden(e)
      /\ mergeNext /\ skipping' = (skipping \/ deletion)
      /\ \/ /\ current' # 0
            /\ savedKey' = IF deletion THEN e.key ELSE savedKey
            /\ UNCHANGED <<valid, pc>>
         \/ current' = 0 /\ invalid /\ savedKey' = 0
      /\ UNCHANGED <<direction, savedValue, found>>
  BY DEF SkipEntry
<1>3. /\ AskedOf({"SeekToFirst", "Seek", "Next"})
      /\ direction = "kForward" /\ mergeDirection = "kForward" /\ Ahead
  BY <1>1, <1>2 DEF FindingNext
<1>4. \A x \in R : ~Before(x, e) /\ ~hidden(x)
  BY <1>1, <1>2 DEF FindingNext, Ranged
<1>5. \A x \in Vis : ~Before(x, e) =>
        /\ skipping => x.key >= savedKey
        /\ ~hidden(x) => /\ InRange(asked, last, x.key)
                         /\ \A y \in Vis : y.key = x.key => ~Before(y, e)
  BY <1>1, <1>2 DEF FindingNext
<1>6. asked' = asked /\ last' = last /\ Steady
  BY <1>2 DEF continues, Steady
<1>7. WentForward(X) /\ (current' # 0 => Ahead' /\ ~Before(iterEntry', e))
  BY <1>1, <1>2, <1>3, <1>6, MergeNext
<1>8. /\ e \in Point /\ e.key \in Nat /\ e.seq \in Nat /\ e \in entriesIn(mem, tables)
      /\ savedKey \in Nat /\ sequence \in Nat
      /\ skipping \in BOOLEAN /\ found \in BOOLEAN /\ valid \in BOOLEAN /\ savedValue \in Nat
  BY <1>1, <1>3, CurrentEntry, DatabaseFacts DEF Ahead, FieldsOK
<1>9. /\ \A x : x \in X <=> x \in Vis /\ Before(e, x)
      /\ \A x : hidden(x) <=> skipping /\ x.key <= savedKey
      /\ \A x : x \in R <=> x \in Live(Vis) /\ InRange(asked, last, x.key)
  BY DEF After, hidden
<1>10. \A x \in Vis : /\ x \in Point /\ x.key \in Nat /\ x.seq \in Nat /\ x.seq <= sequence
                      /\ x = e \/ Before(e, x) \/ Before(x, e)
  BY <1>1, <1>8, Visible
<1>11. \A x \in R : x \in Vis /\ ~x.del /\ \A y \in Vis : y.key = x.key => y.seq <= x.seq
  BY <1>1, Visible
<1>12. deletion => e \in Vis /\ e.del
  BY <1>1, <1>8, Visible
<1>13. AskedOf({"SeekToFirst", "Seek", "Next"})'
  BY <1>3, <1>6 DEF AskedOf
<1>14. ~deletion => e.seq > sequence \/ hidden(e)
  BY <1>2, <1>8
<1> HIDE DEF e, deletion, X, R
<1>15. FieldsOK'
  <2>1. /\ valid' = valid \/ valid' = FALSE
        /\ found' = found /\ savedValue' = savedValue
        /\ savedKey' = savedKey \/ savedKey' = 0 \/ savedKey' = e.key
        /\ pc' = "findNext" \/ pc' = "return"
    BY <1>2 DEF invalid
  <2>2. valid' \in BOOLEAN /\ skipping' \in BOOLEAN /\ found' \in BOOLEAN
    <3>1. skipping' \in BOOLEAN
      BY <1>2, Zenon
    <3> QED
      BY <1>8, <2>1, <3>1, Zenon
  <2>3. savedKey' \in Nat /\ savedValue' \in Nat
    BY <1>8, <2>1
  <2>4. mergeDirection' = "kForward"
    BY <1>7 DEF WentForward
  <2>5. \E call \in Calls : asked' = {call}
    BY <1>13 DEF AskedOf
  <2> QED
    BY <1>2, <1>3, <2>1, <2>2, <2>3, <2>4, <2>5 DEF FieldsOK
<1>16. \A x \in R : x \in X
  <2> TAKE x \in R
  <2>1. x # e
    <3>1. CASE deletion
      BY <1>11, <1>12, <3>1
    <3>2. CASE ~deletion /\ e.seq > sequence
      BY <1>8, <1>10, <1>11, <3>2
    <3>3. CASE ~deletion /\ hidden(e)
      BY <1>4, <3>3
    <3> QED
      BY <1>14, <3>1, <3>2, <3>3
  <2> QED
    BY <1>4, <1>9, <1>10, <1>11, <2>1
<1>17. ASSUME deletion, NEW x \in R
       PROVE  x.key > e.key
  <2>1. Before(e, x) /\ x \in Vis
    BY <1>9, <1>16, <1>17
  <2>2. e.key = x.key => e.seq <= x.seq
    BY <1>11, <1>12, <1>17
  <2> QED
    BY <1>8, <1>10, <2>1, <2>2 DEF Before
<1>18. \A y \in Vis : y.key > e.key => y \in X
  BY <1>8, <1>9, <1>10 DEF Before
<1>19. ASSUME current' # 0
       PROVE  /\ \A x \in R : ~(skipping' /\ x.key <= savedKey')
              /\ \A x \in Vis : ~Before(x, iterEntry') =>
                   /\ skipping' => x.key >= savedKey'
                   /\ ~(skipping' /\ x.key <= savedKey') =>
                        /\ InRange(asked, last, x.key)
                        /\ \A y \in Vis : y.key = x.key => ~Before(y, iterEntry')
  <2>1. /\ \A y \in X : ~Before(y, iterEntry')
        /\ iterEntry' \in Point /\ ~Before(iterEntry', e)
    BY <1>7, <1>19 DEF WentForward
  <2>2. \A x \in Vis : ~Before(x, iterEntry') => ~Before(x, e)
    BY <1>8, <1>10, <2>1, Order
  <2>3. CASE deletion
    <3>1. (skipping' <=> TRUE) /\ savedKey' = e.key
      BY <1>2, <1>19, <2>3
    <3>2. \A x \in R : ~(skipping' /\ x.key <= savedKey')
      BY <1>8, <1>10, <1>11, <1>17, <2>3, <3>1
    <3>3. skipping => e.key >= savedKey
      <4>1. ~Before(e, e)
        BY <1>8, Order
      <4> QED
        BY <1>5, <1>12, <2>3, <4>1
    <3>4. ASSUME NEW x \in Vis, ~Before(x, iterEntry')
          PROVE  /\ x.key >= e.key
                 /\ x.key > e.key => /\ InRange(asked, last, x.key)
                                     /\ \A y \in Vis : y.key = x.key => ~Before(y, iterEntry')
      <4>1. ~Before(x, e)
        BY <2>2, <3>4
      <4>2. x.key >= e.key
        BY <1>8, <1>10, <4>1 DEF Before
      <4>3. ASSUME x.key > e.key
            PROVE  InRange(asked, last, x.key)
        <5>1. ~hidden(x)
          BY <1>8, <1>9, <1>10, <3>3, <4>3
        <5> QED
          BY <1>5, <4>1, <5>1
      <4>4. x.key > e.key => \A y \in Vis : y.key = x.key => ~Before(y, iterEntry')
        BY <1>18, <2>1
      <4> QED
        BY <4>2, <4>3, <4>4
    <3>5. \A x \in Vis : ~(x.key <= e.key) <=> x.key > e.key
      BY <1>8, <1>10
    <3> QED
      BY <3>1, <3>2, <3>4, <3>5
  <2>4. CASE ~deletion
    <3>1. (skipping' <=> skipping) /\ savedKey' = savedKey
      BY <1>2, <1>19, <2>4
    <3>2. \A x \in R : ~(skipping' /\ x.key <= savedKey')
      BY <1>4, <1>9, <3>1
    <3>3. ASSUME NEW x \in Vis, ~Before(x, iterEntry'), ~hidden(x),
                 NEW y \in Vis, y.key = x.key
          PROVE  ~Before(y, iterEntry')
      <4>1. ~Before(y, e)
        BY <1>5, <2>2, <3>3
      <4>2. y # e
        <5>1. SUFFICES ASSUME y = e
                       PROVE  FALSE
          OBVIOUS
        <5>2. hidden(e)
          BY <1>8, <1>10, <1>14, <2>4, <5>1
        <5>3. hidden(x)
          BY <1>9, <3>3, <5>1, <5>2
        <5> QED
          BY <3>3, <5>3
      <4> QED
        BY <1>9, <1>10, <2>1, <4>1, <4>2
    <3>4. \A x \in Vis : ~Before(x, iterEntry') =>
            /\ skipping => x.key >= savedKey
            /\ ~hidden(x) => InRange(asked, last, x.key)
      BY <1>5, <2>2
    <3> QED
      BY <1>9, <3>1, <3>2, <3>3, <3>4
  <2> QED
    BY <2>3, <2>4
<1>20. X \in SUBSET Vis /\ direction' = "kForward"
  BY <1>2, <1>3, <1>9
<1>21. \A x \in Live(Vis) : InRange(asked', last', x.key) => x \in X
  BY <1>6, <1>9, <1>16
<1>22. \/ current' = 0 /\ pc' = "return" /\ valid' = FALSE
       \/ /\ current' # 0 /\ pc' = "findNext" /\ Ahead'
          /\ \A x \in Live(Vis) : InRange(asked', last', x.key) =>
                                    ~(skipping' /\ x.key <= savedKey')
          /\ \A x \in Vis : ~Before(x, iterEntry') =>
               /\ skipping' => x.key >= savedKey'
               /\ ~(skipping' /\ x.key <= savedKey') =>
                    /\ InRange(asked', last', x.key)
                    /\ \A y \in Vis : y.key = x.key => ~Before(y, iterEntry')
  <2>1. CASE current' = 0
    BY <1>2, <2>1 DEF invalid
  <2>2. CASE current' # 0
    <3>1. pc' = "findNext" /\ Ahead'
      BY <1>2, <1>7, <2>2
    <3> QED
      BY <1>6, <1>9, <1>19, <2>2, <3>1
  <2> QED
    BY <2>1, <2>2
<1> QED
  BY <1>1, <1>6, <1>7, <1>13, <1>15, <1>20, <1>21, <1>22, FindNextGoesOn

\* The entry FindNextUserEntry stops at is live and the first live one in range.
LEMMA YieldEntryKept ==
  ASSUME IteratorInv, YieldEntry
  PROVE  IteratorInv'
<1> DEFINE e == iterEntry
<1>1. DatabaseOK /\ ChildrenOK /\ FieldsOK /\ FindingNext
  BY DEF IteratorInv, TypeOK
<1>2. /\ pc = "findNext" /\ continues
      /\ e.seq <= sequence /\ ~e.del /\ ~hidden(e)
      /\ valid' = TRUE /\ savedKey' = 0 /\ pc' = "return"
      /\ UNCHANGED <<mergeVars, direction, savedValue, skipping, found>>
  BY DEF YieldEntry
<1>3. /\ AskedOf({"SeekToFirst", "Seek", "Next"})
      /\ direction = "kForward" /\ mergeDirection = "kForward" /\ Ahead
      /\ \A x \in Ranged(Live(Vis)) : ~Before(x, e)
      /\ \A x \in Vis : ~Before(x, e) /\ ~hidden(x) =>
           InRange(asked, last, x.key) /\ \A y \in Vis : y.key = x.key => ~Before(y, e)
  BY <1>1, <1>2 DEF FindingNext
<1>4. asked' = asked /\ last' = last /\ Steady
  BY <1>2 DEF continues, Steady
<1>5. /\ e \in Point /\ e.key \in Nat /\ e.seq \in Nat /\ e \in entriesIn(mem, tables)
  BY <1>1, <1>3, CurrentEntry DEF Ahead
<1>6. /\ DatabaseOK' /\ ChildrenOK' /\ Vis' = Vis /\ Ahead' /\ iterEntry' = e
      /\ mergeDirection' = "kForward"
  BY <1>1, <1>2, <1>3, <1>4, Standing
<1>7. e \in Vis /\ ~Before(e, e)
  BY <1>1, <1>2, <1>5, Visible, Order
<1>8. InRange(asked, last, e.key) /\ \A y \in Vis : y.key = e.key => ~Before(y, e)
  BY <1>2, <1>3, <1>7
<1> HIDE DEF e
<1>9. e \in Live(Vis)
  <2>1. \A y \in Vis : y.seq \in Nat
    BY <1>1, Visible
  <2>2. \A y \in Vis : y.key = e.key => y.seq <= e.seq
    BY <1>5, <1>8, <2>1 DEF Before
  <2> QED
    BY <1>1, <1>2, <1>7, <2>2, Visible
<1>10. TypeOK'
  <2>1. \E call \in Calls : asked' = {call}
    BY <1>3, <1>4 DEF AskedOf
  <2> QED
    BY <1>1, <1>2, <1>3, <1>6, <2>1 DEF TypeOK, FieldsOK
<1>11. Resting'
  BY <1>2, <1>3, <1>6, <1>9 DEF Resting, OnEntryForward
<1>12. Answered'
  <2>1. shown' = {[key |-> e.key, seq |-> e.seq]}
    BY <1>2, <1>3, <1>6 DEF shown
  <2>2. ~AskedOf({"SeekToLast", "Prev"})'
    BY <1>3, <1>4 DEF AskedOf
  <2>3. Ranged(Live(Vis))' = Ranged(Live(Vis))
    BY <1>4, <1>6 DEF Ranged
  <2>4. e \in Ranged(Live(Vis))
    BY <1>8, <1>9 DEF Ranged
  <2>5. \A x \in Ranged(Live(Vis)) : e.key <= x.key
    <3>1. \A x \in Ranged(Live(Vis)) : x.key \in Nat /\ ~Before(x, e)
      BY <1>1, <1>3, Visible DEF Ranged, e
    <3> QED
      BY <1>5, <3>1 DEF Before
  <2> QED
    BY <1>2, <2>1, <2>2, <2>3, <2>4, <2>5 DEF Answered
<1> QED
  BY <1>2, <1>10, <1>11, <1>12, InvariantByPlace

\* Into the loop of FindPrevUserEntry: all that is in range and visible is
\* before what the MergingIterator stands on or that itself.
LEMMA FindPrevBegins ==
  ASSUME DatabaseOK', ChildrenOK', FieldsOK', Vis' = Vis,
         AskedOf({"SeekToLast", "Prev"})', mergeDirection' = "kReverse",
         AskedOf({"Prev"})' => \E k \in Nat : LastKey(k)',
         NEW R, R = {x \in Vis : InRange(asked', last', x.key)},
         findPrevFrom(savedValue'),
         current' = 0 => R = {},
         current' # 0 => /\ InRange(asked', last', iterEntry'.key)
                         /\ LastIn(Hd', iterEntry')
                         /\ CoversBack(Src', Hd', Under(R, iterEntry'))
                         /\ \A x \in R : ~Before(iterEntry', x)
  PROVE  IteratorInv'
<1>1. TypeOK'
  BY DEF TypeOK
<1>2. Ranged(Vis)' = R /\ Ranged(Live(Vis))' \subseteq R
  BY DEF Ranged, Live
<1>3. found' = FALSE
  BY DEF findPrevFrom
<1>4. CASE current' = 0
  <2>1. pc' = "return" /\ valid' = FALSE
    BY <1>4 DEF findPrevFrom, invalid
  <2>2. {x \in Live(Vis') : InRange(asked', last', x.key)} = {}
    BY <1>2, <1>4 DEF Ranged
  <2> QED
    BY <1>1, <2>1, <2>2, NothingToShow
<1>5. CASE current' # 0
  <2>1. pc' = "findPrev" /\ direction' = "kReverse"
    BY <1>5 DEF findPrevFrom
  <2>2. Behind(Ranged(Vis))'
    BY <1>2, <1>5 DEF Behind
  <2>3. FindingPrev'
    BY <1>2, <1>3, <1>5, <2>1, <2>2 DEF FindingPrev
  <2> QED
    BY <1>1, <2>1, <2>3, InvariantByPlace
<1> QED
  BY <1>4, <1>5

\* SeekToLast keeps the invariant: FindPrevUserEntry begins at the end.
LEMMA SeekToLastKept ==
  ASSUME IteratorInv, SeekToLast
  PROVE  IteratorInv'
<1> DEFINE call == [op |-> "SeekToLast"]
<1>1. DatabaseOK /\ ChildrenOK /\ FieldsOK
  BY DEF IteratorInv, TypeOK
<1>2. called(call) /\ mergeSeekToLast /\ findPrevFrom(0)
  BY DEF SeekToLast
<1>3. Steady /\ asked' = {call}
  BY <1>2 DEF called, Steady
<1>4. WentBack(Vis)
  BY <1>1, <1>2, <1>3, MergeLast
<1>5. Vis' = Vis
  BY <1>1, <1>3, Unmoved
<1>6. AskedOf({"SeekToLast", "Prev"})' /\ call \in Calls
  <2>1. call \in Calls /\ call.op \in {"SeekToLast", "Prev"}
    BY CallNames
  <2> QED
    BY <1>3, <2>1 DEF AskedOf
<1>7. \A k : InRange(asked', last', k)
  BY <1>3, Ranges
<1>14. ~AskedOf({"Prev"})'
  BY <1>3 DEF AskedOf
<1> HIDE DEF call
<1>8. /\ valid' = valid \/ valid' = FALSE
      /\ skipping' = skipping /\ found' = FALSE /\ savedValue' = 0
      /\ savedKey' = savedKey \/ savedKey' = 0
      /\ direction' \in {"kForward", "kReverse"}
      /\ pc' \in {"findPrev", "return"}
  BY <1>2 DEF findPrevFrom, invalid
<1>9. FieldsOK'
  <2>1. valid' \in BOOLEAN /\ skipping' \in BOOLEAN /\ found' \in BOOLEAN
    BY <1>1, <1>8, Zenon DEF FieldsOK
  <2>2. savedKey' \in Nat /\ savedValue' \in Nat
    BY <1>1, <1>8 DEF FieldsOK
  <2>3. mergeDirection' = "kReverse"
    BY <1>4 DEF WentBack
  <2> QED
    BY <1>3, <1>6, <1>8, <2>1, <2>2, <2>3 DEF FieldsOK
<1>10. findPrevFrom(savedValue')
  BY <1>2, <1>8
<1>11. Vis = {x \in Vis : InRange(asked', last', x.key)}
  BY <1>7
<1>12. /\ current' = 0 => Vis = {}
       /\ current' # 0 => /\ LastIn(Hd', iterEntry')
                          /\ CoversBack(Src', Hd', Under(Vis, iterEntry'))
                          /\ \A x \in Vis : ~Before(iterEntry', x)
  <2>1. Under(Vis, iterEntry') \subseteq Vis
    BY DEF Under
  <2> QED
    BY <1>4, <2>1 DEF WentBack
<1>13. DatabaseOK' /\ ChildrenOK' /\ mergeDirection' = "kReverse"
  BY <1>4 DEF WentBack
<1> QED
  BY <1>5, <1>6, <1>7, <1>9, <1>10, <1>11, <1>12, <1>13, <1>14, FindPrevBegins

\* Prev from an entry it came to forward: the direction changes.
LEMMA PrevTurningKept ==
  ASSUME IteratorInv, Prev, direction = "kForward"
  PROVE  IteratorInv'
<1> DEFINE call == [op |-> "Prev"]
<1>1. DatabaseOK /\ ChildrenOK /\ FieldsOK /\ Resting
  BY DEF IteratorInv, TypeOK
<1>2. /\ valid /\ called(call)
      /\ savedKey' = iterEntry.key /\ seekOthers("kReverse") /\ pc' = "turnBack"
      /\ UNCHANGED <<direction, valid, savedValue, skipping, found>>
  BY DEF Prev
<1>3. Steady /\ asked' = {call} /\ last' = shown /\ pc = "idle"
  BY <1>2 DEF called, Steady
<1>4. mergeDirection = "kForward" /\ Ahead
  BY <1>1, <1>2, <1>3 DEF Resting, OnEntryForward, OnEntryReverse
<1>5. current # 0 /\ iterEntry.key \in Nat /\ iterEntry.seq \in Nat
  BY <1>1, <1>4, CurrentEntry DEF Ahead
<1>6. /\ DatabaseOK' /\ ChildrenOK' /\ Ahead'
      /\ mergeDirection' = mergeDirection /\ iterEntry' = iterEntry
  BY <1>1, <1>2, <1>3, <1>4, <1>5, MergeSeeksOthers
<1>7. LastKey(savedKey)'
  <2>1. PICK l : l = [key |-> iterEntry.key, seq |-> iterEntry.seq]
    OBVIOUS
  <2>2. l \in [key : Nat, seq : Nat] /\ l.key = iterEntry.key
    BY <1>5, <2>1
  <2>3. last' = {l}
    BY <1>2, <1>3, <2>1 DEF shown
  <2> QED
    BY <1>2, <2>2, <2>3 DEF LastKey
<1>8. AskedOf({"Prev"})' /\ call \in Calls
  <2>1. call \in Calls /\ call.op \in {"Prev"}
    BY CallNames
  <2> QED
    BY <1>3, <2>1 DEF AskedOf
<1> HIDE DEF call
<1>9. TypeOK'
  BY <1>1, <1>2, <1>3, <1>5, <1>6, <1>8 DEF TypeOK, FieldsOK
<1>10. TurningBack'
  BY <1>2, <1>4, <1>6, <1>7, <1>8 DEF TurningBack, Ahead
<1> QED
  BY <1>2, <1>9, <1>10, InvariantByPlace

\* Prev from an entry it came to backward.
LEMMA PrevBehindKept ==
  ASSUME IteratorInv, Prev, direction = "kReverse"
  PROVE  IteratorInv'
<1> DEFINE call == [op |-> "Prev"]
           R == Lower(Vis, savedKey)
<1>1. DatabaseOK /\ ChildrenOK /\ FieldsOK /\ Resting
  BY DEF IteratorInv, TypeOK
<1>2. valid /\ called(call) /\ UNCHANGED mergeVars /\ findPrevFrom(savedValue)
  BY DEF Prev
<1>3. Steady /\ asked' = {call} /\ last' = shown /\ pc = "idle"
  BY <1>2 DEF called, Steady
<1>4. mergeDirection = "kReverse" /\ Gap
  BY <1>1, <1>2, <1>3 DEF Resting, OnEntryForward, OnEntryReverse
<1>5. /\ R \in SUBSET Vis
      /\ \A x : x \in R <=> x \in Vis /\ x.key < savedKey
  BY DEF Lower
<1>6. /\ DatabaseOK' /\ ChildrenOK' /\ Vis' = Vis /\ Hd' = Hd /\ iterEntry' = iterEntry
      /\ current' = current /\ mergeDirection' = "kReverse"
      /\ CoversBack(Src, Hd, Under(R, iterEntry)) =>
           CoversBack(Src', Hd', Under(R, iterEntry'))
  BY <1>1, <1>2, <1>3, <1>4, <1>5, Standing
<1>7. \A k : InRange(asked', last', k) <=> k < savedKey
  <2>1. PICK l : l = [key |-> savedKey, seq |-> savedValue]
    OBVIOUS
  <2>2. last' = {l} /\ l.key = savedKey
    BY <1>2, <1>3, <2>1 DEF shown
  <2>3. \A k : InRange({call}, {l}, k) <=> k < l.key
    BY Ranges
  <2> QED
    BY <1>3, <2>2, <2>3
<1>8. AskedOf({"SeekToLast", "Prev"})' /\ call \in Calls
  <2>1. call \in Calls /\ call.op \in {"SeekToLast", "Prev"}
    BY CallNames
  <2> QED
    BY <1>3, <2>1 DEF AskedOf
<1>14. \E k \in Nat : LastKey(k)'
  <2>1. PICK l : l = [key |-> savedKey, seq |-> savedValue]
    OBVIOUS
  <2>2. l \in [key : Nat, seq : Nat] /\ l.key = savedKey /\ savedKey \in Nat
    BY <1>1, <2>1 DEF FieldsOK
  <2>3. last' = {l}
    BY <1>2, <1>3, <2>1 DEF shown
  <2> QED
    BY <2>2, <2>3 DEF LastKey
<1> HIDE DEF call
<1>9. /\ valid' = valid \/ valid' = FALSE
      /\ skipping' = skipping /\ found' = FALSE
      /\ savedValue' = savedValue \/ (current' = 0 /\ savedValue' = 0)
      /\ savedKey' = savedKey \/ savedKey' = 0
      /\ direction' \in {"kForward", "kReverse"}
      /\ pc' \in {"findPrev", "return"}
  BY <1>2 DEF findPrevFrom, invalid
<1>10. FieldsOK'
  <2>1. valid' \in BOOLEAN /\ skipping' \in BOOLEAN /\ found' \in BOOLEAN
    BY <1>1, <1>9, Zenon DEF FieldsOK
  <2>2. savedKey' \in Nat /\ savedValue' \in Nat
    BY <1>1, <1>9 DEF FieldsOK
  <2> QED
    BY <1>3, <1>6, <1>8, <1>9, <2>1, <2>2 DEF FieldsOK
<1>11. findPrevFrom(savedValue')
  BY <1>2, <1>9 DEF findPrevFrom
<1>12. R = {x \in Vis : InRange(asked', last', x.key)}
  BY <1>7 DEF Lower
<1>13. /\ current' = 0 => R = {}
       /\ current' # 0 => /\ InRange(asked', last', iterEntry'.key)
                          /\ LastIn(Hd', iterEntry')
                          /\ CoversBack(Src', Hd', Under(R, iterEntry'))
                          /\ \A x \in R : ~Before(iterEntry', x)
  BY <1>4, <1>6, <1>7 DEF Gap, Behind
<1> HIDE DEF R
<1> QED
  BY <1>6, <1>8, <1>10, <1>11, <1>12, <1>13, <1>14, FindPrevBegins

\* Prev keeps the invariant, whatever the direction before.
LEMMA PrevKept ==
  ASSUME IteratorInv, Prev
  PROVE  IteratorInv'
<1>1. direction = "kForward" \/ direction = "kReverse"
  BY DEF IteratorInv, TypeOK, FieldsOK
<1> QED
  BY <1>1, PrevTurningKept, PrevBehindKept

\* Backward until the key changes: X is what the children have not passed, with
\* all the visible entries of smaller keys.
LEMMA ScanBackKept ==
  ASSUME IteratorInv, continues, AskedOf({"Prev"}), LastKey(savedKey),
         NEW X \in SUBSET Vis, WentBack(X), Lower(Vis, savedKey) \subseteq X, scanBack
  PROVE  IteratorInv'
<1> DEFINE R == Lower(Vis, savedKey)
<1>1. DatabaseOK /\ FieldsOK
  BY DEF IteratorInv, TypeOK
<1>2. /\ asked' = asked /\ last' = last /\ Steady
      /\ \A k : InRange(asked, last, k) <=> k < savedKey
  BY RangeOfStep
<1>3. Vis' = Vis
  BY <1>1, <1>2, Unmoved
<1>4. /\ DatabaseOK' /\ ChildrenOK' /\ mergeDirection' = "kReverse"
      /\ current' = 0 => R = {}
      /\ current' # 0 => /\ LastIn(Hd', iterEntry') /\ iterEntry'.key \in Nat
                         /\ CoversBack(Src', Hd', Under(R, iterEntry'))
                         /\ \A x \in R : ~Before(iterEntry', x)
  <2>1. \A c : Under(R, c) \subseteq X
    BY DEF Under
  <2> QED
    BY <2>1 DEF WentBack
<1>5. AskedOf({"Prev"})' /\ AskedOf({"SeekToLast", "Prev"})' /\ \E call \in Calls : asked' = {call}
  BY <1>2 DEF AskedOf
<1>6. R = {x \in Vis : InRange(asked', last', x.key)}
  BY <1>2 DEF Lower
<1>7. R = Lower(Vis, savedKey)
  OBVIOUS
<1> HIDE DEF R
<1>8. /\ valid' = valid \/ valid' = FALSE
      /\ skipping' = skipping
      /\ found' = found \/ found' = FALSE
      /\ savedValue' = savedValue \/ savedValue' = 0
      /\ savedKey' = savedKey \/ savedKey' = 0
      /\ direction' = direction \/ direction' \in {"kForward", "kReverse"}
      /\ pc' \in {"findPrev", "return", "back"}
  BY DEF scanBack, findPrevFrom, invalid
<1>9. FieldsOK'
  <2>1. valid' \in BOOLEAN /\ skipping' \in BOOLEAN /\ found' \in BOOLEAN
    BY <1>1, <1>8, Zenon DEF FieldsOK
  <2>2. savedKey' \in Nat /\ savedValue' \in Nat
    BY <1>1, <1>8 DEF FieldsOK
  <2>3. direction' \in {"kForward", "kReverse"}
    BY <1>1, <1>8 DEF FieldsOK
  <2> QED
    BY <1>4, <1>5, <1>8, <2>1, <2>2, <2>3 DEF FieldsOK
<1>10. TypeOK'
  BY <1>4, <1>9 DEF TypeOK
<1>11. CASE current' = 0
  <2>1. pc' = "return" /\ valid' = FALSE
    BY <1>11 DEF scanBack, invalid
  <2>2. {x \in Live(Vis') : InRange(asked', last', x.key)} = {}
    BY <1>3, <1>4, <1>6, <1>11 DEF Live
  <2> QED
    BY <1>10, <2>1, <2>2, NothingToShow
<1>12. CASE current' # 0 /\ iterEntry'.key < savedKey
  <2>1. findPrevFrom(savedValue)
    BY <1>12 DEF scanBack
  <2>2. findPrevFrom(savedValue')
    BY <1>12, <2>1 DEF findPrevFrom
  <2>3. InRange(asked', last', iterEntry'.key)
    BY <1>2, <1>12
  <2>4. \E k \in Nat : LastKey(k)'
    BY <1>1, <1>2 DEF LastKey, FieldsOK
  <2> QED
    BY <1>3, <1>4, <1>5, <1>6, <1>9, <1>12, <2>2, <2>3, <2>4, FindPrevBegins
<1>13. CASE current' # 0 /\ ~(iterEntry'.key < savedKey)
  <2>1. /\ pc' = "back"
        /\ UNCHANGED <<direction, valid, savedKey, savedValue, skipping, found>>
    BY <1>13 DEF scanBack
  <2>2. Lower(Vis, savedKey)' = R
    BY <1>3, <1>7, <2>1 DEF Lower
  <2>3. Behind(Lower(Vis, savedKey))'
    BY <1>4, <1>13, <2>2 DEF Behind
  <2>4. iterEntry'.key >= savedKey'
    BY <1>1, <1>4, <1>13, <2>1 DEF FieldsOK
  <2>5. LastKey(savedKey)'
    BY <1>2, <2>1 DEF LastKey
  <2>6. GoingBack'
    BY <1>4, <1>5, <2>3, <2>4, <2>5 DEF GoingBack
  <2> QED
    BY <1>10, <2>1, <2>6, InvariantByPlace
<1> QED
  BY <1>11, <1>12, <1>13

\* The rest of a Prev that turned, up to the first round of its loop.
LEMMA TurnBackKept ==
  ASSUME IteratorInv, TurnBack
  PROVE  IteratorInv'
<1>1. DatabaseOK /\ ChildrenOK /\ FieldsOK /\ TurningBack
  BY DEF IteratorInv, TypeOK
<1>2. pc = "turnBack" /\ continues /\ prevTurning /\ scanBack
  BY DEF TurnBack
<1>3. /\ AskedOf({"Prev"}) /\ LastKey(savedKey)
      /\ mergeDirection = "kForward" /\ current # 0 /\ FirstIn(Hd, iterEntry)
      /\ savedKey = iterEntry.key
  BY <1>1, <1>2 DEF TurningBack
<1>4. Steady
  BY <1>2 DEF continues, Steady
<1>5. WentBack(Under(Vis, iterEntry))
  BY <1>1, <1>2, <1>3, <1>4, MergePrevTurning
<1>6. Under(Vis, iterEntry) \in SUBSET Vis /\ Lower(Vis, savedKey) \subseteq Under(Vis, iterEntry)
  BY <1>3 DEF Under, Lower, Before
<1> QED
  BY <1>2, <1>3, <1>5, <1>6, ScanBackKept

\* A round of the loop of Prev keeps the invariant.
LEMMA BackKept ==
  ASSUME IteratorInv, Back
  PROVE  IteratorInv'
<1> DEFINE L == Lower(Vis, savedKey)
<1>1. DatabaseOK /\ ChildrenOK /\ FieldsOK /\ GoingBack
  BY DEF IteratorInv, TypeOK
<1>2. pc = "back" /\ continues /\ mergePrev /\ scanBack
  BY DEF Back
<1>3. /\ AskedOf({"Prev"}) /\ LastKey(savedKey)
      /\ mergeDirection = "kReverse" /\ Behind(L) /\ iterEntry.key >= savedKey
  BY <1>1, <1>2 DEF GoingBack
<1>4. Steady
  BY <1>2 DEF continues, Steady
<1>5. L \in SUBSET Vis
  BY DEF Lower
<1>6. WentBack(Under(L, iterEntry))
  BY <1>1, <1>2, <1>3, <1>4, <1>5, MergePrev
<1>7. iterEntry.key \in Nat /\ savedKey \in Nat /\ \A x \in Vis : x.key \in Nat
  BY <1>1, <1>3, CurrentEntry, Visible DEF Behind, FieldsOK
<1>8. Under(L, iterEntry) \in SUBSET Vis /\ L \subseteq Under(L, iterEntry)
  BY <1>3, <1>7 DEF Under, Lower, Before
<1> QED
  BY <1>2, <1>3, <1>6, <1>8, ScanBackKept

\* One entry of the loop of FindPrevUserEntry: what is saved then is the newest
\* entry seen of the greatest live key so far, and if nothing is saved, every
\* live entry in range is still before.
LEMMA PassKept ==
  ASSUME IteratorInv, PassEntry
  PROVE  IteratorInv'
<1> DEFINE e == iterEntry
           visible == e.seq <= sequence
           key == IF ~visible THEN savedKey ELSE IF e.del THEN 0 ELSE e.key
           value == IF ~visible THEN savedValue ELSE IF e.del THEN 0 ELSE e.seq
           R == {x \in Vis : InRange(asked, last, x.key)}
           L == {x \in Live(Vis) : InRange(asked, last, x.key)}
           X == Under(R, e)
<1>1. DatabaseOK /\ ChildrenOK /\ FieldsOK /\ FindingPrev
  BY DEF IteratorInv, TypeOK
<1>2. /\ pc = "findPrev" /\ continues /\ skipping' = skipping
      /\ ~(visible /\ found /\ e.key < savedKey)
      /\ mergePrev
      /\ found' = IF visible THEN ~e.del ELSE found
      /\ \/ /\ current' # 0 /\ savedKey' = key /\ savedValue' = value
            /\ UNCHANGED <<direction, valid, pc>>
         \/ /\ current' = 0 /\ found' /\ savedKey' = key /\ savedValue' = value
            /\ valid' = TRUE /\ pc' = "return" /\ UNCHANGED direction
         \/ /\ current' = 0 /\ ~found' /\ savedKey' = 0 /\ savedValue' = 0
            /\ invalid /\ direction' = "kForward"
  BY DEF PassEntry
<1>3. /\ AskedOf({"SeekToLast", "Prev"})
      /\ direction = "kReverse" /\ mergeDirection = "kReverse" /\ Behind(R)
      /\ InRange(asked, last, e.key)
  BY <1>1, <1>2 DEF FindingPrev, Ranged
<1>4. found => \E s \in Vis :
                 /\ s.key = savedKey /\ s.seq = savedValue /\ ~s.del
                 /\ InRange(asked, last, s.key)
                 /\ \A x \in L : x.key <= s.key
                 /\ ~Before(s, e)
                 /\ \A y \in R : Before(e, y) => ~Before(y, s)
  BY <1>1, <1>2 DEF FindingPrev, Saved, Ranged
<1>5. ~found => \A x \in L : ~Before(e, x)
  BY <1>1, <1>2 DEF FindingPrev, Ranged
<1>6. asked' = asked /\ last' = last /\ Steady
  BY <1>2 DEF continues, Steady
<1>7. R \in SUBSET Vis
  OBVIOUS
<1>8. WentBack(X) /\ (current' # 0 => ~Before(e, iterEntry'))
  BY <1>1, <1>2, <1>3, <1>6, <1>7, MergePrev
<1>9. /\ e \in Point /\ e.key \in Nat /\ e.seq \in Nat /\ e \in entriesIn(mem, tables)
      /\ savedKey \in Nat /\ savedValue \in Nat /\ sequence \in Nat
      /\ skipping \in BOOLEAN /\ found \in BOOLEAN /\ valid \in BOOLEAN
  BY <1>1, <1>3, CurrentEntry, DatabaseFacts DEF Behind, FieldsOK
<1>10. /\ \A x : x \in X <=> x \in R /\ Before(x, e)
       /\ \A x : x \in R <=> x \in Vis /\ InRange(asked, last, x.key)
       /\ \A x : x \in L <=> x \in Live(Vis) /\ InRange(asked, last, x.key)
  BY DEF Under
<1>11. \A x \in Vis : /\ x \in Point /\ x.key \in Nat /\ x.seq \in Nat /\ x.seq <= sequence
                      /\ x = e \/ Before(e, x) \/ Before(x, e)
  BY <1>1, <1>9, Visible
<1>12. \A x : x \in Live(Vis) <=>
                x \in Vis /\ ~x.del /\ \A y \in Vis : y.key = x.key => y.seq <= x.seq
  BY <1>1, Visible
<1>13. \A x \in L : x \in R /\ x \in Vis /\ ~x.del /\ \A y \in Vis : y.key = x.key => y.seq <= x.seq
  BY <1>10, <1>12
<1>14. visible <=> e \in Vis
  BY <1>1, <1>9, Visible
<1>15. AskedOf({"SeekToLast", "Prev"})' /\ \E call \in Calls : asked' = {call}
  BY <1>3, <1>6 DEF AskedOf
<1>16. Vis' = Vis
  BY <1>1, <1>6, Unmoved
<1>17. \A k, l \in Nat : InRange(asked, last, l) /\ k <= l => InRange(asked, last, k)
  <2>1. CASE asked = {[op |-> "SeekToLast"]}
    BY <2>1, Ranges
  <2>2. CASE asked = {[op |-> "Prev"]}
    <3>1. AskedOf({"Prev"})
      BY <2>2, CallNames DEF AskedOf
    <3>2. PICK c \in [key : Nat, seq : Nat] : last = {c}
      BY <1>1, <1>2, <3>1 DEF FindingPrev, LastKey
    <3>3. c.key \in Nat /\ \A k : InRange(asked, last, k) <=> k < c.key
      BY <2>2, <3>2, Ranges
    <3> QED
      BY <3>3
  <2>3. asked = {[op |-> "SeekToLast"]} \/ asked = {[op |-> "Prev"]}
    BY <1>3, CallNames DEF AskedOf
  <2> QED
    BY <2>1, <2>2, <2>3
<1> HIDE DEF e, visible, key, value, R, L, X
<1>18. ASSUME found'
       PROVE  \E s \in Vis :
                /\ s.key = key /\ s.seq = value /\ ~s.del
                /\ InRange(asked, last, s.key)
                /\ \A x \in L : x.key <= s.key
                /\ ~Before(s, e)
                /\ \A y \in R : y \in X \/ ~Before(y, s)
  <2>1. CASE visible
    <3>1. e \in Vis /\ ~e.del /\ key = e.key /\ value = e.seq
      BY <1>2, <1>14, <1>18, <2>1 DEF key, value
    <3>2. ASSUME NEW x \in L
          PROVE  x.key <= e.key
      <4>1. x.key \in Nat
        BY <1>11, <1>13
      <4>2. CASE found
        <5>1. PICK s \in Vis : s.key = savedKey /\ \A z \in L : z.key <= s.key
          BY <1>4, <4>2
        <5>2. ~(e.key < savedKey)
          BY <1>2, <2>1, <4>2
        <5> QED
          BY <1>9, <4>1, <5>1, <5>2
      <4>3. CASE ~found
        <5>1. ~Before(e, x)
          BY <1>5, <4>3
        <5> QED
          BY <1>9, <4>1, <5>1 DEF Before
      <4> QED
        BY <4>2, <4>3
    <3>3. ~Before(e, e) /\ \A y \in R : y \in X \/ ~Before(y, e)
      BY <1>9, <1>10, Order
    <3> QED
      BY <1>3, <3>1, <3>2, <3>3
  <2>2. CASE ~visible
    <3>1. found /\ key = savedKey /\ value = savedValue
      BY <1>2, <1>18, <2>2 DEF key, value
    <3>2. PICK s \in Vis :
            /\ s.key = savedKey /\ s.seq = savedValue /\ ~s.del
            /\ InRange(asked, last, s.key)
            /\ \A x \in L : x.key <= s.key
            /\ ~Before(s, e)
            /\ \A y \in R : Before(e, y) => ~Before(y, s)
      BY <1>4, <3>1
    <3>3. \A y \in R : y \in X \/ ~Before(y, s)
      BY <1>7, <1>10, <1>11, <1>14, <2>2, <3>2
    <3> QED
      BY <3>1, <3>2, <3>3
  <2> QED
    BY <2>1, <2>2
<1>19. ASSUME ~found'
       PROVE  L \subseteq X
  <2> SUFFICES ASSUME NEW x \in L
               PROVE  Before(x, e)
    BY <1>10, <1>13
  <2>1. x \in Vis /\ x \in Point /\ x.key \in Nat /\ x.seq \in Nat
    BY <1>11, <1>13
  <2>2. x # e
    <3>1. visible => e.del
      BY <1>2, <1>19
    <3> QED
      BY <1>13, <1>14, <2>1, <3>1
  <2>3. CASE ~found
    BY <1>5, <1>11, <2>1, <2>2, <2>3
  <2>4. CASE found
    <3>1. visible /\ e \in Vis
      BY <1>2, <1>14, <1>19, <2>4
    <3>2. x.key <= e.key
      <4>1. PICK s \in Vis : s.key = savedKey /\ ~Before(s, e) /\ \A z \in L : z.key <= s.key
        BY <1>4, <2>4
      <4>2. ~(e.key < savedKey)
        BY <1>2, <2>4, <3>1
      <4> QED
        BY <1>9, <2>1, <4>1, <4>2
    <3>3. x.key = e.key => e.seq <= x.seq
      BY <1>13, <3>1
    <3>4. ~Before(e, x)
      BY <1>9, <2>1, <3>2, <3>3 DEF Before
    <3> QED
      BY <1>11, <2>1, <2>2, <3>4
  <2> QED
    BY <2>3, <2>4
<1>20. key \in Nat /\ value \in Nat
  BY <1>9 DEF key, value
<1>21. FieldsOK'
  <2>1. /\ valid' = valid \/ valid' = FALSE \/ valid' = TRUE
        /\ savedKey' = key \/ savedKey' = 0
        /\ savedValue' = value \/ savedValue' = 0
        /\ direction' \in {"kForward", "kReverse"}
        /\ pc' \in {"findPrev", "return"}
    BY <1>2, <1>3 DEF invalid
  <2>2. valid' \in BOOLEAN /\ skipping' \in BOOLEAN
    BY <1>2, <1>9, <2>1, Zenon
  <2>3. found' \in BOOLEAN
    <3>1. CASE visible
      <4>1. found' = ~e.del
        BY <1>2, <3>1
      <4> QED
        BY <4>1, Zenon
    <3>2. CASE ~visible
      BY <1>2, <1>9, <3>2
    <3> QED
      BY <3>1, <3>2
  <2>4. savedKey' \in Nat /\ savedValue' \in Nat
    BY <1>20, <2>1
  <2>5. mergeDirection' = "kReverse"
    BY <1>8 DEF WentBack
  <2> QED
    BY <1>15, <2>1, <2>2, <2>3, <2>4, <2>5 DEF FieldsOK
<1>22. TypeOK' /\ mergeDirection' = "kReverse"
  BY <1>8, <1>21 DEF TypeOK, WentBack
<1>23. Ranged(Vis)' = R /\ Ranged(Live(Vis))' = L
  BY <1>6, <1>16 DEF Ranged, R, L
<1>24. CASE current' # 0
  <2>1. /\ savedKey' = key /\ savedValue' = value
        /\ direction' = "kReverse" /\ pc' = "findPrev"
    BY <1>2, <1>3, <1>24
  <2>2. /\ iterEntry' \in Point /\ iterEntry'.key \in Nat /\ ~Before(e, iterEntry')
        /\ \A x \in X : ~Before(iterEntry', x)
        /\ LastIn(Hd', iterEntry')
        /\ Under(R, iterEntry') \subseteq X => CoversBack(Src', Hd', Under(R, iterEntry'))
    BY <1>8, <1>24 DEF WentBack
  <2>3. Under(R, iterEntry') \subseteq X
    <3> SUFFICES ASSUME NEW x \in R, Before(x, iterEntry')
                 PROVE  Before(x, e)
      BY <1>10 DEF Under
    <3> QED
      BY <1>7, <1>9, <1>11, <2>2, Order
  <2>4. Behind(Ranged(Vis))'
    BY <1>23, <1>24, <2>2, <2>3 DEF Behind
  <2>5. InRange(asked', last', iterEntry'.key)
    <3>1. iterEntry'.key <= e.key
      BY <1>9, <2>2 DEF Before
    <3> QED
      BY <1>3, <1>6, <1>9, <1>17, <2>2, <3>1
  <2>6. ASSUME found'
        PROVE  \E s \in Vis :
                 /\ Saved(s)' /\ ~Before(s, iterEntry')
                 /\ \A y \in R : Before(iterEntry', y) => ~Before(y, s)
    <3>1. PICK s \in Vis :
            /\ s.key = key /\ s.seq = value /\ ~s.del
            /\ InRange(asked, last, s.key)
            /\ \A x \in L : x.key <= s.key
            /\ ~Before(s, e)
            /\ \A y \in R : y \in X \/ ~Before(y, s)
      BY <1>18, <2>6
    <3>2. Saved(s)'
      BY <1>6, <1>16, <1>23, <2>1, <3>1 DEF Saved
    <3>3. ~Before(s, iterEntry')
      BY <1>9, <1>11, <2>2, <3>1, Order
    <3>4. \A y \in R : Before(iterEntry', y) => ~Before(y, s)
      BY <2>2, <3>1
    <3> QED
      BY <3>2, <3>3, <3>4
  <2>7. ~found' => \A x \in L : ~Before(iterEntry', x)
    BY <1>19, <2>2
  <2>8. AskedOf({"Prev"})' => \E k \in Nat : LastKey(k)'
    BY <1>1, <1>2, <1>6 DEF FindingPrev, AskedOf, LastKey
  <2>9. FindingPrev'
    BY <1>15, <1>16, <1>22, <1>23, <2>1, <2>4, <2>5, <2>6, <2>7, <2>8 DEF FindingPrev
  <2> QED
    BY <1>22, <2>1, <2>9, InvariantByPlace
<1>25. CASE current' = 0 /\ ~found'
  <2>1. pc' = "return" /\ valid' = FALSE
    BY <1>2, <1>25 DEF invalid
  <2>2. X = {}
    BY <1>8, <1>25 DEF WentBack
  <2>3. {x \in Live(Vis') : InRange(asked', last', x.key)} = {}
    BY <1>6, <1>10, <1>16, <1>19, <1>25, <2>2
  <2> QED
    BY <1>22, <2>1, <2>3, NothingToShow
<1>26. CASE current' = 0 /\ found'
  <2>1. /\ savedKey' = key /\ savedValue' = value
        /\ valid' = TRUE /\ direction' = "kReverse" /\ pc' = "return"
    BY <1>2, <1>3, <1>26
  <2>2. X = {}
    BY <1>8, <1>26 DEF WentBack
  <2>3. PICK s \in Vis :
          /\ s.key = key /\ s.seq = value /\ ~s.del
          /\ InRange(asked, last, s.key)
          /\ \A x \in L : x.key <= s.key
          /\ \A y \in R : ~Before(y, s)
    BY <1>18, <1>26, <2>2
  <2>4. s.key \in Nat /\ s.seq \in Nat
    BY <1>11
  <2>5. \A y \in Vis : y.key <= s.key => ~Before(y, s)
    BY <1>10, <1>11, <1>17, <2>3, <2>4
  <2>6. s \in Live(Vis)
    <3>1. \A y \in Vis : y.key = s.key => y.seq <= s.seq
      BY <1>11, <2>4, <2>5 DEF Before
    <3> QED
      BY <1>12, <2>3, <3>1
  <2>7. Lower(Vis, key) = {}
    BY <1>11, <2>3, <2>4, <2>5 DEF Lower, Before
  <2>8. OnEntryReverse'
    BY <1>16, <1>22, <1>26, <2>1, <2>3, <2>6, <2>7 DEF OnEntryReverse, Gap, Lower
  <2>9. Answered'
    <3>1. shown' = {[key |-> s.key, seq |-> s.seq]}
      BY <2>1, <2>3 DEF shown
    <3>2. s \in L
      BY <1>10, <2>3, <2>6
    <3> QED
      BY <1>15, <1>23, <2>1, <2>3, <3>1, <3>2 DEF Answered
  <2>10. Resting'
    BY <2>8 DEF Resting
  <2> QED
    BY <1>22, <2>1, <2>9, <2>10, InvariantByPlace
<1> QED
  BY <1>24, <1>25, <1>26

\* What FindPrevUserEntry stops with is the newest visible entry of its key: the
\* visible entry it is at has an earlier key.
LEMMA YieldSavedKept ==
  ASSUME IteratorInv, YieldSaved
  PROVE  IteratorInv'
<1> DEFINE e == iterEntry
           R == {x \in Vis : InRange(asked, last, x.key)}
           L == {x \in Live(Vis) : InRange(asked, last, x.key)}
           W == Lower(Vis, savedKey)
<1>1. DatabaseOK /\ ChildrenOK /\ FieldsOK /\ FindingPrev
  BY DEF IteratorInv, TypeOK
<1>2. /\ pc = "findPrev" /\ continues
      /\ e.seq <= sequence /\ found /\ e.key < savedKey
      /\ valid' = TRUE /\ pc' = "return"
      /\ UNCHANGED <<mergeVars, direction, savedKey, savedValue, skipping, found>>
  BY DEF YieldSaved
<1>3. /\ AskedOf({"SeekToLast", "Prev"})
      /\ direction = "kReverse" /\ mergeDirection = "kReverse" /\ Behind(R)
      /\ InRange(asked, last, e.key)
      /\ AskedOf({"Prev"}) => \E k \in Nat : LastKey(k)
  BY <1>1, <1>2 DEF FindingPrev, Ranged
<1>4. PICK s \in Vis :
        /\ s.key = savedKey /\ s.seq = savedValue /\ ~s.del
        /\ InRange(asked, last, s.key)
        /\ \A x \in L : x.key <= s.key
        /\ \A y \in R : Before(e, y) => ~Before(y, s)
  BY <1>1, <1>2 DEF FindingPrev, Saved, Ranged
<1>5. asked' = asked /\ last' = last /\ Steady
  BY <1>2 DEF continues, Steady
<1>6. e.key \in Nat /\ savedKey \in Nat /\ current # 0
  BY <1>1, <1>3, CurrentEntry DEF Behind, FieldsOK
<1>7. \A x \in Vis : x.key \in Nat /\ x.seq \in Nat
  BY <1>1, Visible
<1>8. \A k, l \in Nat : InRange(asked, last, l) /\ k <= l => InRange(asked, last, k)
  <2>1. CASE asked = {[op |-> "SeekToLast"]}
    BY <2>1, Ranges
  <2>2. CASE asked = {[op |-> "Prev"]}
    <3>1. AskedOf({"Prev"})
      BY <2>2, CallNames DEF AskedOf
    <3>2. PICK c \in [key : Nat, seq : Nat] : last = {c}
      BY <1>3, <3>1 DEF LastKey
    <3>3. c.key \in Nat /\ \A k : InRange(asked, last, k) <=> k < c.key
      BY <2>2, <3>2, Ranges
    <3> QED
      BY <3>3
  <2>3. asked = {[op |-> "SeekToLast"]} \/ asked = {[op |-> "Prev"]}
    BY <1>3, CallNames DEF AskedOf
  <2> QED
    BY <2>1, <2>2, <2>3
<1>9. \A x \in W : x \in Vis /\ x \in R /\ x.key < s.key
  <2>1. \A x \in W : x \in Vis /\ x.key < s.key
    BY <1>4 DEF Lower
  <2> QED
    BY <1>4, <1>7, <1>8, <2>1
<1>10. \A x \in W : ~Before(e, x)
  BY <1>4, <1>9 DEF Before
<1>11. s \in Live(Vis)
  <2>1. ASSUME NEW y \in Vis, y.key = s.key
        PROVE  y.seq <= s.seq
    <3>1. y \in R /\ Before(e, y)
      BY <1>2, <1>4, <2>1 DEF Before
    <3> QED
      BY <1>4, <1>7, <2>1, <3>1 DEF Before
  <2> QED
    BY <1>1, <1>4, <2>1, Visible
<1>12. W \in SUBSET Vis /\ LastIn(Hd, e) /\ CoversBack(Src, Hd, Under(W, e))
  <2>1. LastIn(Hd, e) /\ CoversBack(Src, Hd, Under(R, e))
    BY <1>3 DEF Behind
  <2>2. Under(W, e) \subseteq Under(R, e)
    BY <1>9 DEF Under
  <2>3. CoversBack(Src, Hd, Under(W, e))
    BY <2>1, <2>2 DEF CoversBack
  <2> QED
    BY <1>9, <2>1, <2>3
<1> HIDE DEF W
<1>13. /\ DatabaseOK' /\ ChildrenOK' /\ Vis' = Vis /\ Hd' = Hd /\ iterEntry' = e
       /\ current' = current /\ mergeDirection' = mergeDirection
       /\ CoversBack(Src', Hd', Under(W, iterEntry'))
  BY <1>1, <1>2, <1>5, <1>12, Standing
<1>14. TypeOK'
  <2>1. \E call \in Calls : asked' = {call}
    BY <1>3, <1>5 DEF AskedOf
  <2> QED
    BY <1>1, <1>2, <1>3, <1>13, <2>1 DEF TypeOK, FieldsOK
<1> HIDE DEF e
<1>15. Lower(Vis, savedKey)' = W
  BY <1>2, <1>13 DEF Lower, W
<1>16. Gap'
  BY <1>2, <1>6, <1>10, <1>12, <1>13, <1>15 DEF Gap, Behind, e
<1>17. OnEntryReverse'
  BY <1>2, <1>3, <1>4, <1>11, <1>13, <1>16 DEF OnEntryReverse
<1>18. Answered'
  <2>1. shown' = {[key |-> s.key, seq |-> s.seq]}
    BY <1>2, <1>3, <1>4 DEF shown
  <2>2. s \in L
    BY <1>4, <1>11
  <2>3. Ranged(Live(Vis))' = L
    BY <1>5, <1>13 DEF Ranged
  <2>4. AskedOf({"SeekToLast", "Prev"})'
    BY <1>3, <1>5 DEF AskedOf
  <2> HIDE DEF L
  <2>5. \A x \in L : x.key <= s.key
    BY <1>4 DEF L
  <2> QED
    BY <1>2, <2>1, <2>2, <2>3, <2>4, <2>5 DEF Answered
<1>19. Resting'
  BY <1>17 DEF Resting
<1> QED
  BY <1>2, <1>14, <1>18, <1>19, InvariantByPlace

\* A call that returns leaves what it shows.
LEMMA ReturnKept ==
  ASSUME IteratorInv, Return
  PROVE  IteratorInv'
<1>1. DatabaseOK /\ ChildrenOK /\ FieldsOK /\ Resting
  BY DEF IteratorInv, TypeOK
<1>2. /\ pc = "return" /\ pc' = "idle" /\ asked' = {} /\ last' = {}
      /\ UNCHANGED <<dbVars, mergeVars, direction, valid, savedKey, savedValue, skipping, found>>
  BY DEF Return
<1>3. Steady
  BY <1>2 DEF Steady
<1>4. /\ DatabaseOK' /\ ChildrenOK' /\ Vis' = Vis /\ Hd' = Hd /\ iterEntry' = iterEntry
      /\ current' = current /\ mergeDirection' = mergeDirection
      /\ Ahead => Ahead'
      /\ \A X \in SUBSET Vis : CoversBack(Src, Hd, Under(X, iterEntry)) =>
                                 CoversBack(Src', Hd', Under(X, iterEntry'))
  BY <1>1, <1>2, <1>3, Standing
<1>5. TypeOK'
  BY <1>1, <1>2, <1>4 DEF TypeOK, FieldsOK
<1>6. Resting'
  <2>1. OnEntryForward => OnEntryForward'
    BY <1>2, <1>4 DEF OnEntryForward
  <2>2. Lower(Vis, savedKey) \in SUBSET Vis /\ Lower(Vis, savedKey)' = Lower(Vis, savedKey)
    BY <1>2, <1>4 DEF Lower
  <2>3. Behind(Lower(Vis, savedKey)) => Behind(Lower(Vis, savedKey))'
    BY <1>4, <2>2 DEF Behind
  <2>4. Gap => Gap'
    BY <1>2, <1>4, <2>2, <2>3 DEF Gap
  <2>5. OnEntryReverse => OnEntryReverse'
    BY <1>2, <1>4, <2>4 DEF OnEntryReverse
  <2> QED
    BY <1>1, <1>2, <2>1, <2>5 DEF Resting
<1> QED
  BY <1>2, <1>5, <1>6, InvariantByPlace

\* Whatever else stays as it is, the invariant does not mind a newer entry.
LEMMA OthersKept ==
  ASSUME IteratorInv, DatabaseOK', ChildrenOK',
         UNCHANGED <<tables, sequence, mergeVars, direction, valid, savedKey, savedValue,
                     pc, skipping, found, asked, last>>,
         Vis' = Vis, DOMAIN Src' = DOMAIN Src,
         \A i \in DOMAIN Src : \A x \in Src'[i] : x \in Vis => x \in Src[i]
  PROVE  IteratorInv'
<1>1. /\ Hd' = Hd /\ iterEntry' = iterEntry /\ current' = current
      /\ mergeDirection' = mergeDirection
      /\ Ahead => Ahead'
      /\ \A X \in SUBSET Vis : CoversBack(Src, Hd, Under(X, iterEntry)) =>
                                 CoversBack(Src', Hd', Under(X, iterEntry'))
  BY Undisturbed
<1>2. /\ direction' = direction /\ valid' = valid /\ savedKey' = savedKey
      /\ savedValue' = savedValue /\ pc' = pc /\ skipping' = skipping /\ found' = found
      /\ asked' = asked /\ last' = last /\ sequence' = sequence
  OBVIOUS
<1>3. TypeOK'
  BY <1>1, <1>2 DEF IteratorInv, TypeOK, FieldsOK
<1>4. /\ Lower(Vis, savedKey)' = Lower(Vis, savedKey) /\ Lower(Vis, savedKey) \in SUBSET Vis
      /\ Ranged(Vis)' = Ranged(Vis) /\ Ranged(Vis) \in SUBSET Vis
      /\ Ranged(Live(Vis))' = Ranged(Live(Vis))
  BY <1>2 DEF Lower, Ranged
<1>5. /\ \A k : LastKey(k)' <=> LastKey(k)
      /\ \A ops : AskedOf(ops)' <=> AskedOf(ops)
      /\ \A x : hidden(x)' <=> hidden(x)
      /\ shown' = shown
  BY <1>1, <1>2 DEF LastKey, AskedOf, hidden, shown
<1>6. /\ Behind(Lower(Vis, savedKey)) => Behind(Lower(Vis, savedKey))'
      /\ Behind(Ranged(Vis)) => Behind(Ranged(Vis))'
  BY <1>1, <1>4 DEF Behind
<1>7. Resting'
  <2>1. OnEntryForward => OnEntryForward'
    BY <1>1, <1>2 DEF OnEntryForward
  <2>2. Gap => Gap'
    BY <1>1, <1>2, <1>4, <1>6 DEF Gap
  <2>3. OnEntryReverse => OnEntryReverse'
    BY <1>1, <1>2, <2>2 DEF OnEntryReverse
  <2> QED
    BY <1>2, <2>1, <2>3 DEF IteratorInv, Resting
<1>8. TurningForward'
  BY <1>1, <1>2, <1>4, <1>5 DEF IteratorInv, TurningForward
<1>9. FindingNext'
  BY <1>1, <1>2, <1>4, <1>5 DEF IteratorInv, FindingNext
<1>10. TurningBack'
  BY <1>1, <1>2, <1>5 DEF IteratorInv, TurningBack
<1>11. GoingBack'
  BY <1>1, <1>2, <1>5, <1>6 DEF IteratorInv, GoingBack
<1>12. FindingPrev'
  <2>1. \A s : Saved(s)' <=> Saved(s)
    BY <1>2, <1>4 DEF Saved
  <2> QED
    BY <1>1, <1>2, <1>4, <1>5, <1>6, <2>1 DEF IteratorInv, FindingPrev
<1>13. Answered'
  BY <1>2, <1>4, <1>5 DEF IteratorInv, Answered
<1> QED
  BY <1>3, <1>7, <1>8, <1>9, <1>10, <1>11, <1>12, <1>13 DEF IteratorInv

\* A step in which nothing changes.
LEMMA NothingHappens ==
  ASSUME IteratorInv, UNCHANGED iteratorVars
  PROVE  IteratorInv'
<1>1. DatabaseOK /\ ChildrenOK /\ Steady /\ UNCHANGED mergeVars
  BY DEF IteratorInv, TypeOK, iteratorVars, Steady
<1>2. DatabaseOK' /\ ChildrenOK' /\ Vis' = Vis /\ Src' = Src
  BY <1>1, Standing, Unmoved
<1>3. UNCHANGED <<tables, sequence, mergeVars, direction, valid, savedKey, savedValue,
                  pc, skipping, found, asked, last>>
  BY DEF iteratorVars, dbVars
<1> QED
  BY <1>2, <1>3, OthersKept

\* What another thread writes is newer than all the iterator shows.
LEMMA WriteKept ==
  ASSUME IteratorInv, Write
  PROVE  IteratorInv' /\ Vis' = Vis
<1>1. PICK w \in Written :
        /\ lastSequence' = lastSequence + 1
        /\ mem' = mem \cup {[key |-> w.key, seq |-> lastSequence', del |-> w.del]}
        /\ UNCHANGED <<tables, sequence, mergeVars, direction, valid, savedKey, savedValue,
                       pc, skipping, found, asked, last>>
  BY DEF Write
<1>2. PICK n : n = [key |-> w.key, seq |-> lastSequence + 1, del |-> w.del]
  OBVIOUS
<1>3. DatabaseOK /\ ChildrenOK
  BY DEF IteratorInv, TypeOK
<1>4. lastSequence \in Nat /\ sequence \in Nat /\ sequence <= lastSequence
  BY <1>3, DatabaseFacts
<1>5. n \in Entry /\ n.seq = lastSequence + 1
  <2>1. w.key \in Keys /\ w.key \in Nat /\ w.del \in BOOLEAN
    BY IteratorAssumption
  <2>2. n \in Point
    BY <1>2, <1>4, <2>1 DEF Point
  <2> QED
    BY <1>2, <2>1, <2>2 DEF Entry
<1>6. mem' = mem \cup {n} /\ tables' = tables /\ sequence' = sequence
  BY <1>1, <1>2
<1>7. \A x : x \in entriesIn(mem', tables') <=> x \in entriesIn(mem, tables) \/ x = n
  BY <1>6 DEF entriesIn
<1>8. /\ mem \subseteq Entry /\ IsFiniteSet(mem)
      /\ tables \in Seq(Tables \cup Levels)
      /\ sequence \in 0 .. lastSequence
      /\ \A e \in entriesIn(mem, tables) :
           e.seq <= lastSequence /\ \A f \in entriesIn(mem, tables) : e.seq = f.seq => e = f
  BY <1>3 DEF DatabaseOK, IsDatabase
<1>9. \A e \in entriesIn(mem, tables) : e.seq \in Nat /\ e.seq <= lastSequence
  BY <1>3, <1>8, Visible
<1>10. DatabaseOK'
  <2>1. IsFiniteSet(mem')
    BY <1>6, <1>8, FS_AddElement
  <2>2. mem' \subseteq Entry
    BY <1>5, <1>6, <1>8
  <2>3. lastSequence' \in Nat /\ sequence' \in 0 .. lastSequence'
    BY <1>1, <1>4, <1>6
  <2>4. \A e \in entriesIn(mem', tables') :
          e.seq <= lastSequence' /\ \A f \in entriesIn(mem', tables') : e.seq = f.seq => e = f
    <3> SUFFICES ASSUME NEW e, e \in entriesIn(mem, tables) \/ e = n,
                        NEW f, f \in entriesIn(mem, tables) \/ f = n
                 PROVE  e.seq <= lastSequence + 1 /\ (e.seq = f.seq => e = f)
      BY <1>1, <1>7
    <3>1. e = n \/ (e.seq \in Nat /\ e.seq <= lastSequence)
      BY <1>9
    <3>2. f = n \/ (f.seq \in Nat /\ f.seq <= lastSequence)
      BY <1>9
    <3>3. e # n /\ f # n => (e.seq = f.seq => e = f)
      BY <1>8
    <3> QED
      BY <1>4, <1>5, <3>1, <3>2, <3>3
  <2> QED
    BY <1>6, <1>8, <2>1, <2>2, <2>3, <2>4 DEF DatabaseOK, IsDatabase
<1>11. Vis' = Vis
  <2>1. \A x : x \in Vis' <=> x \in entriesIn(mem', tables') /\ x.seq <= sequence
    BY <1>6 DEF Vis, Seen
  <2>2. \A x : x \in Vis <=> x \in entriesIn(mem, tables) /\ x.seq <= sequence
    BY DEF Vis, Seen
  <2>3. ~(n.seq <= sequence)
    BY <1>4, <1>5
  <2> QED
    BY <1>7, <2>1, <2>2, <2>3
<1>12. DOMAIN Src' = DOMAIN Src /\ \A i \in DOMAIN Src : Src'[i] \subseteq Src[i] \cup {n}
  BY <1>6 DEF Src, Sources
<1>13. n \notin Vis
  BY <1>4, <1>5 DEF Vis, Seen
<1>14. ChildrenOK'
  <2>1. children' = children /\ current' = current
    BY <1>1 DEF mergeVars
  <2>2. Hd' = Hd
    BY <1>6, <2>1 DEF Hd
  <2>3. \A i \in DOMAIN children : ChildPos(i, children[i])'
    BY <1>3, <1>6, <2>1 DEF ChildrenOK, ChildPos
  <2> QED
    BY <1>3, <1>6, <2>1, <2>2, <2>3 DEF ChildrenOK
<1> QED
  BY <1>1, <1>10, <1>11, <1>12, <1>13, <1>14, OthersKept

\* A new iterator over a database of the assumed kind satisfies the invariant.
LEMMA InitiallySo ==
  ASSUME IteratorInit
  PROVE  IteratorInv
<1>1. PICK db \in Databases : /\ mem = db.mem /\ lastSequence = db.last
                              /\ tables = db.tables /\ sequence = db.sequence
  BY DEF IteratorInit
<1>2. DatabaseOK
  BY <1>1, IteratorAssumption DEF DatabaseOK, IsDatabase
<1>3. Len(tables) \in Nat /\ 0 \in 0 .. Len(tables) + 1
  BY <1>2, DatabaseFacts
<1>4. ChildrenOK
  <2>1. children = [i \in 1 .. Len(tables) + 1 |-> {}] /\ current = 0
    BY DEF IteratorInit
  <2>2. \A i : ChildPos(i, {})
    BY DEF ChildPos, EntryPos, TablePos, LevelPos
  <2> QED
    BY <1>3, <2>1, <2>2 DEF ChildrenOK
<1>5. FieldsOK
  BY DEF IteratorInit, FieldsOK
<1> QED
  BY <1>2, <1>4, <1>5 DEF IteratorInit, IteratorInv, TypeOK, Resting, TurningForward,
    FindingNext, TurningBack, GoingBack, FindingPrev, Answered

\* Whatever the calls and the writes, the iterator's state is that of the loops
\* of DBIter and MergingIterator: between two of their rounds no child has gone
\* past an entry it may still have to show.
THEOREM IteratorInvariance == IteratorSpec => []IteratorInv
<1>1. IteratorInit => IteratorInv
  BY InitiallySo
<1>2. IteratorInv /\ [IteratorNext]_iteratorVars => IteratorInv'
  <2> SUFFICES ASSUME IteratorInv, [IteratorNext]_iteratorVars
               PROVE  IteratorInv'
    OBVIOUS
  <2>1. CASE Seek
    BY <2>1, SeekKept
  <2>2. CASE SeekToFirst
    BY <2>2, SeekToFirstKept
  <2>3. CASE SeekToLast
    BY <2>3, SeekToLastKept
  <2>4. CASE Next
    BY <2>4, NextKept
  <2>5. CASE Prev
    BY <2>5, PrevKept
  <2>6. CASE TurnForward
    BY <2>6, TurnForwardKept
  <2>7. CASE SkipEntry
    BY <2>7, SkipKept
  <2>8. CASE YieldEntry
    BY <2>8, YieldEntryKept
  <2>9. CASE TurnBack
    BY <2>9, TurnBackKept
  <2>10. CASE Back
    BY <2>10, BackKept
  <2>11. CASE PassEntry
    BY <2>11, PassKept
  <2>12. CASE YieldSaved
    BY <2>12, YieldSavedKept
  <2>13. CASE Return
    BY <2>13, ReturnKept
  <2>14. CASE Write
    BY <2>14, WriteKept
  <2>15. CASE UNCHANGED iteratorVars
    BY <2>15, NothingHappens
  <2> QED
    BY <2>1, <2>2, <2>3, <2>4, <2>5, <2>6, <2>7, <2>8, <2>9, <2>10, <2>11, <2>12, <2>13,
       <2>14, <2>15 DEF IteratorNext, Running
<1> QED
  BY <1>1, <1>2, PTL DEF IteratorSpec

-----------------------------------------------------------------------------
(* What callers see *)

\* A live entry as the iterator shows it.
AsShown(e) == [key |-> e.key, seq |-> e.seq]

\* The view is what is live.
LEMMA ViewIsLive ==
  ASSUME DatabaseOK
  PROVE  view = {AsShown(e) : e \in Live(Vis)}
<1> DEFINE E == entriesIn(mem, tables)
           N == {x \in UNION {Newest(E, k, sequence) : k \in Keys} : ~x.del}
<1>1. \A x \in E : x.key \in Keys
  BY DatabaseFacts DEF Entry
<1>2. \A x, k : x \in Newest(E, k, sequence) <=>
        /\ x \in E /\ x.key = k /\ x.seq <= sequence
        /\ \A y \in E : y.key = k /\ y.seq <= sequence => y.seq <= x.seq
  BY DEF Newest
<1>3. \A x : x \in Vis <=> x \in E /\ x.seq <= sequence
  BY Visible
<1>4. \A x : x \in Live(Vis) <=>
        x \in Vis /\ ~x.del /\ \A y \in Vis : y.key = x.key => y.seq <= x.seq
  BY Visible
<1>5. \A x : x \in N <=> ~x.del /\ \E k \in Keys : x \in Newest(E, k, sequence)
  OBVIOUS
<1>6. view = {[key |-> e.key, seq |-> e.seq] : e \in N}
  BY DEF view
<1> HIDE DEF E, N
<1>7. N = Live(Vis)
  <2>1. ASSUME NEW x \in N
        PROVE  x \in Live(Vis)
    BY <1>2, <1>3, <1>4, <1>5
  <2>2. ASSUME NEW x \in Live(Vis)
        PROVE  x \in N
    BY <1>1, <1>2, <1>3, <1>4, <1>5
  <2> QED
    BY <2>1, <2>2
<1> QED
  BY <1>6, <1>7 DEF AsShown

\* While the call runs, what the cursor would answer is what is shown.
LEMMA AnswerShown ==
  ASSUME IteratorInv, pc = "return", NEW call \in asked
  PROVE  CursorView!Answer(call) = shown
<1> DEFINE L == {x \in Live(Vis) : InRange(asked, last, x.key)}
           V == {v \in view : InRange(asked, last, v.key)}
           backward == call.op \in {"SeekToLast", "Prev"}
<1>1. DatabaseOK /\ FieldsOK /\ Answered
  BY DEF IteratorInv, TypeOK
<1>2. call \in Calls /\ asked = {call}
  BY <1>1 DEF FieldsOK
<1>3. V = {AsShown(x) : x \in L}
  <2>1. \A x : AsShown(x).key = x.key
    BY DEF AsShown
  <2>2. view = {AsShown(x) : x \in Live(Vis)}
    BY <1>1, ViewIsLive
  <2> QED
    BY <2>1, <2>2
<1>4. CursorView!Answer(call) = IF backward THEN CursorView!LastOf(V) ELSE CursorView!FirstOf(V)
  <2>1. CASE call.op = "SeekToFirst"
    <3>1. V = view
      BY <1>2, <2>1, CallNames, Ranges
    <3> HIDE DEF V
    <3> QED
      BY <2>1, <3>1 DEF CursorView!Answer
  <2>2. CASE call.op = "SeekToLast"
    <3>1. V = view
      BY <1>2, <2>2, CallNames, Ranges
    <3> HIDE DEF V
    <3> QED
      BY <2>2, <3>1 DEF CursorView!Answer
  <2>3. CASE call.op = "Seek"
    <3>1. V = {v \in view : v.key >= call.key}
      <4>1. \A k : InRange({call}, last, k) <=> k >= call.key
        BY <2>3 DEF InRange
      <4> QED
        BY <1>2, <4>1
    <3> HIDE DEF V
    <3> QED
      BY <2>3, <3>1 DEF CursorView!Answer
  <2>4. CASE call.op = "Next"
    <3>1. V = {v \in view : \A c \in last : v.key > c.key}
      <4>1. \A k : InRange({call}, last, k) <=> \A c \in last : k > c.key
        BY <2>4 DEF InRange
      <4> QED
        BY <1>2, <4>1
    <3> HIDE DEF V
    <3> QED
      BY <1>2, <2>4, <3>1 DEF CursorView!Answer
  <2>5. CASE call.op = "Prev"
    <3>1. V = {v \in view : \A c \in last : v.key < c.key}
      <4>1. \A k : InRange({call}, last, k) <=> \A c \in last : k < c.key
        BY <2>5 DEF InRange
      <4> QED
        BY <1>2, <4>1
    <3> HIDE DEF V
    <3> QED
      BY <1>2, <2>5, <3>1 DEF CursorView!Answer
  <2> QED
    BY <1>2, <2>1, <2>2, <2>3, <2>4, <2>5, CallNames
<1>5. L = Ranged(Live(Vis))
  BY DEF Ranged
<1>6. CASE ~valid
  <2>1. V = {} /\ shown = {}
    BY <1>1, <1>3, <1>5, <1>6 DEF Answered, shown
  <2> HIDE DEF V
  <2> QED
    BY <1>4, <2>1 DEF CursorView!FirstOf, CursorView!LastOf
<1>7. CASE valid
  <2>1. AskedOf({"SeekToLast", "Prev"}) <=> backward
    BY <1>2 DEF AskedOf
  <2>2. PICK e \in L :
          /\ shown = {AsShown(e)}
          /\ \A x \in L : IF backward THEN x.key <= e.key ELSE e.key <= x.key
    BY <1>1, <1>5, <1>7, <2>1 DEF Answered, AsShown
  <2>3. \A x \in L : /\ x.key \in Nat /\ AsShown(x).key = x.key
                     /\ x.key = e.key => AsShown(x) = AsShown(e)
    <3>1. \A x \in L : x \in Vis /\ \A y \in Vis : y.key = x.key => y.seq <= x.seq
      BY <1>1, Visible
    <3>2. \A x \in Vis : x.key \in Nat /\ x.seq \in Nat
      BY <1>1, Visible
    <3> HIDE DEF L
    <3>3. \A x \in L : x.key = e.key => x.seq = e.seq
      BY <2>2, <3>1, <3>2
    <3> QED
      BY <3>1, <3>2, <3>3 DEF AsShown
  <2> HIDE DEF L, V
  <2>4. CASE backward
    <3>1. \A x \in V : x.key <= AsShown(e).key
      BY <1>3, <2>2, <2>3, <2>4
    <3>2. AsShown(e) \in V
      BY <1>3, <2>2
    <3>3. \A x \in V : AsShown(e).key <= x.key => x = AsShown(e)
      BY <1>3, <2>2, <2>3, <2>4
    <3>4. CursorView!LastOf(V) = {AsShown(e)}
      BY <3>1, <3>2, <3>3 DEF CursorView!LastOf
    <3> QED
      BY <1>4, <2>2, <2>4, <3>4
  <2>5. CASE ~backward
    <3>1. \A x \in V : AsShown(e).key <= x.key
      BY <1>3, <2>2, <2>3, <2>5
    <3>2. AsShown(e) \in V
      BY <1>3, <2>2
    <3>3. \A x \in V : x.key <= AsShown(e).key => x = AsShown(e)
      BY <1>3, <2>2, <2>3, <2>5
    <3>4. CursorView!FirstOf(V) = {AsShown(e)}
      BY <3>1, <3>2, <3>3 DEF CursorView!FirstOf
    <3> QED
      BY <1>4, <2>2, <2>5, <3>4
  <2> QED
    BY <2>4, <2>5
<1> QED
  BY <1>6, <1>7

\* Where the cursor is: the substitution for at in CursorView.
atView == IF asked = {} THEN shown ELSE last

\* A call that begins is one the cursor is asked.
LEMMA CallAsks ==
  ASSUME IteratorInv, Steady, NEW call \in Calls, called(call),
         call.op \in {"Next", "Prev"} => valid
  PROVE  CursorView!Ask
<1>1. asked = {} /\ asked' = {call} /\ last' = shown
  BY DEF called, IteratorInv, TypeOK, FieldsOK
<1>2. view' = view
  BY DEF Steady, dbVars, view
<1>3. atView' = atView /\ atView = shown
  BY <1>1 DEF atView
<1>4. valid => shown # {}
  BY DEF shown
<1> QED
  BY <1>1, <1>2, <1>3, <1>4 DEF CursorView!Ask, atView

\* In between the cursor sees nothing.
LEMMA InBetween ==
  ASSUME IteratorInv, pc # "idle", continues
  PROVE  UNCHANGED CursorView!cursorVars
<1>1. asked # {} /\ asked' = asked /\ last' = last
  BY DEF IteratorInv, TypeOK, FieldsOK, continues
<1>2. view' = view
  BY DEF continues, dbVars, view
<1> QED
  BY <1>1, <1>2 DEF CursorView!cursorVars

\* Whatever the calls, and whatever is written meanwhile, the iterator shows
\* the next, the previous, the first or the last key of the snapshot with its
\* newest value (DBIter and MergingIterator over any tables and levels).
THEOREM IteratorIsCursor == IteratorSpec => ImplementsCursor
<1>1. IteratorInit => CursorView!CursorInit
  BY DEF IteratorInit, CursorView!CursorInit, shown
<1>2. IteratorInv /\ [IteratorNext]_iteratorVars => [CursorView!CursorNext]_(CursorView!cursorVars)
  <2> SUFFICES ASSUME IteratorInv, [IteratorNext]_iteratorVars
               PROVE  CursorView!CursorNext \/ UNCHANGED CursorView!cursorVars
    OBVIOUS
  <2>1. CASE Seek
    <3>1. PICK k \in Keys : called([op |-> "Seek", key |-> k])
      BY <2>1 DEF Seek
    <3>2. PICK call : call = [op |-> "Seek", key |-> k]
      OBVIOUS
    <3>3. call \in Calls /\ call.op = "Seek" /\ called(call) /\ Steady
      BY <3>1, <3>2, CallNames DEF called, Steady
    <3> QED
      BY <3>3, CallAsks DEF CursorView!CursorNext
  <2>2. CASE SeekToFirst \/ SeekToLast \/ Next \/ Prev
    <3>1. PICK call \in Calls : called(call) /\ (call.op \in {"Next", "Prev"} => valid)
      BY <2>2, CallNames DEF SeekToFirst, SeekToLast, Next, Prev
    <3>2. Steady
      BY <3>1 DEF called, Steady
    <3> QED
      BY <3>1, <3>2, CallAsks DEF CursorView!CursorNext
  <2>3. CASE TurnForward \/ SkipEntry \/ YieldEntry \/ TurnBack \/ Back \/ PassEntry \/ YieldSaved
    <3>1. pc # "idle" /\ continues
      BY <2>3 DEF TurnForward, SkipEntry, YieldEntry, TurnBack, Back, PassEntry, YieldSaved
    <3> QED
      BY <3>1, InBetween
  <2>4. CASE Return
    <3>1. /\ pc = "return" /\ asked' = {}
          /\ UNCHANGED <<dbVars, mergeVars, direction, valid, savedKey, savedValue, skipping, found>>
      BY <2>4 DEF Return
    <3>2. PICK call \in Calls : asked = {call}
      BY <3>1 DEF IteratorInv, TypeOK, FieldsOK
    <3>3. CursorView!Answer(call) = shown
      BY <3>1, <3>2, AnswerShown
    <3>4. view' = view
      BY <3>1 DEF dbVars, view
    <3>5. shown' = shown
      <4>1. DatabaseOK /\ ChildrenOK /\ Steady
        BY <3>1 DEF IteratorInv, TypeOK, Steady
      <4>2. iterEntry' = iterEntry
        BY <3>1, <4>1, Standing
      <4> QED
        BY <3>1, <4>2 DEF shown
    <3>6. CursorView!Return
      BY <3>1, <3>2, <3>3, <3>4, <3>5 DEF CursorView!Return
    <3> QED
      BY <3>6 DEF CursorView!CursorNext
  <2>5. CASE Write
    <3>1. /\ UNCHANGED <<tables, sequence, mergeVars, direction, valid, savedKey, savedValue,
                         pc, skipping, found, asked, last>>
      BY <2>5 DEF Write
    <3>2. IteratorInv' /\ Vis' = Vis
      BY <2>5, WriteKept
    <3>3. view' = view
      <4>1. \A x : x \in entriesIn(mem', tables') /\ x.seq <= sequence
                    <=> x \in entriesIn(mem, tables) /\ x.seq <= sequence
        <5>1. \A x : x \in Vis <=> x \in entriesIn(mem, tables) /\ x.seq <= sequence
          BY DEF Vis, Seen
        <5>2. \A x : x \in Vis' <=> x \in entriesIn(mem', tables') /\ x.seq <= sequence
          BY <3>1 DEF Vis, Seen
        <5> QED
          BY <3>2, <5>1, <5>2
      <4>2. \A k : Newest(entriesIn(mem', tables'), k, sequence)
                     = Newest(entriesIn(mem, tables), k, sequence)
        <5> TAKE k
        <5>1. {e \in entriesIn(mem', tables') : e.key = k /\ e.seq <= sequence}
                = {e \in entriesIn(mem, tables) : e.key = k /\ e.seq <= sequence}
          BY <4>1
        <5> QED
          BY <5>1 DEF Newest
      <4> QED
        BY <3>1, <4>2 DEF view
    <3>4. shown' = shown
      <4>1. childEntry(children, current)' = childEntry(children, current)
        BY <3>1 DEF childEntry, mergeVars
      <4>2. iterEntry' = iterEntry
        BY <4>1 DEF iterEntry
      <4> QED
        BY <3>1, <4>2 DEF shown
    <3> QED
      BY <3>1, <3>3, <3>4 DEF CursorView!cursorVars
  <2>6. CASE UNCHANGED iteratorVars
    <3>1. view' = view
      BY <2>6 DEF iteratorVars, dbVars, view
    <3>2. shown' = shown
      <4>1. childEntry(children, current)' = childEntry(children, current)
        BY <2>6 DEF childEntry, iteratorVars, dbVars, mergeVars
      <4>2. iterEntry' = iterEntry
        BY <4>1 DEF iterEntry
      <4> QED
        BY <2>6, <4>2 DEF iteratorVars, shown
    <3> QED
      BY <2>6, <3>1, <3>2 DEF CursorView!cursorVars, iteratorVars
  <2> QED
    BY <2>1, <2>2, <2>3, <2>4, <2>5, <2>6 DEF IteratorNext, Running
<1> QED
  BY <1>1, <1>2, IteratorInvariance, PTL
  DEF IteratorSpec, ImplementsCursor, CursorView!CursorSpec

=============================================================================
