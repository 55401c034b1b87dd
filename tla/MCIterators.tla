---------------------------- MODULE MCIterators -----------------------------
(***************************************************************************)
(* Databases for Iterators: five writes of three keys, of which the oldest *)
(* are in tables of level 1, later ones in a table of level 0, and the     *)
(* last one may be in the memtable.  The snapshot was taken before it.     *)
(***************************************************************************)
EXTENDS Iterators, SequencesExt

\* kMaxSequenceNumber, which no write has.
EarliestSequence == 99

sorted(E) == SetToSortSeq(E, Before)

cut(s, n) ==
  [i \in 1 .. (Len(s) + n - 1) \div n |->
     SubSeq(s, (i - 1) * n + 1, IF i * n < Len(s) THEN i * n ELSE Len(s))]

\* The index key of a block: a key between it and the next one, if there is
\* one (FindShortestSeparator), or its last entry.
separator(block, next) ==
  LET end == block[Len(block)]
  IN  IF next[1].key > end.key + 1
      THEN [key |-> end.key + 1, seq |-> EarliestSequence, del |-> FALSE]
      ELSE end

Table(E, n) ==
  LET blocks == cut(sorted(E), n)
      indexKey(i) == IF i < Len(blocks) THEN separator(blocks[i], blocks[i + 1])
                     ELSE blocks[i][Len(blocks[i])]
  IN  [blocks |-> blocks,
       index |-> [i \in DOMAIN blocks |-> indexKey(i)]]

\* A level: tables of two entries, under their largest.
Level(E) ==
  LET files == cut(sorted(E), 2)
  IN  [files |-> [i \in DOMAIN files |-> Table({files[i][j] : j \in DOMAIN files[i]}, 1)],
       index |-> [i \in DOMAIN files |-> files[i][Len(files[i])]]]

ThreeKeys == 1 .. 3

\* At most one of the second and the fourth is a deletion.
Writes == {w \in [1 .. 5 -> [key : ThreeKeys, del : BOOLEAN]] :
             /\ \A i \in 1 .. 5 : w[i].del => i \in {2, 4}
             /\ ~(w[2].del /\ w[4].del)
             /\ w[1].key <= w[2].key /\ w[2].key <= w[3].key
             /\ w[5].key # 2}

LateWrites == [key : ThreeKeys, del : {FALSE}]

\* How the writes are spread: up to the first in level 1, up to the second in
\* level 0, the rest in the memtable.
Spread == {<<3, 4>>, <<1, 5>>}

EntriesFrom(w, a, b) ==
  {[key |-> w[i].key, seq |-> i, del |-> w[i].del] : i \in a .. b}

SmallDatabases ==
  {[mem |-> EntriesFrom(w, s[2] + 1, 5),
    tables |-> <<Table(EntriesFrom(w, s[1] + 1, s[2]), 3), Level(EntriesFrom(w, 1, s[1]))>>,
    sequence |-> 4, last |-> 5] : w \in Writes, s \in Spread}

=============================================================================
