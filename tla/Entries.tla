------------------------------ MODULE Entries -------------------------------
(***************************************************************************)
(* The entries of LevelDB and their order.  An entry is [key, seq, del]: a *)
(* write of a key, or a deletion marker.  The sequence number stands for   *)
(* the value.                                                              *)
(***************************************************************************)
EXTENDS Integers

\* InternalKeyComparator: by key, then the newest entry first.
Before(a, b) == a.key < b.key \/ (a.key = b.key /\ a.seq > b.seq)

\* The entry a reader at sequence number s finds for key k in a table or a
\* memtable, as a set of at most one.
Newest(E, k, s) ==
  LET seen == {e \in E : e.key = k /\ e.seq <= s}
  IN  {e \in seen : \A x \in seen : x.seq <= e.seq}

=============================================================================
