----------------------------- MODULE Iterators ------------------------------
(***************************************************************************)
(* An iterator of LevelDB, moved forward and backward by one thread while  *)
(* others write: DBIter over a MergingIterator over the memtable and the   *)
(* tables, which are TwoLevelIterators over blocks.                        *)
(*                                                                         *)
(* The loops of DBIter are unrolled: every action makes one call of the    *)
(* MergingIterator, so that writes come between any two of them.  When the *)
(* MergingIterator changes its direction it visits the memtable twice, and *)
(* that is two actions as well.  Module Cursor is what callers see.        *)
(*                                                                         *)
(* Tables do not change and are not deleted while an iterator holds them,  *)
(* which LevelDB.tla checks (FilesInUseExist).                             *)
(***************************************************************************)
EXTENDS Entries, Sequences, FiniteSets, FiniteSetsExt

CONSTANTS
  Databases,        \* [mem, tables, sequence, last]: what an iterator is made of
  Keys,             \* the keys written and sought
  Written,          \* what may be written meanwhile: a set of [key, del]
  RestartInterval,  \* entries of a block from one restart point to the next
  MaxSequence       \* bound: the last sequence number given to a write

VARIABLES
  mem,           \* the entries of the memtable
  lastSequence,  \* of the database
  tables,        \* the other children: see Sources
  sequence,      \* sequence_: newer entries are not shown
  children, current, mergeDirection,   \* the fields of the MergingIterator
  direction, valid, savedKey, savedValue,   \* the fields of DBIter
  pc,            \* where the running call is
  skipping, found,                          \* its local variables
  asked,         \* the running call, in a set of at most one
  last           \* what the iterator showed when it was called

dbVars == <<mem, lastSequence, tables, sequence>>
mergeVars == <<children, current, mergeDirection>>
iteratorVars == <<dbVars, mergeVars, direction, valid, savedKey, savedValue, pc, skipping,
          found, asked, last>>

\* What an iterator is told to do; Seek goes to an entry.
Move(op) == [op |-> op]
SeekTo(e) == [op |-> "Seek", to |-> e]

-----------------------------------------------------------------------------
(***************************************************************************)
(* Sources.  A block is a sequence of entries with restart points.  A run  *)
(* is a sequence of parts, each under a key not before its entries: a      *)
(* table's are blocks, a level's are tables.  An iterator is {} if it is   *)
(* not valid, or else has one element: for a block a position, for a run   *)
(* the number of a part and an element of that part's iterator.            *)
(***************************************************************************)

isTable(s) == "blocks" \in DOMAIN s

firstOf(S) == {i \in S : \A j \in S : i <= j}
lastOf(S)  == {i \in S : \A j \in S : j <= i}

isRestart(i) == (i - 1) % RestartInterval = 0

\* The binary search for the last restart point with an entry before t; the
\* rounds after the one that ends it change nothing.
halved(b, t, s) ==
  LET mid == (s.left + s.right + 1) \div 2
  IN  IF s.left >= s.right THEN s
      ELSE IF Before(b[1 + (mid - 1) * RestartInterval], t) THEN [s EXCEPT !.left = mid]
      ELSE [s EXCEPT !.right = mid - 1]

restartBefore(b, t) ==
  LET n == 1 + (Len(b) - 1) \div RestartInterval
      round[k \in 0 .. n] ==
        IF k = 0 THEN [left |-> 1, right |-> n] ELSE halved(b, t, round[k - 1])
  IN  1 + (round[n].left - 1) * RestartInterval

BlockSeek(b, t) ==
  firstOf({i \in restartBefore(b, t) .. Len(b) : ~Before(b[i], t)})

\* Fault injection: the scan starts at the entry itself if that is a restart
\* point.
BlockPrevOffByOne(i) ==
  LET starts == {r \in 1 .. i : isRestart(r)}
  IN  IF i = 1 THEN {} ELSE lastOf(starts \cup {i - 1})

\* The entry before is found by a scan from the restart point before.
BlockPrev(i) ==
  LET starts == {r \in 1 .. i - 1 : isRestart(r)}
  IN  IF starts = {} THEN {} ELSE lastOf(starts \cup {i - 1})

BlockMoved(b, p, move) ==
  CASE move.op = "First" -> {1}
    [] move.op = "Last" -> {Len(b)}
    [] move.op = "Seek" -> BlockSeek(b, move.to)
    [] move.op = "Next" -> {i + 1 : i \in p \ {Len(b)}}
    [] move.op = "Prev" -> UNION {BlockPrev(i) : i \in p}

\* The part an index leads to: the first whose key is not before t.
IndexSeek(index, t) == firstOf({i \in DOMAIN index : ~Before(index[i], t)})

\* The entry an iterator stands on, as a set of at most one.
BlockEntry(b, p) == {b[i] : i \in p}
TableEntry(t, p) == UNION {BlockEntry(t.blocks[q[1]], {q[2]}) : q \in p}
LevelEntry(l, p) == UNION {TableEntry(l.files[q[1]], {q[2]}) : q \in p}

\* A run of which part i, when told so, moves to PartMoved(i, p, move).
\* InitDataBlock: a new iterator of part i, if there is one, and its move.
InPart(n, i, move, PartMoved(_, _, _)) ==
  UNION {{<<j, q>> : q \in PartMoved(j, {}, move)} : j \in {i} \cap 1 .. n}

\* No part is empty, so the first entry of the next one is there.
RunMoved(index, p, move, PartMoved(_, _, _)) ==
  LET n == Len(index)
      within(q) == {<<q[1], x>> : x \in PartMoved(q[1], {q[2]}, move)}
      SkipForward(i, x) ==
        IF x # {} THEN x ELSE InPart(n, i + 1, Move("First"), PartMoved)
      SkipBackward(i, x) ==
        IF x # {} THEN x ELSE InPart(n, i - 1, Move("Last"), PartMoved)
  IN  CASE move.op = "First" -> InPart(n, 1, move, PartMoved)
        [] move.op = "Last" -> InPart(n, n, move, PartMoved)
        [] move.op = "Seek" -> UNION {SkipForward(i, InPart(n, i, move, PartMoved)) :
                                        i \in IndexSeek(index, move.to)}
        [] move.op = "Next" -> UNION {SkipForward(q[1], within(q)) : q \in p}
        [] move.op = "Prev" -> UNION {SkipBackward(q[1], within(q)) : q \in p}

TableMoved(t, p, move) ==
  LET blockMoved(i, q, m) == BlockMoved(t.blocks[i], q, m)
  IN  RunMoved(t.index, p, move, blockMoved)

LevelMoved(l, p, move) ==
  LET fileMoved(i, q, m) == TableMoved(l.files[i], q, m)
  IN  RunMoved(l.index, p, move, fileMoved)

EntryAt(s, p) == IF isTable(s) THEN TableEntry(s, p) ELSE LevelEntry(s, p)
Moved(s, p, move) == IF isTable(s) THEN TableMoved(s, p, move) ELSE LevelMoved(s, p, move)

BlockEntries(b) == {b[i] : i \in DOMAIN b}
TableEntries(t) == UNION {BlockEntries(t.blocks[i]) : i \in DOMAIN t.blocks}
LevelEntries(l) == UNION {TableEntries(l.files[i]) : i \in DOMAIN l.files}
EntriesOf(s) == IF isTable(s) THEN TableEntries(s) ELSE LevelEntries(s)

\* What is sound, as tables are written (TableBuilder::Add, which takes entries
\* in their order only): every key of an index lies between its part and the
\* parts after it.
Point == [key : Nat, seq : Nat, del : BOOLEAN]
Entry == {e \in Point : e.key \in Keys}

Leads(index, parts) ==
  /\ index # <<>> /\ DOMAIN parts = DOMAIN index
  /\ \A i \in DOMAIN index :
       /\ \A e \in parts[i] : ~Before(index[i], e)
       /\ \A j \in DOMAIN index : i < j => \A e \in parts[j] : Before(index[i], e)

Blocks == {b \in Seq(Entry) : b # <<>> /\ \A i, j \in DOMAIN b : i < j => Before(b[i], b[j])}

Tables == {t \in [blocks : Seq(Blocks), index : Seq(Point)] :
             Leads(t.index, [i \in DOMAIN t.blocks |-> BlockEntries(t.blocks[i])])}

Levels == {l \in [files : Seq(Tables), index : Seq(Point)] :
             Leads(l.index, [i \in DOMAIN l.files |-> TableEntries(l.files[i])])}

entriesIn(m, ts) == m \cup UNION {EntriesOf(ts[i]) : i \in DOMAIN ts}

\* No sequence number is given twice, and none is above the last one.
IsDatabase(db) ==
  /\ db.mem \subseteq Entry /\ IsFiniteSet(db.mem)
  /\ db.tables \in Seq(Tables \cup Levels)
  /\ db.last \in Nat /\ db.sequence \in 0 .. db.last
  /\ \A e \in entriesIn(db.mem, db.tables) :
       e.seq <= db.last /\ \A f \in entriesIn(db.mem, db.tables) : e.seq = f.seq => e = f

ASSUME IteratorAssumption ==
  /\ RestartInterval \in Nat \ {0}
  /\ Keys \subseteq Nat /\ Written \subseteq [key : Keys, del : BOOLEAN]
  /\ \A db \in Databases : IsDatabase(db)

\* The memtable's iterator is a node of the skip list.  There are no links
\* backward: Prev searches anew.
least(E)    == {e \in E : \A x \in E \ {e} : Before(e, x)}
greatest(E) == {e \in E : \A x \in E \ {e} : Before(x, e)}

MemMoved(node, move) ==
  CASE move.op = "First" -> least(mem)
    [] move.op = "Last" -> greatest(mem)
    [] move.op = "Seek" -> least({e \in mem : ~Before(e, move.to)})
    [] move.op = "Next" -> least({e \in mem : \A n \in node : Before(n, e)})
    [] move.op = "Prev" -> greatest({e \in mem : \A n \in node : Before(e, n)})

-----------------------------------------------------------------------------
(***************************************************************************)
(* The MergingIterator.  Child 1 is the memtable's; current is the number  *)
(* of a child, or 0 if it is not valid.                                    *)
(***************************************************************************)

childEntry(ch, i) == IF i = 1 THEN ch[1] ELSE EntryAt(tables[i - 1], ch[i])

childMoved(ch, i, move) ==
  IF i = 1 THEN MemMoved(ch[1], move) ELSE Moved(tables[i - 1], ch[i], move)

\* The children on the first entry of all, or on the last.
heads(ch) == UNION {childEntry(ch, i) : i \in DOMAIN ch}
onFirst(ch) == {i \in DOMAIN ch : \E e \in childEntry(ch, i) :
                                     \A x \in heads(ch) : ~Before(x, e)}
onLast(ch)  == {i \in DOMAIN ch : \E e \in childEntry(ch, i) :
                                     \A x \in heads(ch) : ~Before(e, x)}

\* The first of them by number, or the last.
FindSmallest(ch) == IF onFirst(ch) = {} THEN 0 ELSE Min(onFirst(ch))
FindLargest(ch)  == IF onLast(ch) = {} THEN 0 ELSE Max(onLast(ch))

goForward(ch) ==
  /\ children' = ch
  /\ current' = FindSmallest(children')
  /\ mergeDirection' = "kForward"

goBackward(ch) ==
  /\ children' = ch
  /\ current' = FindLargest(children')
  /\ mergeDirection' = "kReverse"

allMoved(move) == [i \in DOMAIN children |-> childMoved(children, i, move)]

currentMoved(ch, move) == [ch EXCEPT ![current] = childMoved(ch, current, move)]

iterEntry == CHOOSE e \in childEntry(children, current) : TRUE

mergeSeek(e) == goForward(allMoved(SeekTo(e)))
mergeSeekToFirst == goForward(allMoved(Move("First")))
mergeSeekToLast == goBackward(allMoved(Move("Last")))
mergeNext == goForward(currentMoved(children, Move("Next")))
mergePrev == goBackward(currentMoved(children, Move("Prev")))

\* The first half of a change of direction: the children that are not the
\* current one seek its key.
seekOthers(dir) ==
  /\ children' = [i \in DOMAIN children |->
                    IF i = current \/ mergeDirection = dir THEN children[i]
                    ELSE childMoved(children, i, SeekTo(iterEntry))]
  /\ UNCHANGED <<current, mergeDirection>>

\* The second half: they step past it, and the current one moves.
stepAfter(i) ==
  IF mergeDirection = "kReverse" /\ childEntry(children, i) = {iterEntry}
  THEN childMoved(children, i, Move("Next")) ELSE children[i]

\* Fault injection: a child with no entry after the current one is left.
stepBeforeIfValid(i) ==
  IF mergeDirection = "kForward" /\ childEntry(children, i) # {}
  THEN childMoved(children, i, Move("Prev")) ELSE children[i]

stepBefore(i) ==
  IF mergeDirection = "kReverse" THEN children[i]
  ELSE childMoved(children, i, IF childEntry(children, i) # {} THEN Move("Prev")
                               ELSE Move("Last"))

nextTurning ==
  LET ch == [i \in DOMAIN children |-> IF i = current THEN children[i] ELSE stepAfter(i)]
  IN  goForward(currentMoved(ch, Move("Next")))

prevTurning ==
  LET ch == [i \in DOMAIN children |-> IF i = current THEN children[i] ELSE stepBefore(i)]
  IN  goBackward(currentMoved(ch, Move("Prev")))

-----------------------------------------------------------------------------
(* DBIter *)

Calls == {[op |-> "SeekToFirst"], [op |-> "SeekToLast"], [op |-> "Next"],
          [op |-> "Prev"]} \cup {[op |-> "Seek", key |-> k] : k \in Keys}

\* key() and value(), as a set of at most one.
shown ==
  IF ~valid THEN {}
  ELSE IF direction = "kForward"
       THEN {[key |-> iterEntry.key, seq |-> iterEntry.seq]}
       ELSE {[key |-> savedKey, seq |-> savedValue]}

IteratorInit ==
  /\ \E db \in Databases :
       /\ mem = db.mem /\ lastSequence = db.last
       /\ tables = db.tables /\ sequence = db.sequence
  /\ children = [i \in 1 .. Len(tables) + 1 |-> {}]
  /\ current = 0 /\ mergeDirection = "kForward"
  /\ direction = "kForward" /\ valid = FALSE
  /\ savedKey = 0 /\ savedValue = 0
  /\ pc = "idle" /\ skipping = FALSE /\ found = FALSE
  /\ asked = {} /\ last = {}

called(call) ==
  /\ pc = "idle"
  /\ asked' = {call} /\ last' = shown
  /\ UNCHANGED dbVars

continues == UNCHANGED <<dbVars, asked, last>>

\* The call ends with no entry to show.
invalid == valid' = FALSE /\ pc' = "return"

\* Into the loop of FindNextUserEntry, if iter_ is valid.
findNextFrom(skip) ==
  /\ current' # 0
  /\ pc' = "findNext" /\ skipping' = skip
  /\ UNCHANGED <<valid, found>>

\* Into FindPrevUserEntry, which shows nothing if iter_ is not valid.
findPrevFrom(value) ==
  /\ found' = FALSE /\ UNCHANGED skipping
  /\ \/ /\ current' # 0
        /\ direction' = "kReverse" /\ pc' = "findPrev" /\ savedValue' = value
        /\ UNCHANGED <<valid, savedKey>>
     \/ /\ current' = 0
        /\ direction' = "kForward" /\ invalid /\ savedKey' = 0 /\ savedValue' = 0

\* On from the entries of the current key, whose name saved_key_ has.
leaveKey ==
  /\ UNCHANGED savedValue
  /\ \/ findNextFrom(TRUE) /\ UNCHANGED savedKey
     \/ current' = 0 /\ invalid /\ savedKey' = 0 /\ UNCHANGED <<skipping, found>>

\* saved_key_ keeps the target, as temporary storage.
Seek == \E k \in Keys :
  /\ called([op |-> "Seek", key |-> k])
  /\ mergeSeek([key |-> k, seq |-> sequence, del |-> FALSE])
  /\ direction' = "kForward" /\ savedKey' = k /\ savedValue' = 0
  /\ \/ findNextFrom(FALSE)
     \/ current' = 0 /\ invalid /\ UNCHANGED <<skipping, found>>

SeekToFirst ==
  /\ called([op |-> "SeekToFirst"])
  /\ mergeSeekToFirst
  /\ direction' = "kForward" /\ savedValue' = 0 /\ UNCHANGED savedKey
  /\ \/ findNextFrom(FALSE)
     \/ current' = 0 /\ invalid /\ UNCHANGED <<skipping, found>>

SeekToLast ==
  /\ called([op |-> "SeekToLast"])
  /\ mergeSeekToLast
  /\ findPrevFrom(0)

\* Next in the forward direction: the entries of the current key are hidden.
Next ==
  /\ valid /\ called([op |-> "Next"])
  /\ direction' = "kForward"
  /\ \/ /\ direction = "kForward"
        /\ UNCHANGED mergeVars
        /\ savedKey' = iterEntry.key
        /\ findNextFrom(TRUE)
        /\ UNCHANGED savedValue
     \/ /\ direction = "kReverse" /\ current = 0
        /\ mergeSeekToFirst
        /\ leaveKey
     \/ /\ direction = "kReverse" /\ current # 0
        /\ seekOthers("kForward") /\ pc' = "turnForward"
        /\ UNCHANGED <<valid, savedKey, savedValue, skipping, found>>

\* The rest of Next after a change of direction.
TurnForward ==
  /\ pc = "turnForward" /\ continues
  /\ nextTurning
  /\ leaveKey
  /\ UNCHANGED direction

\* The loop of FindNextUserEntry: an entry that is hidden is left ...
hidden(e) == skipping /\ e.key <= savedKey

SkipEntry ==
  /\ pc = "findNext" /\ continues
  /\ LET e == iterEntry
         deletion == e.seq <= sequence /\ e.del
     IN  /\ e.seq > sequence \/ e.del \/ hidden(e)
         /\ mergeNext
         /\ skipping' = (skipping \/ deletion)
         /\ \/ /\ current' # 0
               /\ savedKey' = IF deletion THEN e.key ELSE savedKey
               /\ UNCHANGED <<valid, pc>>
            \/ current' = 0 /\ invalid /\ savedKey' = 0
  /\ UNCHANGED <<direction, savedValue, found>>

\* ... and the first that is not is shown.
YieldEntry ==
  /\ pc = "findNext" /\ continues
  /\ iterEntry.seq <= sequence /\ ~iterEntry.del /\ ~hidden(iterEntry)
  /\ valid' = TRUE /\ savedKey' = 0 /\ pc' = "return"
  /\ UNCHANGED <<mergeVars, direction, savedValue, skipping, found>>

\* Prev, which first leaves the current key if it went forward before.
Prev ==
  /\ valid /\ called([op |-> "Prev"])
  /\ \/ /\ direction = "kForward"
        /\ savedKey' = iterEntry.key
        /\ seekOthers("kReverse") /\ pc' = "turnBack"
        /\ UNCHANGED <<direction, valid, savedValue, skipping, found>>
     \/ /\ direction = "kReverse"
        /\ UNCHANGED mergeVars
        /\ findPrevFrom(savedValue)

\* The loop that scans backward until the key changes.
scanBack ==
  \/ /\ current' = 0
     /\ invalid /\ savedKey' = 0 /\ savedValue' = 0
     /\ UNCHANGED <<direction, skipping, found>>
  \/ /\ current' # 0
     /\ IF iterEntry'.key < savedKey THEN findPrevFrom(savedValue)
        ELSE /\ pc' = "back"
             /\ UNCHANGED <<direction, valid, savedKey, savedValue, skipping, found>>

TurnBack == pc = "turnBack" /\ continues /\ prevTurning /\ scanBack

Back == pc = "back" /\ continues /\ mergePrev /\ scanBack

\* The loop of FindPrevUserEntry: the newest entry seen of a key is saved,
\* and forgotten if it is a deletion.
PassEntry ==
  /\ pc = "findPrev" /\ continues
  /\ LET e == iterEntry
         visible == e.seq <= sequence
     IN  /\ ~(visible /\ found /\ e.key < savedKey)
         /\ mergePrev
         /\ found' = IF visible THEN ~e.del ELSE found
         /\ LET key == IF ~visible THEN savedKey ELSE IF e.del THEN 0 ELSE e.key
                value == IF ~visible THEN savedValue ELSE IF e.del THEN 0 ELSE e.seq
            IN  \/ /\ current' # 0
                   /\ savedKey' = key /\ savedValue' = value
                   /\ UNCHANGED <<direction, valid, pc>>
                \/ /\ current' = 0 /\ found'
                   /\ savedKey' = key /\ savedValue' = value
                   /\ valid' = TRUE /\ pc' = "return" /\ UNCHANGED direction
                \/ /\ current' = 0 /\ ~found'
                   /\ savedKey' = 0 /\ savedValue' = 0
                   /\ invalid /\ direction' = "kForward"
  /\ UNCHANGED skipping

\* A visible entry of an earlier key ends it.
YieldSaved ==
  /\ pc = "findPrev" /\ continues
  /\ iterEntry.seq <= sequence /\ found /\ iterEntry.key < savedKey
  /\ valid' = TRUE /\ pc' = "return"
  /\ UNCHANGED <<mergeVars, direction, savedKey, savedValue, skipping, found>>

Return ==
  /\ pc = "return" /\ pc' = "idle"
  /\ asked' = {} /\ last' = {}
  /\ UNCHANGED <<dbVars, mergeVars, direction, valid, savedKey, savedValue, skipping, found>>

\* Another thread writes to the memtable (MemTable::Add), at any time.
Write == \E w \in Written :
  /\ lastSequence < MaxSequence
  /\ lastSequence' = lastSequence + 1
  /\ mem' = mem \cup {[key |-> w.key, seq |-> lastSequence', del |-> w.del]}
  /\ UNCHANGED <<tables, sequence, mergeVars, direction, valid, savedKey, savedValue,
                 pc, skipping, found, asked, last>>

Running == \/ TurnForward \/ SkipEntry \/ YieldEntry
           \/ TurnBack \/ Back \/ PassEntry \/ YieldSaved \/ Return

IteratorNext == \/ Seek \/ SeekToFirst \/ SeekToLast \/ Next \/ Prev
                \/ Running \/ Write

\* The thread of the iterator goes on with a call it has begun.
IteratorSpec == IteratorInit /\ [][IteratorNext]_iteratorVars /\ WF_iteratorVars(Running)

-----------------------------------------------------------------------------
(***************************************************************************)
(* Properties                                                              *)
(***************************************************************************)

\* What the database held when the iterator was made.
view ==
  {[key |-> e.key, seq |-> e.seq] :
     e \in {x \in UNION {Newest(entriesIn(mem, tables), k, sequence) : k \in Keys} : ~x.del}}

CursorView == INSTANCE Cursor WITH
  entries <- view,
  at <- IF asked = {} THEN shown ELSE last

\* Whatever the calls, and whatever is written meanwhile, the iterator shows
\* the next, the previous, the first or the last key of the snapshot with its
\* newest value: nothing is skipped, shown twice or shown though deleted.
ImplementsCursor == CursorView!CursorSpec

\* Every call returns: no loop of DBIter stays where it is.
CallsReturn == asked # {} ~> asked = {}

=============================================================================
