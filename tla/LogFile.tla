------------------------------ MODULE LogFile ------------------------------
(***************************************************************************)
(* A log file of LevelDB, byte by byte: log_writer.cc fragments records    *)
(* into blocks, log_reader.cc puts them together again after a crash.      *)
(* LevelDB.tla sees only the result: whole records, up to some point.      *)
(*                                                                         *)
(* A byte of the file is <<f, i>>: the i-th byte of the fragment f, whose  *)
(* first HeaderSize bytes are its header.  The checksum is taken to notice *)
(* any fragment that is not whole.  The reader starts at the beginning, as *)
(* every caller has it do, so resyncing is left out.                       *)
(***************************************************************************)
EXTENDS Integers, Sequences, Functions

CONSTANTS
  BlockSize,    \* kBlockSize
  HeaderSize,   \* kHeaderSize
  Sizes,        \* the sizes of the records that are written
  MaxRecords,   \* bound: the records
  MaxCrashes,   \* bound: the crashes
  MaxFailures   \* bound: the writes to the file that fail

ASSUME LogAssumption ==
  /\ HeaderSize \in Nat \ {0} /\ BlockSize \in Nat /\ BlockSize > HeaderSize
  /\ Sizes \subseteq Nat \ {0}

VARIABLES
  file,          \* the bytes the operating system has
  buf,           \* the bytes in the FILE's buffer
  onDisk,        \* how many bytes of the file have been synced
  block_offset,  \* Writer::block_offset_
  adding,        \* AddRecord's record, or Nothing
  records,       \* how many records have been started
  kept,          \* of them, those a reader is owed after a process stop
  synced,        \* of them, those a reader is owed after a machine stop
  astray,        \* block_offset_ no longer agrees with the file
  torn,          \* the blocks that were appended to after a torn fragment
  down,          \* between a crash and the next opening
  crashes, failures

vars == <<file, buf, onDisk, block_offset, adding, records, kept, synced,
          astray, torn, down, crashes, failures>>

(***************************************************************************)
(* Fragments                                                               *)
(***************************************************************************)

Smaller(a, b) == IF a <= b THEN a ELSE b

\* RecordType; size, the size of the whole record, is there for properties.
fragment(rec, size, from, len, type) ==
  [rec |-> rec, size |-> size, from |-> from, len |-> len, type |-> type]

zero == <<fragment(0, 0, 0, 0, "zero"), 1>>
bytes(f) == [i \in 1 .. HeaderSize + f.len |-> <<f, i>>]

recordType(begin, end) == CASE begin /\ end   -> "full"
                            [] begin /\ ~end  -> "first"
                            [] ~begin /\ end  -> "last"
                            [] ~begin /\ ~end -> "middle"

(***************************************************************************)
(* The reader                                                              *)
(***************************************************************************)

\* Where the block that position p is in ends.
blockEnd(p) == p - (p % BlockSize) + BlockSize

\* A whole fragment begins at position p of b, before position end.
wholeAt(b, p, end) ==
  LET f == b[p + 1][1]
  IN  /\ p + HeaderSize <= end
      /\ f.type # "zero" /\ p + HeaderSize + f.len <= end
      /\ \A i \in 1 .. HeaderSize + f.len : b[p + i] = <<f, i>>

\* What has been read: up to the position pos the records out, and of a
\* fragmented record scratch.
nothingRead == [pos |-> 0, scratch |-> <<>>, out |-> <<>>]

\* ReadRecord's switch.
readFragment(s, f) ==
  CASE f.type = "full"   -> [s EXCEPT !.out = Append(@, <<f>>), !.scratch = <<>>]
    [] f.type = "first"  -> [s EXCEPT !.scratch = <<f>>]
    [] f.type = "middle" -> IF s.scratch = <<>> THEN s
                            ELSE [s EXCEPT !.scratch = Append(@, f)]
    [] f.type = "last"   -> IF s.scratch = <<>> THEN s
                            ELSE [s EXCEPT !.out = Append(@, Append(s.scratch, f)),
                                           !.scratch = <<>>]

\* Fault injection: a dropped block does not end a fragmented record.
afterBadKeeping(s) == s

\* A dropped block ends the fragmented record that was being read.
afterBad(s) == [s EXCEPT !.scratch = <<>>]

\* One round of ReadRecord's loop, with its ReadPhysicalRecord: a fragment, or
\* the rest of a block that is a trailer or is dropped.  The file ends the loop
\* when what is left of it holds neither.
readNext(b, s) ==
  LET end == Smaller(blockEnd(s.pos), Len(b))
      f   == b[s.pos + 1][1]
  IN  IF wholeAt(b, s.pos, end)
      THEN [readFragment(s, f) EXCEPT !.pos = s.pos + HeaderSize + f.len]
      ELSE IF end = Len(b) THEN s
      ELSE IF end - s.pos < HeaderSize THEN [s EXCEPT !.pos = end]
      ELSE [afterBad(s) EXCEPT !.pos = end]

\* Every round but the last ones gets on, so there are as many as bytes at most.
reading(b) ==
  LET after[n \in 0 .. Len(b)] ==
        IF n = 0 THEN nothingRead ELSE readNext(b, after[n - 1])
  IN  after[Len(b)]

recordsIn(b) == reading(b).out

\* The last block is not full, and ends in something that is neither a whole
\* fragment nor a trailer.
endsTorn(b) == LET p == reading(b).pos
               IN  /\ p < Len(b) /\ Len(b) % BlockSize # 0
                   /\ blockEnd(p) - p >= HeaderSize

(***************************************************************************)
(* The writer                                                              *)
(***************************************************************************)

Nothing == [rec |-> 0, size |-> 0, sent |-> 0, begin |-> TRUE,
            flushing |-> FALSE, block |-> 0]

Init ==
  /\ file = <<>> /\ buf = <<>> /\ onDisk = 0
  /\ block_offset = 0 /\ adding = Nothing /\ records = 0
  /\ kept = {} /\ synced = {} /\ astray = FALSE /\ torn = {}
  /\ down = FALSE /\ crashes = 0 /\ failures = 0

AddRecord(size) ==
  /\ ~down /\ adding = Nothing /\ records < MaxRecords
  /\ records' = records + 1
  /\ adding' = [Nothing EXCEPT !.rec = records + 1, !.size = size]
  /\ UNCHANGED <<file, buf, onDisk, block_offset, kept, synced, astray, torn,
                 down, crashes, failures>>

\* One round of AddRecord's loop, up to the calls of Append: when a header
\* does not fit, the rest of the block is filled up first.
AppendFragment ==
  /\ adding # Nothing /\ ~adding.flushing
  /\ LET leftover == BlockSize - block_offset
         trailer  == IF leftover < HeaderSize THEN leftover ELSE 0
         start    == IF leftover < HeaderSize THEN 0 ELSE block_offset
         left     == adding.size - adding.sent
         len      == Smaller(left, BlockSize - start - HeaderSize)
         f        == fragment(adding.rec, adding.size, adding.sent, len,
                              recordType(adding.begin, len = left))
         at       == Len(file) + Len(buf) + trailer
     IN  /\ buf' = buf \o [i \in 1 .. trailer |-> zero] \o bytes(f)
         /\ block_offset' = start + HeaderSize + len
         /\ adding' = [adding EXCEPT
                         !.sent = @ + len, !.begin = FALSE, !.flushing = TRUE,
                         !.block = IF adding.begin THEN at \div BlockSize ELSE @]
  /\ UNCHANGED <<file, onDisk, records, kept, synced, astray, torn, down,
                 crashes, failures>>

\* The writes of a record that a reader is owed: those that lie where the
\* reader looks for them.
owed == IF astray \/ adding.block \in torn THEN {} ELSE {adding.rec}

flushed == file \o buf

\* Flush, after every fragment; after the last one AddRecord returns.
Flush ==
  /\ adding.flushing
  /\ file' = flushed /\ buf' = <<>>
  /\ IF adding.sent = adding.size
     THEN adding' = Nothing /\ kept' = kept \cup owed
     ELSE adding' = [adding EXCEPT !.flushing = FALSE] /\ UNCHANGED kept
  /\ UNCHANGED <<onDisk, block_offset, records, synced, astray, torn, down,
                 crashes, failures>>

\* Append or Flush fails, at any byte: AddRecord gives the record up, but
\* block_offset_ counts all of the fragment.  What was not written stays in
\* the FILE's buffer or is dropped, as the C library has it.
FailFlush ==
  /\ adding.flushing /\ failures < MaxFailures
  /\ \E n \in 0 .. Len(buf) : \E m \in n .. Len(buf) :
       /\ file' = file \o SubSeq(buf, 1, n)
       /\ buf' = SubSeq(buf, n + 1, m)
       /\ astray' = (astray \/ m < Len(buf))
  /\ adding' = Nothing /\ failures' = failures + 1
  /\ UNCHANGED <<onDisk, block_offset, records, kept, synced, torn, down, crashes>>

Sync ==
  /\ ~down /\ adding = Nothing /\ onDisk < Len(flushed)
  /\ file' = flushed /\ buf' = <<>> /\ onDisk' = Len(flushed)
  /\ synced' = kept
  /\ UNCHANGED <<block_offset, adding, records, kept, astray, torn, down,
                 crashes, failures>>

\* The process stops: any part of the buffer may have been written.  When the
\* machine stops too, what was not synced may be missing from some byte on.
Crash ==
  /\ ~down /\ crashes < MaxCrashes
  /\ \E n \in 0 .. Len(buf) :
       LET written == file \o SubSeq(buf, 1, n)
       IN  \/ file' = written /\ UNCHANGED kept
           \/ \E cut \in onDisk .. Len(written) :
                file' = SubSeq(written, 1, cut) /\ kept' = synced
  /\ down' = TRUE /\ crashes' = crashes + 1
  /\ buf' = <<>> /\ adding' = Nothing
  /\ UNCHANGED <<onDisk, block_offset, records, synced, astray, torn, failures>>

\* Fault injection: the writer of a reused log starts a block.
blockOffsetZero(length) == 0

blockOffsetAt(length) == length % BlockSize

\* The next DB::Open reads the log and, with Options::reuse_logs, goes on
\* writing where it ends.
Reuse ==
  /\ down /\ down' = FALSE
  /\ kept' = kept \cup {r[1].rec : r \in Range(recordsIn(file))}
  /\ block_offset' = blockOffsetAt(Len(file))
  /\ torn' = IF endsTorn(file) THEN torn \cup {Len(file) \div BlockSize}
             ELSE torn
  /\ astray' = FALSE
  /\ UNCHANGED <<file, buf, onDisk, adding, records, synced, crashes, failures>>

Next == \/ \E size \in Sizes : AddRecord(size)
        \/ AppendFragment \/ Flush \/ FailFlush \/ Sync \/ Crash \/ Reuse

Spec == Init /\ [][Next]_vars

(***************************************************************************)
(* Properties                                                              *)
(***************************************************************************)

\* Whatever was lost, torn or written in the wrong place: the reader returns
\* records that were added, each whole and with nothing of another, and in the
\* order they were added.  Of a log that was not reused and whose writes did not
\* fail they are the first ones, without a gap: what LevelDB counts on.
OnlyWholeRecordsAreRead ==
  LET out == recordsIn(file)
  IN  /\ \A i \in DOMAIN out :
           /\ out[i][1].from = 0
           /\ \A j \in DOMAIN out[i] :
                LET f == out[i][j]
                IN  /\ f.rec = out[i][1].rec
                    /\ f.from + f.len = IF j = Len(out[i]) THEN f.size
                                        ELSE out[i][j + 1].from
      /\ \A i, j \in DOMAIN out : i < j => out[i][1].rec < out[j][1].rec
      /\ (failures = 0 /\ crashes = IF down THEN 1 ELSE 0)
         => \A i \in DOMAIN out : out[i][1].rec = i

\* A record AddRecord returned OK for is read after the process stops, and
\* after the machine stops if a sync followed (options.h, WriteOptions::sync);
\* but a record written after a failed write dropped bytes, or into a block
\* that a reused log left torn, may be lost although it was synced.
AddedRecordsAreRead ==
  kept \subseteq {r[1].rec : r \in Range(recordsIn(file))}

=============================================================================
