--------------------------- MODULE LogFileProofs ---------------------------
(***************************************************************************)
(* What the reader of a LevelDB log returns, for every size of blocks,     *)
(* headers and records, and any number of records, crashes and failed      *)
(* writes.                                                                 *)
(*                                                                         *)
(* The reader goes round until nothing is left, so what holds of what it   *)
(* has read is proved by induction over its rounds (ReadInduction).  Two   *)
(* facts carry the rest: bytes that follow do not change what was read     *)
(* (RecordsStay), and a fragment appended where the reader stopped is read *)
(* as one more round (ReadsAppended).                                      *)
(*                                                                         *)
(* IInv says that a record begins after the bytes of older ones only, and  *)
(* that a fragment which continues one has the part before it whole, but   *)
(* for a trailer, in front of it; that the writer is where the reader      *)
(* stops, unless a write failed or the block is torn; and that the records *)
(* owed are read from what the file already has, and those owed after a    *)
(* machine stop from what is synced, so that a crash takes none of them.   *)
(***************************************************************************)
EXTENDS LogFile, FunctionTheorems, SequenceTheorems, WellFoundedInduction, TLAPS

Types == {"full", "first", "middle", "last"}
Fragment == [rec : Nat \ {0}, size : Nat, from : Nat, len : Nat, type : Types]
Byte == (Fragment \cup {zero[1]}) \X Nat
Bytes == Seq(Byte)

-----------------------------------------------------------------------------
(* Induction and recursion *)

\* A set of numbers has a least one.
LEMMA LeastOf ==
  ASSUME NEW U \in SUBSET Nat, U # {}
  PROVE  \E n \in U : \A m \in U : n <= m
<1> DEFINE R == OpToRel(<, Nat)
<1>1. \A x, y \in Nat : x < y => <<x, y>> \in R
  BY DEF OpToRel
<1>2. IsWellFoundedOn(R, Nat)
  BY NatLessThanWellFounded
<1> HIDE DEF R
<1>3. \E n \in U : \A m \in U : ~ (<<m, n>> \in R)
  BY <1>2, WFMin
<1>4. \A x, y \in U : <<y, x>> \notin R => x <= y
  BY <1>1
<1> QED
  BY <1>3, <1>4

\* Induction over the numbers, for a set.
LEMMA Induction ==
  ASSUME NEW T, 0 \in T, \A n \in Nat : n \in T => n + 1 \in T
  PROVE  Nat \subseteq T
<1> DEFINE U == Nat \ T
<1> SUFFICES ASSUME U # {}
             PROVE  FALSE
  OBVIOUS
<1>1. PICK n \in U : \A m \in U : n <= m
  BY LeastOf
<1>2. n - 1 \in Nat /\ n - 1 \notin U
  BY <1>1
<1> QED
  BY <1>2

\* r repeats a step n times.
Repeats(r, step, s, n, S) ==
  r \in [0 .. n -> S] /\ r[0] = s /\ \A i \in 1 .. n : r[i] = step[r[i - 1]]

\* A step may be repeated n times, and each time be seen.
LEMMA Repetition ==
  ASSUME NEW S, NEW s \in S, NEW step \in [S -> S], NEW n \in Nat
  PROVE  \E r : Repeats(r, step, s, n, S)
<1> DEFINE runs(k) == \E r \in [0 .. k -> S] :
             r[0] = s /\ \A i \in 1 .. k : r[i] = step[r[i - 1]]
           T == {k \in Nat : runs(k)}
<1>1. 0 \in T
  <2>1. [i \in 0 .. 0 |-> s] \in [0 .. 0 -> S] /\ [i \in 0 .. 0 |-> s][0] = s
        /\ \A i \in 1 .. 0 : FALSE
    OBVIOUS
  <2> QED
    BY <2>1
<1>2. ASSUME NEW k \in Nat, k \in T
      PROVE  k + 1 \in T
  <2>1. PICK r \in [0 .. k -> S] :
          r[0] = s /\ \A i \in 1 .. k : r[i] = step[r[i - 1]]
    BY <1>2
  <2> DEFINE q == [i \in 0 .. k + 1 |-> IF i = k + 1 THEN step[r[k]] ELSE r[i]]
  <2>2. /\ q \in [0 .. k + 1 -> S]
        /\ q[k + 1] = step[r[k]] /\ \A i \in 0 .. k : q[i] = r[i]
    OBVIOUS
  <2> HIDE DEF q
  <2>3. \A i \in 1 .. k : q[i] = step[q[i - 1]]
    <3>1. \A i \in 1 .. k : i \in 0 .. k /\ i - 1 \in 0 .. k
      OBVIOUS
    <3> QED
      BY <2>1, <2>2, <3>1
  <2>4. q[k + 1] = step[q[(k + 1) - 1]]
    <3>1. (k + 1) - 1 = k /\ k \in 0 .. k
      OBVIOUS
    <3> QED
      BY <2>2, <3>1
  <2>5. \A i \in 1 .. k + 1 : i = k + 1 \/ i \in 1 .. k
    OBVIOUS
  <2>6. q[0] = s
    BY <2>1, <2>2
  <2>7. runs(k + 1)
    BY <2>2, <2>3, <2>4, <2>5, <2>6
  <2> QED
    BY <2>7
<1>3. Nat \subseteq T
  <2> HIDE DEF T
  <2> QED
    BY <1>1, <1>2, Induction
<1> QED
  BY <1>3 DEF Repeats

-----------------------------------------------------------------------------
(* Blocks *)

\* LogAssumption, as the other lemmas need it.
LEMMA Sizes1 ==
  /\ BlockSize \in Nat \ {0} /\ HeaderSize \in Nat \ {0} /\ HeaderSize < BlockSize
BY LogAssumption

\* Division by the size of a block.
LEMMA Division ==
  ASSUME NEW p \in Nat
  PROVE  /\ p % BlockSize \in 0 .. BlockSize - 1
         /\ p \div BlockSize \in Nat
         /\ p = BlockSize * (p \div BlockSize) + (p % BlockSize)
BY LogAssumption

\* Quotient and remainder are the only ones.
LEMMA Divided ==
  ASSUME NEW q \in Int, NEW r \in 0 .. BlockSize - 1
  PROVE  /\ (BlockSize * q + r) % BlockSize = r
         /\ (BlockSize * q + r) \div BlockSize = q
BY LogAssumption

\* Where a fragment ends, in the two ways it is computed.
LEMMA Sums == \A a, b, c \in Nat : a + b + c \in Nat /\ a + b + c = a + (b + c)
OBVIOUS

\* The positions of a fragment of h + l bytes at p that ends by e.
LEMMA Within ==
  ASSUME NEW p \in Nat, NEW h \in Nat, NEW l \in Nat, NEW e \in Nat, p + h + l <= e
  PROVE  \A i \in 1 .. h + l : p + i \in 1 .. e
OBVIOUS

\* The beginning of the block after block q.
LEMMA OneMore == \A q \in Int : BlockSize * (q + 1) = BlockSize * q + BlockSize
BY LogAssumption

\* The positions of a block.
LEMMA InBlock ==
  ASSUME NEW p \in Nat
  PROVE  /\ blockEnd(p) \in Nat /\ p < blockEnd(p) /\ blockEnd(p) <= p + BlockSize
         /\ blockEnd(p) % BlockSize = 0
         /\ p % BlockSize = 0 => blockEnd(p) = p + BlockSize
         /\ \A q \in Nat : p <= q /\ q < blockEnd(p) =>
              blockEnd(q) = blockEnd(p) /\ q \div BlockSize = p \div BlockSize
<1>1. /\ p % BlockSize \in 0 .. BlockSize - 1 /\ p \div BlockSize \in Nat
      /\ p = BlockSize * (p \div BlockSize) + (p % BlockSize)
      /\ BlockSize \in Nat
  BY Division, Sizes1
<1>2. PICK d, r \in Nat : d = p \div BlockSize /\ r = p % BlockSize
  BY <1>1
<1>3. PICK m \in Int : m = BlockSize * d
  BY <1>1
<1>4. /\ r \in 0 .. BlockSize - 1 /\ p = m + r /\ blockEnd(p) = m + BlockSize
  BY <1>1, <1>2, <1>3 DEF blockEnd
<1>5. blockEnd(p) % BlockSize = 0
  <2>1. blockEnd(p) = BlockSize * (d + 1) + 0
    BY <1>1, <1>3, <1>4, OneMore
  <2> QED
    BY <1>1, <2>1, Divided
<1>6. ASSUME NEW q \in Nat, p <= q, q < blockEnd(p)
      PROVE  blockEnd(q) = blockEnd(p) /\ q \div BlockSize = p \div BlockSize
  <2>1. q - m \in 0 .. BlockSize - 1 /\ q = BlockSize * d + (q - m)
    BY <1>1, <1>3, <1>4, <1>6
  <2>2. q % BlockSize = q - m /\ q \div BlockSize = d
    BY <2>1, Divided
  <2> QED
    BY <1>1, <1>2, <1>3, <1>4, <2>2 DEF blockEnd
<1> QED
  BY <1>1, <1>2, <1>4, <1>5, <1>6

\* A position where a block begins is not in the middle of another.
LEMMA BlockBegins ==
  ASSUME NEW p \in Nat, NEW q \in Nat, p < q, q % BlockSize = 0
  PROVE  blockEnd(p) <= q
<1> SUFFICES ASSUME q < blockEnd(p) PROVE FALSE
  BY InBlock
<1>1. blockEnd(q) = blockEnd(p) /\ blockEnd(q) = q + BlockSize
  BY InBlock
<1>2. blockEnd(p) \in Nat /\ blockEnd(p) <= p + BlockSize /\ BlockSize \in Nat
  BY InBlock, Sizes1
<1> QED
  BY <1>1, <1>2

-----------------------------------------------------------------------------
(* The reader, round by round *)

State == [pos : Nat, scratch : Seq(Fragment), out : Seq(Seq(Fragment))]

\* What a byte of a log is.
LEMMA ByteType ==
  ASSUME NEW b \in Bytes, NEW k \in 1 .. Len(b)
  PROVE  /\ Len(b) \in Nat
         /\ b[k] \in Byte /\ b[k] = <<b[k][1], b[k][2]>> /\ b[k][2] \in Nat
         /\ b[k][1].type # "zero" => b[k][1] \in Fragment
         /\ b[k][1].type = "zero" => b[k][1] = zero[1]
<1>1. b[k] \in Byte /\ Len(b) \in Nat
  BY DEF Bytes
<1>2. zero[1].type = "zero"
  BY DEF zero, fragment
<1>3. \A f \in Fragment : f.type # "zero"
  BY DEF Fragment, Types
<1> QED
  BY <1>1, <1>2, <1>3 DEF Byte

\* What a fragment is.
LEMMA FragmentType ==
  ASSUME NEW f \in Fragment
  PROVE  /\ f.rec \in Nat \ {0} /\ f.size \in Nat /\ f.from \in Nat /\ f.len \in Nat
         /\ f.type \in {"full", "first", "middle", "last"} /\ f.type # "zero"
BY DEF Fragment, Types

\* How far a fragment at p can reach.
LEMMA EndType ==
  ASSUME NEW b \in Bytes, NEW p \in Nat
  PROVE  /\ Smaller(blockEnd(p), Len(b)) \in Nat
         /\ Smaller(blockEnd(p), Len(b)) <= Len(b)
         /\ Smaller(blockEnd(p), Len(b)) <= blockEnd(p)
         /\ Smaller(blockEnd(p), Len(b)) \in {Len(b), blockEnd(p)}
         /\ blockEnd(p) <= Len(b) => Smaller(blockEnd(p), Len(b)) = blockEnd(p)
         /\ Len(b) <= blockEnd(p) => Smaller(blockEnd(p), Len(b)) = Len(b)
BY InBlock DEF Smaller, Bytes

\* What stands at the position the reader is at, if it is whole.
LEMMA WholeType ==
  ASSUME NEW b \in Bytes, NEW p \in Nat, NEW end \in Nat, end <= Len(b),
         wholeAt(b, p, end)
  PROVE  /\ b[p + 1][1] \in Fragment /\ p + 1 \in 1 .. Len(b)
         /\ p + HeaderSize + b[p + 1][1].len \in Nat
         /\ p < p + HeaderSize + b[p + 1][1].len
         /\ p + HeaderSize + b[p + 1][1].len <= end
         /\ \A i \in 1 .. HeaderSize + b[p + 1][1].len : b[p + i] = <<b[p + 1][1], i>>
<1>1. p + HeaderSize <= end /\ Len(b) \in Nat
  BY DEF wholeAt, Bytes
<1>2. p + 1 \in 1 .. Len(b)
  BY <1>1, Sizes1
<1>3. b[p + 1][1] \in Fragment
  BY <1>2, ByteType DEF wholeAt
<1> QED
  BY <1>2, <1>3, FragmentType, Sizes1 DEF wholeAt

\* ReadRecord's switch leaves the position alone.
LEMMA ReadFragmentType ==
  ASSUME NEW s \in State, NEW f \in Fragment
  PROVE  readFragment(s, f) \in State /\ readFragment(s, f).pos = s.pos
<1>1. /\ s.pos \in Nat /\ s.scratch \in Seq(Fragment) /\ s.out \in Seq(Seq(Fragment))
  BY DEF State
<1>2. <<f>> \in Seq(Fragment) /\ Append(s.scratch, f) \in Seq(Fragment)
      /\ <<>> \in Seq(Fragment)
  BY <1>1
<1>3. /\ Append(s.out, <<f>>) \in Seq(Seq(Fragment))
      /\ Append(s.out, Append(s.scratch, f)) \in Seq(Seq(Fragment))
  BY <1>1, <1>2
<1>4. f.type \in {"full", "first", "middle", "last"}
  BY FragmentType
<1>5. CASE f.type = "full"
  BY <1>1, <1>2, <1>3, <1>5 DEF readFragment, State
<1>6. CASE f.type = "first"
  BY <1>1, <1>2, <1>3, <1>6 DEF readFragment, State
<1>7. CASE f.type = "middle"
  BY <1>1, <1>2, <1>3, <1>7 DEF readFragment, State
<1>8. CASE f.type = "last"
  BY <1>1, <1>2, <1>3, <1>8 DEF readFragment, State
<1> QED
  BY <1>4, <1>5, <1>6, <1>7, <1>8

\* The four outcomes of a round.
LEMMA Round ==
  ASSUME NEW b \in Bytes, NEW s \in State, NEW end,
         end = Smaller(blockEnd(s.pos), Len(b))
  PROVE  /\ wholeAt(b, s.pos, end) =>
              readNext(b, s) = [readFragment(s, b[s.pos + 1][1]) EXCEPT
                                  !.pos = s.pos + HeaderSize + b[s.pos + 1][1].len]
         /\ ~wholeAt(b, s.pos, end) /\ end = Len(b) => readNext(b, s) = s
         /\ ~wholeAt(b, s.pos, end) /\ end # Len(b) /\ end - s.pos < HeaderSize =>
              readNext(b, s) = [pos |-> end, scratch |-> s.scratch, out |-> s.out]
         /\ ~wholeAt(b, s.pos, end) /\ end # Len(b) /\ ~(end - s.pos < HeaderSize) =>
              readNext(b, s) = [pos |-> end, scratch |-> <<>>, out |-> s.out]
<1>1. [afterBad(s) EXCEPT !.pos = end] = [pos |-> end, scratch |-> <<>>, out |-> s.out]
  <2>1. s = [pos |-> s.pos, scratch |-> s.scratch, out |-> s.out]
    BY DEF State
  <2>2. afterBad(s) = [pos |-> s.pos, scratch |-> <<>>, out |-> s.out]
    BY <2>1 DEF afterBad
  <2> QED
    BY <2>2
<1>2. [s EXCEPT !.pos = end] = [pos |-> end, scratch |-> s.scratch, out |-> s.out]
  BY DEF State
<1> QED
  BY <1>1, <1>2 DEF readNext

\* A round keeps the type of what was read.
LEMMA ReadNextType ==
  ASSUME NEW b \in Bytes, NEW s \in State
  PROVE  readNext(b, s) \in State
<1> DEFINE end == Smaller(blockEnd(s.pos), Len(b))
           f == b[s.pos + 1][1]
<1>1. s.pos \in Nat /\ s.scratch \in Seq(Fragment) /\ s.out \in Seq(Seq(Fragment))
  BY DEF State
<1>2. end \in Nat /\ end <= Len(b)
  BY <1>1, EndType
<1>3. CASE wholeAt(b, s.pos, end)
  <2>1. f \in Fragment /\ s.pos + HeaderSize + f.len \in Nat
    BY <1>1, <1>2, <1>3, WholeType
  <2>2. readFragment(s, f) \in State
    BY <2>1, ReadFragmentType
  <2> HIDE DEF f, end
  <2>3. [readFragment(s, f) EXCEPT !.pos = s.pos + HeaderSize + f.len] \in State
    BY <2>1, <2>2 DEF State
  <2> QED
    BY <1>3, <2>3, Round DEF f, end
<1>4. /\ [pos |-> end, scratch |-> s.scratch, out |-> s.out] \in State
      /\ [pos |-> end, scratch |-> <<>>, out |-> s.out] \in State
  <2>1. <<>> \in Seq(Fragment)
    OBVIOUS
  <2> HIDE DEF end
  <2> QED
    BY <1>1, <1>2, <2>1 DEF State
<1> QED
  BY <1>3, <1>4, Round

\* `reading' is what repeated rounds lead to.
LEMMA ReadingUnfold ==
  ASSUME NEW b \in Bytes
  PROVE  \E r \in [0 .. Len(b) -> State] :
           /\ r[0] = nothingRead
           /\ \A n \in 1 .. Len(b) : r[n] = readNext(b, r[n - 1])
           /\ r[Len(b)] = reading(b)
<1> DEFINE step == [s \in State |-> readNext(b, s)]
           F(r) == [n \in 0 .. Len(b) |->
                      IF n = 0 THEN nothingRead ELSE readNext(b, r[n - 1])]
           after == CHOOSE r : r = F(r)
<1>1. Len(b) \in Nat
  BY DEF Bytes
<1>2. nothingRead \in State
  <2>1. <<>> \in Seq(Fragment) /\ <<>> \in Seq(Seq(Fragment))
    OBVIOUS
  <2> QED
    BY <2>1 DEF nothingRead, State
<1>3. step \in [State -> State]
  BY ReadNextType
<1>4. PICK r \in [0 .. Len(b) -> State] :
        r[0] = nothingRead /\ \A n \in 1 .. Len(b) : r[n] = step[r[n - 1]]
  <2> HIDE DEF step
  <2>1. \E r : Repeats(r, step, nothingRead, Len(b), State)
    BY <1>1, <1>2, <1>3, Repetition
  <2> QED
    BY <2>1 DEF Repeats
<1>5. \A n \in 1 .. Len(b) : r[n] = readNext(b, r[n - 1])
  <2>1. \A n \in 1 .. Len(b) : r[n - 1] \in State
    BY <1>1
  <2> QED
    BY <1>4, <2>1
<1>6. r = F(r)
  <2>1. \A n \in 0 .. Len(b) : n = 0 \/ n \in 1 .. Len(b)
    BY <1>1
  <2> QED
    BY <1>4, <1>5, <2>1
<1>7. after = F(after)
  <2> HIDE DEF F
  <2> QED
    BY <1>6
<1>8. /\ after[0] = nothingRead
      /\ \A n \in 1 .. Len(b) : after[n] = readNext(b, after[n - 1])
  <2> HIDE DEF after
  <2>1. \A n \in 1 .. Len(b) : n \in 0 .. Len(b) /\ n # 0
    BY <1>1
  <2>2. 0 \in 0 .. Len(b)
    BY <1>1
  <2>3. \A a : a = F(after) => /\ a[0] = nothingRead
                              /\ \A n \in 1 .. Len(b) : a[n] = readNext(b, after[n - 1])
    BY <2>1, <2>2
  <2> HIDE DEF F
  <2> QED
    BY <1>7, <2>3
<1>9. reading(b) = after[Len(b)]
  BY DEF reading
<1> HIDE DEF after
<1> DEFINE T == {n \in Nat : n <= Len(b) => after[n] = r[n]}
<1>10. Nat \subseteq T
  <2>1. 0 \in T
    BY <1>4, <1>8
  <2>2. ASSUME NEW n \in Nat, n \in T
        PROVE  n + 1 \in T
    <3> SUFFICES ASSUME n + 1 <= Len(b)
                 PROVE  after[n + 1] = r[n + 1]
      OBVIOUS
    <3>1. n + 1 \in 1 .. Len(b) /\ (n + 1) - 1 = n /\ after[n] = r[n]
      BY <1>1, <2>2
    <3> QED
      BY <1>5, <1>8, <3>1
  <2> HIDE DEF T
  <2> QED
    BY <2>1, <2>2, Induction
<1>11. after[Len(b)] = r[Len(b)]
  BY <1>1, <1>10
<1> QED
  BY <1>4, <1>5, <1>9, <1>11

\* The states of the reader of b.
rounds(b) ==
  CHOOSE r \in [0 .. Len(b) -> State] :
    /\ r[0] = nothingRead
    /\ \A n \in 1 .. Len(b) : r[n] = readNext(b, r[n - 1])
    /\ r[Len(b)] = reading(b)

Reads(b, s) == \E n \in 0 .. Len(b) : rounds(b)[n] = s

\* The rounds of the reader, one by one.
LEMMA Rounds ==
  ASSUME NEW b \in Bytes
  PROVE  /\ rounds(b) \in [0 .. Len(b) -> State]
         /\ rounds(b)[0] = nothingRead
         /\ \A n \in 1 .. Len(b) : rounds(b)[n] = readNext(b, rounds(b)[n - 1])
         /\ rounds(b)[Len(b)] = reading(b)
         /\ Len(b) \in Nat /\ reading(b) \in State
         /\ \A s : Reads(b, s) => s \in State
<1>1. /\ rounds(b) \in [0 .. Len(b) -> State]
      /\ rounds(b)[0] = nothingRead
      /\ \A n \in 1 .. Len(b) : rounds(b)[n] = readNext(b, rounds(b)[n - 1])
      /\ rounds(b)[Len(b)] = reading(b)
  BY ReadingUnfold DEF rounds
<1>2. Len(b) \in Nat
  BY DEF Bytes
<1> QED
  BY <1>1, <1>2 DEF Reads

\* A round gets on, or nothing more is read.
LEMMA Advance ==
  ASSUME NEW b \in Bytes, NEW s \in State
  PROVE  /\ readNext(b, s) = s \/ s.pos < readNext(b, s).pos
         /\ s.pos <= Len(b) => readNext(b, s).pos <= Len(b)
         /\ Len(b) <= s.pos => readNext(b, s) = s
<1> DEFINE end == Smaller(blockEnd(s.pos), Len(b))
           f == b[s.pos + 1][1]
<1>1. s.pos \in Nat /\ Len(b) \in Nat /\ end \in Nat /\ end <= Len(b)
      /\ end \in {Len(b), blockEnd(s.pos)} /\ s.pos < blockEnd(s.pos)
      /\ (Len(b) <= blockEnd(s.pos) => end = Len(b))
      /\ blockEnd(s.pos) \in Nat
  <2>1. s.pos \in Nat /\ Len(b) \in Nat
    BY DEF State, Bytes
  <2>2. s.pos < blockEnd(s.pos) /\ blockEnd(s.pos) \in Nat
    BY <2>1, InBlock
  <2> QED
    BY <2>1, <2>2, EndType
<1>2. CASE wholeAt(b, s.pos, end)
  <2>1. /\ f \in Fragment /\ s.pos + HeaderSize + f.len \in Nat
        /\ s.pos < s.pos + HeaderSize + f.len /\ s.pos + HeaderSize + f.len <= end
    BY <1>1, <1>2, WholeType
  <2>2. readFragment(s, f) \in State
    BY <2>1, ReadFragmentType
  <2>3. readNext(b, s) = [readFragment(s, f) EXCEPT !.pos = s.pos + HeaderSize + f.len]
    BY <1>2, Round
  <2> HIDE DEF f, end
  <2>4. readNext(b, s).pos = s.pos + HeaderSize + f.len
    BY <2>2, <2>3 DEF State
  <2> QED
    BY <1>1, <2>1, <2>4
<1>3. CASE ~wholeAt(b, s.pos, end)
  <2>1. \/ readNext(b, s) = s
        \/ end # Len(b) /\ readNext(b, s) = [pos |-> end, scratch |-> s.scratch, out |-> s.out]
        \/ end # Len(b) /\ readNext(b, s) = [pos |-> end, scratch |-> <<>>, out |-> s.out]
    BY <1>3, Round
  <2> HIDE DEF end
  <2>2. /\ [pos |-> end, scratch |-> s.scratch, out |-> s.out].pos = end
        /\ [pos |-> end, scratch |-> <<>>, out |-> s.out].pos = end
    BY DEF State
  <2>3. readNext(b, s) = s \/ (s.pos < end /\ readNext(b, s).pos = end)
    BY <1>1, <2>1, <2>2
  <2>4. Len(b) <= s.pos => end = Len(b)
    BY <1>1
  <2>5. end = Len(b) => readNext(b, s) = s
    BY <2>1
  <2> QED
    BY <1>1, <2>3, <2>4, <2>5
<1> QED
  BY <1>2, <1>3

\* What holds of a state of the reader and is kept by its rounds holds of the
\* last one.
LEMMA ReadFrom ==
  ASSUME NEW b \in Bytes, NEW T, NEW s \in T, Reads(b, s),
         \A t \in T : t \in State => readNext(b, t) \in T
  PROVE  reading(b) \in T
<1>1. PICK m \in 0 .. Len(b) : rounds(b)[m] = s
  BY DEF Reads
<1> DEFINE U == {n \in Nat : m + n <= Len(b) => rounds(b)[m + n] \in T}
<1>2. 0 \in U
  BY <1>1
<1>3. ASSUME NEW n \in Nat, n \in U
      PROVE  n + 1 \in U
  <2> SUFFICES ASSUME m + (n + 1) <= Len(b)
               PROVE  rounds(b)[m + (n + 1)] \in T
    OBVIOUS
  <2>1. /\ m + (n + 1) \in 1 .. Len(b) /\ (m + (n + 1)) - 1 = m + n
        /\ m + n \in 0 .. Len(b) /\ rounds(b)[m + n] \in T
    BY <1>3, Rounds
  <2>2. rounds(b)[m + n] \in State
    BY <2>1, Rounds
  <2>3. rounds(b)[m + (n + 1)] = readNext(b, rounds(b)[m + n])
    BY <2>1, Rounds
  <2> QED
    BY <2>1, <2>2, <2>3
<1>4. Nat \subseteq U
  <2> HIDE DEF U
  <2> QED
    BY <1>2, <1>3, Induction
<1>5. Len(b) - m \in Nat /\ m + (Len(b) - m) = Len(b)
  BY Rounds
<1>6. rounds(b)[m + (Len(b) - m)] \in T
  BY <1>4, <1>5
<1> QED
  BY <1>5, <1>6, Rounds

\* What holds at the beginning and is kept by the rounds.
LEMMA ReadInduction ==
  ASSUME NEW b \in Bytes, NEW T, nothingRead \in T,
         \A t \in T : t \in State => readNext(b, t) \in T
  PROVE  reading(b) \in T
<1>1. Reads(b, nothingRead)
  BY Rounds DEF Reads
<1> QED
  BY <1>1, ReadFrom

\* The reader stops, at the end of the file or before.
LEMMA ReaderStops ==
  ASSUME NEW b \in Bytes
  PROVE  readNext(b, reading(b)) = reading(b) /\ reading(b).pos <= Len(b)
<1> DEFINE r == rounds(b)
           U == {n \in Nat : n <= Len(b) =>
                   r[n].pos <= Len(b) /\ (n <= r[n].pos \/ readNext(b, r[n]) = r[n])}
<1>1. 0 \in U
  BY Rounds DEF nothingRead
<1>2. ASSUME NEW n \in Nat, n \in U
      PROVE  n + 1 \in U
  <2> SUFFICES ASSUME n + 1 <= Len(b)
               PROVE  r[n + 1].pos <= Len(b)
                      /\ (n + 1 <= r[n + 1].pos \/ readNext(b, r[n + 1]) = r[n + 1])
    OBVIOUS
  <2>1. n + 1 \in 1 .. Len(b) /\ (n + 1) - 1 = n /\ n \in 0 .. Len(b)
        /\ r[n].pos <= Len(b) /\ (n <= r[n].pos \/ readNext(b, r[n]) = r[n])
    BY <1>2, Rounds
  <2>2. r[n] \in State /\ r[n + 1] \in State /\ r[n + 1] = readNext(b, r[n])
    BY <2>1, Rounds
  <2>3. r[n].pos \in Nat /\ r[n + 1].pos \in Nat
    BY <2>2 DEF State
  <2> HIDE DEF r
  <2>4. r[n + 1].pos <= Len(b) /\ (readNext(b, r[n]) = r[n] \/ r[n].pos < r[n + 1].pos)
    BY <2>1, <2>2, Advance
  <2> QED
    BY <2>1, <2>2, <2>3, <2>4
<1>3. Nat \subseteq U
  <2> HIDE DEF U
  <2> QED
    BY <1>1, <1>2, Induction
<1>4. Len(b) \in U /\ r[Len(b)] = reading(b)
  BY <1>3, Rounds
<1> HIDE DEF r
<1>5. /\ reading(b).pos <= Len(b)
      /\ Len(b) <= reading(b).pos \/ readNext(b, reading(b)) = reading(b)
  BY <1>4, Rounds
<1> QED
  BY <1>5, Rounds, Advance

\* The next state is one of the reader's as well.
LEMMA ReadsNext ==
  ASSUME NEW b \in Bytes, NEW s, Reads(b, s)
  PROVE  Reads(b, readNext(b, s))
<1>1. PICK n \in 0 .. Len(b) : rounds(b)[n] = s
  BY DEF Reads
<1>2. CASE n = Len(b)
  BY <1>1, <1>2, Rounds, ReaderStops
<1>3. CASE n # Len(b)
  <2>1. n + 1 \in 1 .. Len(b) /\ n + 1 \in 0 .. Len(b) /\ (n + 1) - 1 = n
    BY <1>3, Rounds
  <2> QED
    BY <1>1, <2>1, Rounds DEF Reads
<1> QED
  BY <1>2, <1>3

\* Where the reader gets no further, it ends.
LEMMA ReadsStop ==
  ASSUME NEW b \in Bytes, NEW s, Reads(b, s), readNext(b, s) = s
  PROVE  reading(b) = s
<1>1. reading(b) \in {s}
  BY ReadFrom
<1> QED
  BY <1>1

-----------------------------------------------------------------------------
(* Reading more of a file *)

\* The sequence t begins with s.
Starts(s, t) == Len(s) <= Len(t) /\ \A i \in 1 .. Len(s) : t[i] = s[i]

\* Beginning with is transitive,
LEMMA StartsTrans ==
  ASSUME NEW S, NEW a \in Seq(S), NEW b \in Seq(S), NEW c \in Seq(S),
         Starts(a, b), Starts(b, c)
  PROVE  Starts(a, c)
<1>1. Len(a) \in Nat /\ Len(b) \in Nat /\ Len(c) \in Nat
  OBVIOUS
<1> QED
  BY <1>1 DEF Starts

\* and a sequence begins with itself and with its prefixes.
LEMMA StartsParts ==
  ASSUME NEW S, NEW a \in Seq(S), NEW b \in Seq(S), NEW n \in 0 .. Len(a)
  PROVE  /\ Starts(a, a) /\ Starts(a, a \o b)
         /\ SubSeq(a, 1, n) \in Seq(S) /\ Len(SubSeq(a, 1, n)) = n
         /\ \A i \in 1 .. n : SubSeq(a, 1, n)[i] = a[i]
         /\ Starts(SubSeq(a, 1, n), a)
<1>1. Len(a) \in Nat /\ Len(b) \in Nat /\ n \in Nat /\ n <= Len(a)
  OBVIOUS
<1>2. Starts(a, a) /\ Starts(a, a \o b)
  BY <1>1 DEF Starts
<1>3. /\ SubSeq(a, 1, n) \in Seq(S) /\ Len(SubSeq(a, 1, n)) = n
      /\ \A i \in 1 .. n : SubSeq(a, 1, n)[i] = a[i]
  BY <1>1
<1> QED
  BY <1>1, <1>2, <1>3 DEF Starts

\* Whether a fragment is whole shows in its bytes.
LEMMA WholeSame ==
  ASSUME NEW b \in Bytes, NEW c \in Bytes, Starts(b, c),
         NEW p \in Nat, NEW e \in Nat, e <= Len(b), NEW d \in Nat, d <= e
  PROVE  /\ wholeAt(b, p, e) <=> wholeAt(c, p, e)
         /\ wholeAt(b, p, d) => wholeAt(b, p, e)
         /\ p + HeaderSize <= e => c[p + 1] = b[p + 1]
<1>1. Len(b) \in Nat /\ Len(c) \in Nat /\ Len(b) <= Len(c)
  BY DEF Bytes, Starts
<1>2. \A k \in 1 .. e : c[k] = b[k]
  BY <1>1 DEF Starts
<1>3. p + HeaderSize <= e => c[p + 1] = b[p + 1]
  BY <1>2, Sizes1
<1>4. wholeAt(b, p, e) => wholeAt(c, p, e)
  <2> SUFFICES ASSUME wholeAt(b, p, e) PROVE wholeAt(c, p, e)
    OBVIOUS
  <2>1. /\ b[p + 1][1] \in Fragment /\ p + HeaderSize + b[p + 1][1].len <= e
        /\ \A i \in 1 .. HeaderSize + b[p + 1][1].len : b[p + i] = <<b[p + 1][1], i>>
    BY WholeType
  <2>2. c[p + 1] = b[p + 1] /\ p + HeaderSize <= e
    BY <1>3 DEF wholeAt
  <2>3. \A i \in 1 .. HeaderSize + b[p + 1][1].len : c[p + i] = b[p + i]
    <3>1. b[p + 1][1].len \in Nat /\ HeaderSize \in Nat
      BY <2>1, FragmentType, Sizes1
    <3>2. \A i \in 1 .. HeaderSize + b[p + 1][1].len : p + i \in 1 .. e
      BY <2>1, <3>1, Within
    <3> QED
      BY <1>2, <3>2
  <2> QED
    BY <2>1, <2>2, <2>3 DEF wholeAt
<1>5. wholeAt(c, p, e) => wholeAt(b, p, e)
  <2> SUFFICES ASSUME wholeAt(c, p, e) PROVE wholeAt(b, p, e)
    OBVIOUS
  <2>1. /\ c[p + 1][1] \in Fragment /\ p + HeaderSize + c[p + 1][1].len <= e
        /\ \A i \in 1 .. HeaderSize + c[p + 1][1].len : c[p + i] = <<c[p + 1][1], i>>
    BY <1>1, WholeType
  <2>2. c[p + 1] = b[p + 1] /\ p + HeaderSize <= e
    BY <1>3 DEF wholeAt
  <2>3. \A i \in 1 .. HeaderSize + c[p + 1][1].len : c[p + i] = b[p + i]
    <3>1. c[p + 1][1].len \in Nat /\ HeaderSize \in Nat
      BY <2>1, FragmentType, Sizes1
    <3>2. \A i \in 1 .. HeaderSize + c[p + 1][1].len : p + i \in 1 .. e
      BY <2>1, <3>1, Within
    <3> QED
      BY <1>2, <3>2
  <2>4. b[p + 1][1].type # "zero"
    BY <2>2 DEF wholeAt
  <2> QED
    BY <2>1, <2>2, <2>3, <2>4 DEF wholeAt
<1>6. wholeAt(b, p, d) => wholeAt(b, p, e)
  <2> SUFFICES ASSUME wholeAt(b, p, d) PROVE wholeAt(b, p, e)
    OBVIOUS
  <2>1. p + HeaderSize <= d /\ p + HeaderSize + b[p + 1][1].len <= d
        /\ b[p + 1][1] \in Fragment
    BY <1>1, WholeType DEF wholeAt
  <2>2. p + HeaderSize <= e /\ p + HeaderSize + b[p + 1][1].len <= e
    BY <2>1, FragmentType, Sizes1
  <2> QED
    BY <2>2 DEF wholeAt
<1> QED
  BY <1>3, <1>4, <1>5, <1>6

\* A round that skips the rest of a block.
LEMMA Skips ==
  ASSUME NEW b \in Bytes, NEW s \in State,
         ~wholeAt(b, s.pos, Smaller(blockEnd(s.pos), Len(b))),
         Smaller(blockEnd(s.pos), Len(b)) # Len(b)
  PROVE  LET end == Smaller(blockEnd(s.pos), Len(b))
         IN  /\ readNext(b, s).pos = end /\ readNext(b, s).out = s.out
             /\ readNext(b, s).scratch = IF end - s.pos < HeaderSize THEN s.scratch
                                         ELSE <<>>
<1> DEFINE end == Smaller(blockEnd(s.pos), Len(b))
<1>1. /\ end - s.pos < HeaderSize
         => readNext(b, s) = [pos |-> end, scratch |-> s.scratch, out |-> s.out]
      /\ ~(end - s.pos < HeaderSize) =>
           readNext(b, s) = [pos |-> end, scratch |-> <<>>, out |-> s.out]
  BY Round
<1> HIDE DEF end
<1>2. /\ readNext(b, s).pos = end /\ readNext(b, s).out = s.out
      /\ readNext(b, s).scratch = IF end - s.pos < HeaderSize THEN s.scratch ELSE <<>>
  <2>1. CASE end - s.pos < HeaderSize
    BY <1>1, <2>1 DEF State
  <2>2. CASE ~(end - s.pos < HeaderSize)
    BY <1>1, <2>2 DEF State
  <2> QED
    BY <2>1, <2>2
<1> QED
  BY <1>2 DEF end

\* Where the reader stops there is nothing whole, and the block or the file ends.
LEMMA Stopped ==
  ASSUME NEW b \in Bytes, NEW s \in State, readNext(b, s) = s
  PROVE  /\ Smaller(blockEnd(s.pos), Len(b)) = Len(b)
         /\ ~wholeAt(b, s.pos, Len(b))
         /\ Len(b) <= blockEnd(s.pos)
<1> DEFINE end == Smaller(blockEnd(s.pos), Len(b))
<1>1. s.pos \in Nat /\ Len(b) \in Nat
  BY DEF State, Bytes
<1>2. end \in Nat /\ end <= Len(b) /\ end <= blockEnd(s.pos)
      /\ end \in {Len(b), blockEnd(s.pos)} /\ s.pos < blockEnd(s.pos)
  BY <1>1, EndType, InBlock
<1>3. ~wholeAt(b, s.pos, end)
  <2> SUFFICES ASSUME wholeAt(b, s.pos, end) PROVE FALSE
    OBVIOUS
  <2> DEFINE f == b[s.pos + 1][1]
  <2>1. f \in Fragment /\ s.pos < s.pos + HeaderSize + f.len
    BY <1>1, <1>2, WholeType
  <2>2. readFragment(s, f) \in State
    BY <2>1, ReadFragmentType
  <2>3. readNext(b, s) = [readFragment(s, f) EXCEPT !.pos = s.pos + HeaderSize + f.len]
    BY Round
  <2> HIDE DEF f, end
  <2>4. readNext(b, s).pos = s.pos + HeaderSize + f.len
    BY <2>2, <2>3 DEF State
  <2> QED
    BY <1>1, <2>1, <2>4
<1>4. end # Len(b) => readNext(b, s).pos = end
  BY <1>3, Skips
<1>5. end = Len(b)
  <2> HIDE DEF end
  <2> QED
    BY <1>1, <1>2, <1>4
<1> QED
  BY <1>2, <1>3, <1>5

\* The rounds of a reader are those of a reader of more.
LEMMA SameRound ==
  ASSUME NEW b \in Bytes, NEW c \in Bytes, Starts(b, c), NEW s \in State,
         readNext(b, s) # s
  PROVE  readNext(c, s) = readNext(b, s)
<1> DEFINE d == Smaller(blockEnd(s.pos), Len(b))
           e == Smaller(blockEnd(s.pos), Len(c))
<1>1. s.pos \in Nat /\ Len(b) \in Nat /\ Len(c) \in Nat /\ Len(b) <= Len(c)
      /\ blockEnd(s.pos) \in Nat
  <2>1. s.pos \in Nat
    BY DEF State
  <2>2. blockEnd(s.pos) \in Nat
    BY <2>1, InBlock
  <2>3. Len(b) \in Nat /\ Len(c) \in Nat
    BY DEF Bytes
  <2>4. Len(b) <= Len(c)
    BY DEF Starts
  <2> QED
    BY <2>1, <2>2, <2>3, <2>4
<1>2. /\ d \in Nat /\ d <= Len(b) /\ d <= blockEnd(s.pos) /\ d \in {Len(b), blockEnd(s.pos)}
      /\ e \in Nat /\ e <= Len(c) /\ d <= e
      /\ d # Len(b) => e = d /\ e # Len(c)
  BY <1>1, EndType DEF Smaller
<1>3. /\ wholeAt(b, s.pos, d) => wholeAt(c, s.pos, d)
      /\ wholeAt(c, s.pos, d) => wholeAt(c, s.pos, e) /\ wholeAt(b, s.pos, d)
      /\ wholeAt(b, s.pos, d) => c[s.pos + 1] = b[s.pos + 1]
  <2>1. Starts(c, c)
    BY <1>1 DEF Starts
  <2>2. /\ wholeAt(b, s.pos, d) <=> wholeAt(c, s.pos, d)
        /\ s.pos + HeaderSize <= d => c[s.pos + 1] = b[s.pos + 1]
    BY <1>1, <1>2, WholeSame
  <2>3. wholeAt(c, s.pos, d) => wholeAt(c, s.pos, e)
    BY <1>1, <1>2, <2>1, WholeSame
  <2> QED
    BY <2>2, <2>3 DEF wholeAt
<1>4. CASE wholeAt(b, s.pos, d)
  <2>1. wholeAt(c, s.pos, e) /\ c[s.pos + 1] = b[s.pos + 1]
    BY <1>3, <1>4
  <2>2. readNext(b, s) = [readFragment(s, b[s.pos + 1][1]) EXCEPT
                            !.pos = s.pos + HeaderSize + b[s.pos + 1][1].len]
    BY <1>4, Round
  <2>3. readNext(c, s) = [readFragment(s, c[s.pos + 1][1]) EXCEPT
                            !.pos = s.pos + HeaderSize + c[s.pos + 1][1].len]
    BY <2>1, Round
  <2> QED
    BY <2>1, <2>2, <2>3
<1>5. CASE ~wholeAt(b, s.pos, d)
  <2>1. d # Len(b)
    BY <1>5, Round
  <2>2. e = d /\ e # Len(c) /\ ~wholeAt(c, s.pos, e)
    BY <1>2, <1>3, <1>5, <2>1
  <2> HIDE DEF d, e
  <2>3. /\ d - s.pos < HeaderSize
           => readNext(b, s) = [pos |-> d, scratch |-> s.scratch, out |-> s.out]
        /\ ~(d - s.pos < HeaderSize) =>
             readNext(b, s) = [pos |-> d, scratch |-> <<>>, out |-> s.out]
    BY <1>5, <2>1, Round DEF d
  <2>4. /\ e - s.pos < HeaderSize
           => readNext(c, s) = [pos |-> e, scratch |-> s.scratch, out |-> s.out]
        /\ ~(e - s.pos < HeaderSize) =>
             readNext(c, s) = [pos |-> e, scratch |-> <<>>, out |-> s.out]
    BY <2>2, Round DEF e
  <2> QED
    BY <2>2, <2>3, <2>4
<1> QED
  BY <1>4, <1>5

\* A reader of more passes where the reader stopped.
LEMMA ReadsMore ==
  ASSUME NEW b \in Bytes, NEW c \in Bytes, Starts(b, c)
  PROVE  Reads(c, reading(b))
<1> DEFINE T == {s \in State : Reads(c, s)}
<1>1. nothingRead \in T
  BY Rounds DEF Reads
<1>2. ASSUME NEW s \in T
      PROVE  readNext(b, s) \in T
  <2>1. readNext(b, s) = s \/ readNext(b, s) = readNext(c, s)
    BY SameRound
  <2>2. Reads(c, readNext(b, s))
    BY <2>1, ReadsNext
  <2> QED
    BY <2>2, ReadNextType
<1>3. reading(b) \in T
  <2> HIDE DEF T
  <2> QED
    BY <1>1, <1>2, ReadInduction
<1> QED
  BY <1>3

\* A round takes no record back.
LEMMA OutGrows ==
  ASSUME NEW b \in Bytes, NEW s \in State
  PROVE  Starts(s.out, readNext(b, s).out)
<1> DEFINE end == Smaller(blockEnd(s.pos), Len(b))
           f == b[s.pos + 1][1]
<1>1. s.pos \in Nat /\ s.scratch \in Seq(Fragment) /\ s.out \in Seq(Seq(Fragment))
  BY DEF State
<1>2. Starts(s.out, s.out) /\ \A r : Starts(s.out, Append(s.out, r))
  BY <1>1 DEF Starts
<1>3. CASE wholeAt(b, s.pos, end)
  <2>1. f \in Fragment /\ end \in Nat /\ end <= Len(b)
    BY <1>1, <1>3, EndType, WholeType
  <2>2. readFragment(s, f) \in State
    BY <2>1, ReadFragmentType
  <2>3. readNext(b, s) = [readFragment(s, f) EXCEPT !.pos = s.pos + HeaderSize + f.len]
    BY <1>3, Round
  <2>4. f.type \in {"full", "first", "middle", "last"}
    BY <2>1, FragmentType
  <2> HIDE DEF f, end
  <2>5. readNext(b, s).out = readFragment(s, f).out
    BY <2>2, <2>3 DEF State
  <2>6. \/ readFragment(s, f).out = s.out
        \/ \E r : readFragment(s, f).out = Append(s.out, r)
    BY <2>4 DEF readFragment, State
  <2> QED
    BY <1>2, <2>5, <2>6
<1>4. CASE ~wholeAt(b, s.pos, end)
  <2>1. \/ readNext(b, s) = s
        \/ readNext(b, s) = [pos |-> end, scratch |-> s.scratch, out |-> s.out]
        \/ readNext(b, s) = [pos |-> end, scratch |-> <<>>, out |-> s.out]
    BY <1>4, Round
  <2> HIDE DEF end
  <2>2. readNext(b, s).out = s.out
    BY <2>1 DEF State
  <2> QED
    BY <1>2, <2>2
<1> QED
  BY <1>3, <1>4

\* What the reader has put out on the way is in what it returns.
LEMMA ReadsOut ==
  ASSUME NEW b \in Bytes, NEW s, Reads(b, s)
  PROVE  Starts(s.out, reading(b).out)
<1> DEFINE T == {t \in State : Starts(s.out, t.out)}
<1>1. s \in State /\ \A t \in State : t.out \in Seq(Seq(Fragment))
  BY Rounds DEF State
<1>2. s \in T
  <2>1. Starts(s.out, s.out)
    BY <1>1 DEF Starts
  <2> QED
    BY <1>1, <2>1
<1>3. ASSUME NEW t \in T
      PROVE  readNext(b, t) \in T
  <2>1. readNext(b, t) \in State /\ Starts(t.out, readNext(b, t).out)
    BY ReadNextType, OutGrows
  <2>2. Starts(s.out, readNext(b, t).out)
    BY <1>1, <2>1, StartsTrans
  <2> QED
    BY <2>1, <2>2
<1>4. reading(b) \in T
  <2> HIDE DEF T
  <2> QED
    BY <1>2, <1>3, ReadFrom
<1> QED
  BY <1>4

\* The numbers of the records that are read.
Read(b) == {r[1].rec : r \in Range(recordsIn(b))}

\* What is read of a file is read of a longer one.
LEMMA RecordsStay ==
  ASSUME NEW b \in Bytes, NEW c \in Bytes, Starts(b, c)
  PROVE  Starts(recordsIn(b), recordsIn(c)) /\ Read(b) \subseteq Read(c)
<1>1. Starts(recordsIn(b), recordsIn(c))
  BY ReadsMore, ReadsOut DEF recordsIn
<1>2. recordsIn(b) \in Seq(Seq(Fragment)) /\ recordsIn(c) \in Seq(Seq(Fragment))
  BY Rounds DEF recordsIn, State
<1>3. Range(recordsIn(b)) \subseteq Range(recordsIn(c))
  <2>1. /\ DOMAIN recordsIn(b) = 1 .. Len(recordsIn(b))
        /\ DOMAIN recordsIn(c) = 1 .. Len(recordsIn(c))
        /\ Len(recordsIn(b)) \in Nat /\ Len(recordsIn(c)) \in Nat
    BY <1>2
  <2>2. \A i \in DOMAIN recordsIn(b) : i \in DOMAIN recordsIn(c)
                                        /\ recordsIn(c)[i] = recordsIn(b)[i]
    BY <1>1, <2>1 DEF Starts
  <2> QED
    BY <2>2 DEF Range
<1> QED
  BY <1>1, <1>3 DEF Read

-----------------------------------------------------------------------------
(* Reading what is appended *)

\* c is b, a trailer up to the position at, and there the fragment f.
Appended(b, c, at, f) ==
  /\ Starts(b, c) /\ f \in Fragment
  /\ at \in Nat /\ Len(b) <= at /\ Len(c) = at + HeaderSize + f.len
  /\ \A k \in Len(b) + 1 .. at : c[k] = zero
  /\ \A i \in 1 .. HeaderSize + f.len : c[at + i] = <<f, i>>

\* Nothing of f is in another block, and only a trailer goes before it.
Extends(b, c, at, f) ==
  /\ Appended(b, c, at, f)
  /\ Len(c) <= blockEnd(at)
  /\ at = Len(b) \/ (at % BlockSize = 0 /\ at - Len(b) < HeaderSize)

\* The reader gets to where f is, if a block begins there or it got to the end
\* of b; in the second case it has the same in scratch.
LEMMA ReadsTrailer ==
  ASSUME NEW b \in Bytes, NEW c \in Bytes, NEW at, NEW f, Extends(b, c, at, f),
         at % BlockSize = 0 \/ reading(b).pos = Len(b)
  PROVE  \E s \in State :
           /\ Reads(c, s) /\ s.pos = at /\ s.out = reading(b).out
           /\ reading(b).pos = Len(b) => s.scratch = reading(b).scratch
<1>1. PICK r \in State :
        /\ r = reading(b) /\ r.pos \in Nat /\ r.pos <= Len(b) /\ Reads(c, r)
        /\ readNext(b, r) = r /\ Len(b) \in Nat /\ Len(c) \in Nat
  BY Rounds, ReaderStops, ReadsMore DEF State, Extends, Appended
<1>2. /\ at \in Nat /\ Len(b) <= at /\ at < Len(c) /\ f \in Fragment
      /\ at - Len(b) < BlockSize
  BY <1>1, Sizes1, FragmentType DEF Extends, Appended
<1>3. CASE r.pos = at
  BY <1>1, <1>3
<1>4. CASE r.pos # at
  <2>1. at % BlockSize = 0 /\ r.pos < at
    BY <1>1, <1>2, <1>4 DEF Extends, Appended
  <2>2. ~wholeAt(b, r.pos, Len(b)) /\ Len(b) <= blockEnd(r.pos)
    BY <1>1, Stopped
  <2>3. /\ blockEnd(r.pos) \in Nat /\ blockEnd(r.pos) <= at
        /\ blockEnd(blockEnd(r.pos)) = blockEnd(r.pos) + BlockSize
        /\ blockEnd(r.pos) < at => blockEnd(blockEnd(r.pos)) <= at
    BY <1>1, <1>2, <2>1, InBlock, BlockBegins
  <2>4. blockEnd(r.pos) = at
    BY <1>1, <1>2, <2>2, <2>3, Sizes1
  <2>5. Smaller(blockEnd(r.pos), Len(c)) = at /\ at # Len(c)
    BY <1>1, <1>2, <2>4 DEF Smaller
  <2>6. ~wholeAt(c, r.pos, at)
    <3> SUFFICES ASSUME wholeAt(c, r.pos, at) PROVE FALSE
      OBVIOUS
    <3>1. PICK g \in Fragment :
            /\ g = c[r.pos + 1][1] /\ r.pos + HeaderSize + g.len <= at
            /\ \A i \in 1 .. HeaderSize + g.len : c[r.pos + i] = <<g, i>>
      <4>1. at <= Len(c)
        BY <1>1, <1>2
      <4> QED
        BY <1>1, <1>2, <4>1, WholeType
    <3>2. g.len \in Nat /\ HeaderSize \in Nat \ {0} /\ g.type # "zero"
      BY FragmentType, Sizes1
    <3>3. CASE r.pos + HeaderSize + g.len <= Len(b)
      <4>1. r.pos + HeaderSize <= Len(b)
        BY <1>1, <3>2, <3>3
      <4>2. wholeAt(c, r.pos, Len(b))
        BY <3>1, <3>2, <3>3, <4>1 DEF wholeAt
      <4>3. Starts(b, c)
        BY DEF Extends, Appended
      <4> QED
        BY <1>1, <2>2, <4>2, <4>3, WholeSame
    <3>4. CASE Len(b) < r.pos + HeaderSize + g.len
      <4>1. PICK n \in Nat : n = HeaderSize + g.len /\ n \in 1 .. HeaderSize + g.len
        BY <3>2
      <4>2. c[r.pos + n] = <<g, n>>
        <5>1. n \in 1 .. HeaderSize + g.len
          BY <4>1
        <5> QED
          BY <3>1, <5>1
      <4>3. r.pos + n \in Len(b) + 1 .. at
        <5>1. r.pos + n = r.pos + HeaderSize + g.len
          BY <1>1, <3>2, <4>1
        <5>2. Len(b) < r.pos + n /\ r.pos + n <= at
          BY <3>1, <3>4, <5>1
        <5> QED
          BY <1>1, <1>2, <4>1, <5>2
      <4>4. c[r.pos + n] = zero
        BY <4>3 DEF Extends, Appended
      <4>5. g = zero[1]
        BY <4>2, <4>4
      <4> QED
        BY <3>2, <4>5 DEF zero, fragment
    <3> QED
      BY <1>1, <3>2, <3>3, <3>4
  <2>7. /\ readNext(c, r).pos = at /\ readNext(c, r).out = r.out
        /\ readNext(c, r).scratch = IF at - r.pos < HeaderSize THEN r.scratch ELSE <<>>
    <3>1. ~wholeAt(c, r.pos, Smaller(blockEnd(r.pos), Len(c)))
          /\ Smaller(blockEnd(r.pos), Len(c)) # Len(c)
      BY <2>5, <2>6
    <3> QED
      BY <2>5, <3>1, Skips
  <2>8. Reads(c, readNext(c, r)) /\ readNext(c, r) \in State
    BY <1>1, ReadsNext, ReadNextType
  <2>9. r.pos = Len(b) => at - r.pos < HeaderSize
    BY <1>4 DEF Extends, Appended
  <2> QED
    BY <1>1, <2>7, <2>8, <2>9
<1> QED
  BY <1>3, <1>4

\* Then it reads f, and stops at the end of c.
LEMMA ReadsAppended ==
  ASSUME NEW b \in Bytes, NEW c \in Bytes, NEW at, NEW f, Extends(b, c, at, f),
         at % BlockSize = 0 \/ reading(b).pos = Len(b)
  PROVE  \E s \in State :
           /\ s.out = reading(b).out
           /\ reading(b).pos = Len(b) => s.scratch = reading(b).scratch
           /\ reading(c).pos = Len(c)
           /\ reading(c).out = readFragment(s, f).out
           /\ reading(c).scratch = readFragment(s, f).scratch
<1>1. PICK s \in State :
        /\ Reads(c, s) /\ s.pos = at /\ s.out = reading(b).out
        /\ reading(b).pos = Len(b) => s.scratch = reading(b).scratch
  BY ReadsTrailer
<1>2. /\ at \in Nat /\ f \in Fragment /\ Len(c) = at + HeaderSize + f.len
      /\ f.len \in Nat /\ Len(c) \in Nat /\ Len(c) <= blockEnd(at)
      /\ HeaderSize \in Nat \ {0}
  BY FragmentType, Sizes1 DEF Extends, Appended, Bytes
<1>3. Smaller(blockEnd(s.pos), Len(c)) = Len(c)
  BY <1>1, <1>2, EndType
<1>4. c[at + 1] = <<f, 1>>
  BY <1>2 DEF Extends, Appended
<1>5. wholeAt(c, s.pos, Len(c)) /\ c[s.pos + 1][1] = f
  <2>1. c[at + 1][1] = f
    BY <1>4
  <2>2. \A i \in 1 .. HeaderSize + f.len : c[at + i] = <<f, i>>
    BY DEF Extends, Appended
  <2>3. f.type # "zero" /\ at + HeaderSize <= Len(c) /\ at + HeaderSize + f.len <= Len(c)
    BY <1>2, FragmentType
  <2>4. wholeAt(c, at, Len(c))
    BY <2>1, <2>2, <2>3 DEF wholeAt
  <2> QED
    BY <1>1, <2>1, <2>4
<1> DEFINE t == readNext(c, s)
<1>6. t = [readFragment(s, f) EXCEPT !.pos = s.pos + HeaderSize + f.len]
  BY <1>3, <1>5, Round
<1>7. readFragment(s, f) \in State
  BY <1>2, ReadFragmentType
<1>8. /\ t.pos = Len(c) /\ t.out = readFragment(s, f).out
      /\ t.scratch = readFragment(s, f).scratch
  <2> HIDE DEF t
  <2> QED
    BY <1>1, <1>2, <1>6, <1>7 DEF State
<1>9. t \in State /\ Reads(c, t)
  BY <1>1, ReadsNext, ReadNextType
<1>10. readNext(c, t) = t
  <2> HIDE DEF t
  <2> QED
    BY <1>2, <1>8, <1>9, Advance
<1>11. reading(c) = t
  BY <1>9, <1>10, ReadsStop
<1> QED
  BY <1>1, <1>8, <1>11

-----------------------------------------------------------------------------
(* What the reader makes of the bytes a writer leaves *)

Legal(f) ==
  /\ f \in Fragment /\ f.from + f.len <= f.size
  /\ f.type \in {"full", "last"} => f.from + f.len = f.size
  /\ f.type \in {"full", "first"} => f.from = 0

\* The last byte of the fragment f is at e in b, and all others before it.
EndsAt(b, f, e) ==
  /\ HeaderSize + f.len <= e
  /\ \A i \in 1 .. HeaderSize + f.len : b[e - (HeaderSize + f.len) + i] = <<f, i>>

\* After f comes what the record has from a byte on.
Precedes(f, rec, from) ==
  f.type \in {"first", "middle"} /\ f.rec = rec /\ f.from + f.len = from

\* Bytes a writer leaves.  A record begins after the ones before it; any other
\* fragment has, but for a trailer, its predecessor before it.
Written(b) ==
  /\ \A k \in 1 .. Len(b) : b[k] # zero => Legal(b[k][1])
  /\ \A j, k \in 1 .. Len(b) :
       j < k /\ b[k][2] = 1 /\ b[k][1].type \in {"full", "first"} =>
         b[j][1].rec < b[k][1].rec
  /\ \A k \in 1 .. Len(b) :
       b[k][2] = 1 /\ b[k][1].type \in {"middle", "last"} =>
         \E e \in 1 .. k - 1 :
           /\ Precedes(b[e][1], b[k][1].rec, b[k][1].from)
           /\ EndsAt(b, b[e][1], e)
           /\ \A j \in e + 1 .. k - 1 : b[j] = zero

\* The fragments of r join up, and make a whole record.
Joined(r) ==
  /\ r[1].from = 0
  /\ \A j \in 1 .. Len(r) : r[j].rec = r[1].rec
  /\ \A j \in 1 .. Len(r) : j < Len(r) => r[j].from + r[j].len = r[j + 1].from

WholeRecord(r) ==
  r # <<>> /\ Joined(r) /\ r[Len(r)].from + r[Len(r)].len = r[Len(r)].size

Seen(b, p, rec) == \E k \in 1 .. p : b[k][1].rec = rec

\* The reader has just read f, or skipped no more than a trailer since.
JustRead(b, p, f) ==
  \E e \in 1 .. p : EndsAt(b, f, e) /\ (e = p \/ (p % BlockSize = 0 /\ p - e < HeaderSize))

\* The records out are whole, come from the bytes up to p and are in order.
WholeOut(b, p, out) ==
  /\ \A i \in 1 .. Len(out) : WholeRecord(out[i]) /\ Seen(b, p, out[i][1].rec)
  /\ \A i, j \in 1 .. Len(out) : i < j => out[i][1].rec < out[j][1].rec

\* The fragments of scratch join up, and the last of them has just been read.
InScratch(b, p, scratch, out) ==
  scratch # <<>> =>
    /\ Joined(scratch) /\ JustRead(b, p, scratch[Len(scratch)])
    /\ Seen(b, p, scratch[1].rec)
    /\ \A i \in 1 .. Len(out) : out[i][1].rec < scratch[1].rec

ReadWhole(b, s) ==
  /\ s.pos <= Len(b)
  /\ WholeOut(b, s.pos, s.out) /\ InScratch(b, s.pos, s.scratch, s.out)

\* What ends at e shows there.
LEMMA LastByte ==
  ASSUME NEW b, NEW f \in Fragment, NEW e \in Nat, EndsAt(b, f, e)
  PROVE  b[e] = <<f, HeaderSize + f.len>> /\ e >= 1
<1>1. PICK n \in Nat : n = HeaderSize + f.len /\ n >= 1
  BY FragmentType, Sizes1
<1>2. n \in 1 .. HeaderSize + f.len
  BY <1>1
<1>3. b[e - n + n] = <<f, n>>
  BY <1>1, <1>2 DEF EndsAt
<1>4. e - n + n = e /\ n <= e
  BY <1>1 DEF EndsAt
<1> QED
  BY <1>1, <1>3, <1>4

\* Two fragments do not overlap, so the one that ends shortly before another
\* of its record is its predecessor.
LEMMA Predecessor ==
  ASSUME NEW b \in Bytes, Written(b), NEW p \in Nat, NEW f \in Fragment,
         p + 1 <= Len(b), b[p + 1] = <<f, 1>>, f.type \in {"middle", "last"},
         NEW g \in Fragment, NEW e \in 1 .. p, EndsAt(b, g, e), p - e < HeaderSize
  PROVE  Precedes(g, f.rec, f.from)
<1>1. p + 1 \in 1 .. Len(b) /\ (p + 1) - 1 = p /\ Len(b) \in Nat
  BY DEF Bytes
<1>2. PICK d \in 1 .. p : /\ Precedes(b[d][1], f.rec, f.from)
                          /\ EndsAt(b, b[d][1], d)
                          /\ \A j \in d + 1 .. p : b[j] = zero
  <2>1. b[p + 1][2] = 1 /\ b[p + 1][1] = f
    OBVIOUS
  <2> QED
    BY <1>1, <2>1 DEF Written
<1>3. PICK h \in Fragment : h = b[d][1]
  <2>1. d \in 1 .. Len(b) /\ b[d][1].type # "zero"
    BY <1>1, <1>2 DEF Precedes
  <2> QED
    BY <2>1, ByteType
<1>4. /\ b[e] = <<g, HeaderSize + g.len>> /\ b[d] = <<h, HeaderSize + h.len>>
      /\ g.type # "zero"
  BY <1>2, <1>3, LastByte, FragmentType
<1>5. ~(d < e)
  <2> SUFFICES ASSUME d < e PROVE FALSE
    OBVIOUS
  <2>1. e \in d + 1 .. p
    OBVIOUS
  <2>2. b[e] = zero
    BY <1>2, <2>1
  <2>3. g = zero[1]
    BY <1>4, <2>2
  <2> QED
    BY <1>4, <2>3 DEF zero, fragment
<1>6. ~(e < d)
  <2> SUFFICES ASSUME e < d PROVE FALSE
    OBVIOUS
  <2>1. PICK n \in Nat : n = HeaderSize + h.len /\ HeaderSize <= n
    <3>1. h.len \in Nat /\ HeaderSize \in Nat
      BY FragmentType, Sizes1
    <3> QED
      BY <3>1
  <2>2. PICK i \in 1 .. n - 1 : e = d - n + i
    <3>1. d - e < HeaderSize /\ HeaderSize \in Nat
      BY Sizes1
    <3>2. n - (d - e) \in 1 .. n - 1 /\ e = d - n + (n - (d - e))
      BY <2>1, <3>1
    <3> QED
      BY <3>2
  <2>3. b[e] = <<h, i>>
    <3>1. i \in 1 .. HeaderSize + h.len
      BY <2>1
    <3>2. b[d - (HeaderSize + h.len) + i] = <<h, i>>
      BY <1>2, <1>3, <3>1 DEF EndsAt
    <3> QED
      BY <2>1, <2>2, <3>2
  <2>4. g = h /\ HeaderSize + g.len = i
    BY <1>4, <2>3
  <2> QED
    BY <2>1, <2>4
<1>7. e = d
  BY <1>5, <1>6
<1> QED
  BY <1>2, <1>3, <1>4, <1>7

\* A fragment more.
LEMMA JoinedMore ==
  ASSUME NEW r \in Seq(Fragment), r # <<>>, Joined(r), NEW f \in Fragment,
         Precedes(r[Len(r)], f.rec, f.from)
  PROVE  /\ Joined(Append(r, f)) /\ Append(r, f) # <<>>
         /\ Append(r, f)[Len(Append(r, f))] = f
         /\ Append(r, f)[1] = r[1] /\ f.rec = r[1].rec
<1>1. /\ Len(r) \in Nat /\ Len(r) >= 1 /\ Len(Append(r, f)) = Len(r) + 1
      /\ \A j \in 1 .. Len(r) : Append(r, f)[j] = r[j]
      /\ Append(r, f)[Len(r) + 1] = f
      /\ Append(r, f) # <<>>
  OBVIOUS
<1>2. \A j \in 1 .. Len(r) + 1 : j \in 1 .. Len(r) \/ j = Len(r) + 1
  BY <1>1
<1>3. f.rec = r[1].rec
  BY <1>1 DEF Precedes, Joined
<1>4. \A j \in 1 .. Len(r) + 1 : Append(r, f)[j].rec = r[1].rec
  BY <1>1, <1>2, <1>3 DEF Joined
<1>5. ASSUME NEW j \in 1 .. Len(r) + 1, j < Len(r) + 1
      PROVE  Append(r, f)[j].from + Append(r, f)[j].len = Append(r, f)[j + 1].from
  <2>1. CASE j = Len(r)
    BY <1>1, <2>1 DEF Precedes
  <2>2. CASE j # Len(r)
    <3>1. j \in 1 .. Len(r) /\ j + 1 \in 1 .. Len(r) /\ j < Len(r)
      BY <1>1, <1>5, <2>2
    <3> QED
      BY <1>1, <3>1 DEF Joined
  <2> QED
    BY <2>1, <2>2
<1>6. Append(r, f)[1] = r[1]
  BY <1>1
<1> HIDE DEF Joined
<1>7. Joined(Append(r, f))
  BY <1>1, <1>4, <1>5, <1>6 DEF Joined
<1> QED
  BY <1>1, <1>3, <1>6, <1>7

\* What has been seen stays so, and a later record may be added.
LEMMA OutMore ==
  ASSUME NEW b, NEW p \in Nat, NEW q \in Nat, p <= q,
         NEW out \in Seq(Seq(Fragment)), WholeOut(b, p, out)
  PROVE  /\ WholeOut(b, q, out)
         /\ \A rec : Seen(b, p, rec) => Seen(b, q, rec)
         /\ \A r \in Seq(Fragment) :
              /\ WholeRecord(r) /\ Seen(b, q, r[1].rec)
              /\ \A i \in 1 .. Len(out) : out[i][1].rec < r[1].rec
              => WholeOut(b, q, Append(out, r))
<1>1. \A rec : Seen(b, p, rec) => Seen(b, q, rec)
  <2>1. \A k \in 1 .. p : k \in 1 .. q
    OBVIOUS
  <2> QED
    BY <2>1 DEF Seen
<1>2. WholeOut(b, q, out)
  BY <1>1 DEF WholeOut
<1>3. ASSUME NEW r \in Seq(Fragment), WholeRecord(r), Seen(b, q, r[1].rec),
             \A i \in 1 .. Len(out) : out[i][1].rec < r[1].rec
      PROVE  WholeOut(b, q, Append(out, r))
  <2>1. PICK c : c = Append(out, r)
    OBVIOUS
  <2>2. /\ Len(out) \in Nat /\ Len(c) = Len(out) + 1 /\ c[Len(out) + 1] = r
        /\ \A i \in 1 .. Len(out) : c[i] = out[i]
    BY <2>1
  <2>3. \A i \in 1 .. Len(c) : i \in 1 .. Len(out) \/ i = Len(out) + 1
    BY <2>2
  <2>4. \A i \in 1 .. Len(c) : WholeRecord(c[i]) /\ Seen(b, q, c[i][1].rec)
    BY <1>2, <1>3, <2>2, <2>3 DEF WholeOut
  <2>5. ASSUME NEW i \in 1 .. Len(c), NEW j \in 1 .. Len(c), i < j
        PROVE  c[i][1].rec < c[j][1].rec
    <3>1. i \in 1 .. Len(out)
      BY <2>2, <2>5
    <3>2. CASE j \in 1 .. Len(out)
      BY <1>2, <2>2, <2>5, <3>1, <3>2 DEF WholeOut
    <3>3. CASE j = Len(out) + 1
      BY <1>3, <2>2, <3>1, <3>3
    <3> QED
      BY <2>3, <3>2, <3>3
  <2> QED
    BY <2>1, <2>4, <2>5 DEF WholeOut
<1> QED
  BY <1>1, <1>2, <1>3

\* A fragment by itself.
LEMMA JoinedOne ==
  ASSUME NEW f \in Fragment, f.from = 0
  PROVE  Joined(<<f>>) /\ <<f>> # <<>> /\ <<f>>[Len(<<f>>)] = f /\ <<f>>[1] = f
         /\ <<f>> \in Seq(Fragment)
         /\ (f.from + f.len = f.size => WholeRecord(<<f>>))
<1>1. PICK r : r = <<f>>
  OBVIOUS
<1>2. r \in Seq(Fragment) /\ Len(r) = 1 /\ r[1] = f /\ r # <<>>
  BY <1>1
<1>3. Joined(r)
  BY <1>2 DEF Joined
<1> QED
  BY <1>1, <1>2, <1>3 DEF WholeRecord

\* The reader reads the whole fragment f, up to q.
LEMMA ReadWholeFragment ==
  ASSUME NEW b \in Bytes, Written(b), NEW s \in State, ReadWhole(b, s),
         NEW f \in Fragment, NEW q, q = s.pos + HeaderSize + f.len, q <= Len(b),
         \A i \in 1 .. HeaderSize + f.len : b[s.pos + i] = <<f, i>>
  PROVE  LET t == readFragment(s, f)
         IN  WholeOut(b, q, t.out) /\ InScratch(b, q, t.scratch, t.out)
<1>1. PICK p \in Nat : p = s.pos
  BY DEF State
<1>2. PICK n \in Nat : n = HeaderSize + f.len /\ n >= 1
  BY FragmentType, Sizes1
<1>3. /\ q \in Nat /\ q = p + n /\ p < q /\ p + 1 \in 1 .. q /\ p + 1 <= Len(b)
      /\ p + 1 \in 1 .. Len(b) /\ Len(b) \in Nat /\ p <= q
  <2>1. Len(b) \in Nat /\ f.len \in Nat /\ HeaderSize \in Nat
    BY FragmentType, Sizes1 DEF Bytes
  <2>2. q = p + n
    <3>1. s.pos \in Nat
      BY <1>1
    <3>2. q = s.pos + (HeaderSize + f.len)
      BY <2>1, <3>1, Sums
    <3> QED
      BY <1>1, <1>2, <3>2
  <2>3. PICK m \in Nat : m = Len(b)
    BY <2>1
  <2>4. q \in Nat /\ p < q /\ p <= q /\ p + 1 \in 1 .. q /\ p + 1 <= q
    BY <1>2, <2>2
  <2>5. q <= m
    BY <2>3
  <2>6. p + 1 <= m /\ p + 1 \in 1 .. m
    BY <2>4, <2>5
  <2> QED
    BY <2>2, <2>3, <2>4, <2>6
<1>4. \A i \in 1 .. n : b[p + i] = <<f, i>>
  BY <1>1, <1>2
<1>5. b[p + 1] = <<f, 1>> /\ b[p + 1][1] = f /\ b[p + 1][2] = 1
  BY <1>2, <1>4
<1>6. f.type # "zero" /\ f.type \in {"full", "first", "middle", "last"}
  BY FragmentType
<1>7. Legal(f)
  <2>1. b[p + 1] # zero
    BY <1>5, <1>6 DEF zero, fragment
  <2> QED
    BY <1>3, <1>5, <2>1 DEF Written
<1>8. Seen(b, q, f.rec)
  BY <1>3, <1>5 DEF Seen
<1>9. JustRead(b, q, f)
  <2>1. \A i \in 1 .. n : q - n + i = p + i
    BY <1>3
  <2>2. EndsAt(b, f, q)
    <3>1. n <= q /\ \A i \in 1 .. n : b[q - n + i] = <<f, i>>
      BY <1>3, <1>4, <2>1
    <3> QED
      BY <1>2, <3>1 DEF EndsAt
  <2>3. q \in 1 .. q
    BY <1>3
  <2> QED
    BY <2>2, <2>3 DEF JustRead
<1>10. /\ s.out \in Seq(Seq(Fragment)) /\ s.scratch \in Seq(Fragment)
       /\ WholeOut(b, p, s.out) /\ InScratch(b, p, s.scratch, s.out)
  BY <1>1 DEF State, ReadWhole
<1>11. /\ WholeOut(b, q, s.out)
       /\ \A rec : Seen(b, p, rec) => Seen(b, q, rec)
       /\ \A r \in Seq(Fragment) :
              /\ WholeRecord(r) /\ Seen(b, q, r[1].rec)
              /\ \A i \in 1 .. Len(s.out) : s.out[i][1].rec < r[1].rec
              => WholeOut(b, q, Append(s.out, r))
  <2> HIDE DEF WholeOut, Seen
  <2> QED
    BY <1>3, <1>10, OutMore
<1>12. f.type \in {"full", "first"} =>
         \A i \in 1 .. Len(s.out) : s.out[i][1].rec < f.rec
  <2> SUFFICES ASSUME f.type \in {"full", "first"}, NEW i \in 1 .. Len(s.out)
               PROVE  s.out[i][1].rec < f.rec
    OBVIOUS
  <2>1. PICK k \in 1 .. p : b[k][1].rec = s.out[i][1].rec
    BY <1>10 DEF WholeOut, Seen
  <2>2. k \in 1 .. Len(b) /\ k < p + 1
    BY <1>3
  <2>3. b[k][1].rec < b[p + 1][1].rec
    BY <1>3, <1>5, <2>2 DEF Written
  <2> QED
    BY <1>5, <2>1, <2>3
<1>13. InScratch(b, q, <<>>, s.out) /\ \A out : InScratch(b, q, <<>>, out)
  BY DEF InScratch
<1>14. f.type \in {"full", "first"} =>
         Joined(<<f>>) /\ <<f>> # <<>> /\ <<f>>[Len(<<f>>)] = f /\ <<f>>[1] = f
         /\ <<f>> \in Seq(Fragment)
         /\ (f.from + f.len = f.size => WholeRecord(<<f>>))
  BY <1>7, JoinedOne DEF Legal
<1>15. f.type \in {"middle", "last"} /\ s.scratch # <<>> =>
         LET r == Append(s.scratch, f)
         IN  /\ Joined(r) /\ r # <<>> /\ r[Len(r)] = f /\ r[1] = s.scratch[1]
             /\ r \in Seq(Fragment) /\ f.rec = s.scratch[1].rec
  <2> SUFFICES ASSUME f.type \in {"middle", "last"}, s.scratch # <<>>
               PROVE  LET r == Append(s.scratch, f)
                      IN  /\ Joined(r) /\ r # <<>> /\ r[Len(r)] = f /\ r[1] = s.scratch[1]
                          /\ r \in Seq(Fragment) /\ f.rec = s.scratch[1].rec
    OBVIOUS
  <2>1. PICK g \in Fragment : g = s.scratch[Len(s.scratch)]
    BY <1>10
  <2>2. Joined(s.scratch) /\ JustRead(b, p, g)
    BY <1>10, <2>1 DEF InScratch
  <2>3. PICK e \in 1 .. p : EndsAt(b, g, e) /\ (e = p \/ p - e < HeaderSize)
    BY <2>2 DEF JustRead
  <2>4. p - e < HeaderSize
    BY <2>3, Sizes1
  <2>5. Precedes(g, f.rec, f.from)
    BY <1>3, <1>5, <2>3, <2>4, Predecessor
  <2>6. Append(s.scratch, f) \in Seq(Fragment)
    BY <1>10
  <2> QED
    BY <1>10, <2>1, <2>2, <2>5, <2>6, JoinedMore
<1>16. CASE f.type = "full"
  <2>1. readFragment(s, f).out = Append(s.out, <<f>>) /\ readFragment(s, f).scratch = <<>>
    BY <1>16 DEF readFragment, State
  <2>2. WholeRecord(<<f>>)
    BY <1>7, <1>14, <1>16 DEF Legal
  <2> QED
    BY <1>8, <1>11, <1>12, <1>13, <1>14, <1>16, <2>1, <2>2
<1>17. CASE f.type = "first"
  <2>1. readFragment(s, f).out = s.out /\ readFragment(s, f).scratch = <<f>>
    BY <1>17 DEF readFragment, State
  <2> QED
    BY <1>8, <1>9, <1>11, <1>12, <1>14, <1>17, <2>1 DEF InScratch
<1>18. CASE f.type = "middle"
  <2>1. readFragment(s, f).out = s.out
        /\ readFragment(s, f).scratch = IF s.scratch = <<>> THEN <<>>
                                        ELSE Append(s.scratch, f)
    BY <1>18 DEF readFragment, State
  <2>2. CASE s.scratch = <<>>
    BY <1>11, <1>13, <2>1, <2>2
  <2>3. CASE s.scratch # <<>>
    BY <1>8, <1>9, <1>10, <1>11, <1>15, <1>18, <2>1, <2>3 DEF InScratch
  <2> QED
    BY <2>2, <2>3
<1>19. CASE f.type = "last"
  <2>1. CASE s.scratch = <<>>
    <3>1. readFragment(s, f) = s
      BY <1>19, <2>1 DEF readFragment
    <3> QED
      BY <1>11, <1>13, <2>1, <3>1
  <2>2. CASE s.scratch # <<>>
    <3>1. readFragment(s, f).out = Append(s.out, Append(s.scratch, f))
          /\ readFragment(s, f).scratch = <<>>
      BY <1>19, <2>2 DEF readFragment, State
    <3>2. WholeRecord(Append(s.scratch, f))
      BY <1>7, <1>15, <1>19, <2>2 DEF WholeRecord, Legal
    <3>3. /\ Seen(b, q, Append(s.scratch, f)[1].rec)
          /\ \A i \in 1 .. Len(s.out) : s.out[i][1].rec < Append(s.scratch, f)[1].rec
      BY <1>8, <1>10, <1>15, <1>19, <2>2 DEF InScratch
    <3> QED
      BY <1>11, <1>13, <1>15, <1>19, <2>2, <3>1, <3>2, <3>3
  <2> QED
    BY <2>1, <2>2
<1> QED
  BY <1>6, <1>16, <1>17, <1>18, <1>19

\* A round of the reader.
LEMMA ReadWholeNext ==
  ASSUME NEW b \in Bytes, Written(b), NEW s \in State, ReadWhole(b, s)
  PROVE  ReadWhole(b, readNext(b, s))
<1> DEFINE end == Smaller(blockEnd(s.pos), Len(b))
<1>1. /\ s.pos \in Nat /\ s.scratch \in Seq(Fragment) /\ s.out \in Seq(Seq(Fragment))
      /\ Len(b) \in Nat
  BY DEF State, Bytes
<1>2. /\ end \in Nat /\ end <= Len(b) /\ end \in {Len(b), blockEnd(s.pos)}
      /\ s.pos < blockEnd(s.pos) /\ blockEnd(s.pos) % BlockSize = 0
      /\ (s.pos % BlockSize = 0 => blockEnd(s.pos) = s.pos + BlockSize)
  BY <1>1, EndType, InBlock
<1>3. CASE wholeAt(b, s.pos, end)
  <2>1. PICK f \in Fragment :
          /\ f = b[s.pos + 1][1]
          /\ s.pos + HeaderSize + f.len \in Nat
          /\ s.pos + HeaderSize + f.len <= end
          /\ \A i \in 1 .. HeaderSize + f.len : b[s.pos + i] = <<f, i>>
    BY <1>1, <1>2, <1>3, WholeType
  <2>2. PICK q \in Nat : q = s.pos + HeaderSize + f.len /\ q <= Len(b)
    BY <1>1, <1>2, <2>1
  <2>3. readFragment(s, f) \in State
    BY ReadFragmentType
  <2>4. readNext(b, s) = [readFragment(s, f) EXCEPT !.pos = s.pos + HeaderSize + f.len]
    BY <1>3, <2>1, Round
  <2> HIDE DEF end
  <2>5. /\ readNext(b, s).pos = q /\ readNext(b, s).out = readFragment(s, f).out
        /\ readNext(b, s).scratch = readFragment(s, f).scratch
    BY <2>2, <2>3, <2>4 DEF State
  <2>6. /\ WholeOut(b, q, readFragment(s, f).out)
        /\ InScratch(b, q, readFragment(s, f).scratch, readFragment(s, f).out)
    BY <2>1, <2>2, ReadWholeFragment
  <2> QED
    BY <2>2, <2>5, <2>6 DEF ReadWhole
<1>4. CASE ~wholeAt(b, s.pos, end) /\ end = Len(b)
  BY <1>4, Round
<1>5. CASE ~wholeAt(b, s.pos, end) /\ end # Len(b)
  <2>1. /\ readNext(b, s).pos = end /\ readNext(b, s).out = s.out
        /\ readNext(b, s).scratch = IF end - s.pos < HeaderSize THEN s.scratch ELSE <<>>
    BY <1>5, Skips
  <2>2. s.pos <= end /\ end = blockEnd(s.pos)
    BY <1>1, <1>2, <1>5
  <2> HIDE DEF end
  <2>3. /\ WholeOut(b, s.pos, s.out) /\ InScratch(b, s.pos, s.scratch, s.out)
    BY DEF ReadWhole
  <2>4. WholeOut(b, end, s.out) /\ \A rec : Seen(b, s.pos, rec) => Seen(b, end, rec)
    BY <1>1, <1>2, <2>2, <2>3, OutMore
  <2>5. InScratch(b, end, readNext(b, s).scratch, s.out)
    <3> SUFFICES ASSUME end - s.pos < HeaderSize, s.scratch # <<>>
                 PROVE  InScratch(b, end, s.scratch, s.out)
      BY <2>1 DEF InScratch
    <3>1. PICK e \in 1 .. s.pos :
            /\ EndsAt(b, s.scratch[Len(s.scratch)], e)
            /\ (e = s.pos \/ s.pos % BlockSize = 0)
      BY <2>3 DEF InScratch, JustRead
    <3>2. e = s.pos
      BY <1>1, <1>2, <2>2, <3>1, Sizes1
    <3>3. e \in 1 .. end /\ end - e < HeaderSize /\ end % BlockSize = 0
      BY <1>1, <1>2, <2>2, <3>2
    <3>4. JustRead(b, end, s.scratch[Len(s.scratch)])
      BY <3>1, <3>3 DEF JustRead
    <3> QED
      BY <2>3, <2>4, <3>4 DEF InScratch
  <2> QED
    BY <1>2, <2>1, <2>4, <2>5 DEF ReadWhole
<1> QED
  BY <1>3, <1>4, <1>5

\* Of what a writer leaves the reader reads whole records.
LEMMA ReadsWhole ==
  ASSUME NEW b \in Bytes, Written(b)
  PROVE  ReadWhole(b, reading(b))
<1> DEFINE T == {s \in State : ReadWhole(b, s)}
<1>1. nothingRead \in T
  <2>1. nothingRead \in State
    BY Rounds
  <2>2. ReadWhole(b, nothingRead)
    BY Rounds DEF nothingRead, ReadWhole, WholeOut, InScratch
  <2> QED
    BY <2>1, <2>2
<1>2. ASSUME NEW s \in T
      PROVE  readNext(b, s) \in T
  BY ReadWholeNext, ReadNextType
<1>3. reading(b) \in T
  <2> HIDE DEF T
  <2> QED
    BY <1>1, <1>2, ReadInduction
<1> QED
  BY <1>3

-----------------------------------------------------------------------------
(* The bytes a writer leaves, with some lost at the end or more appended *)

\* Where a fragment ends shows in the bytes before.
LEMMA EndsSame ==
  ASSUME NEW b \in Bytes, NEW c \in Bytes, Starts(b, c), NEW f \in Fragment,
         NEW e \in 1 .. Len(b)
  PROVE  EndsAt(b, f, e) <=> EndsAt(c, f, e)
<1>1. PICK n \in Nat : n = HeaderSize + f.len
  <2>1. f.len \in Nat /\ HeaderSize \in Nat
    BY FragmentType, Sizes1
  <2> QED
    BY <2>1
<1>2. Len(b) \in Nat /\ \A k \in 1 .. Len(b) : c[k] = b[k]
  BY DEF Bytes, Starts
<1>3. ASSUME n <= e
      PROVE  \A i \in 1 .. n : c[e - n + i] = b[e - n + i]
  <2>1. \A i \in 1 .. n : e - n + i \in 1 .. Len(b)
    BY <1>2, <1>3
  <2> QED
    BY <1>2, <2>1
<1>4. EndsAt(b, f, e) <=> n <= e /\ \A i \in 1 .. n : b[e - n + i] = <<f, i>>
  BY <1>1 DEF EndsAt
<1>5. EndsAt(c, f, e) <=> n <= e /\ \A i \in 1 .. n : c[e - n + i] = <<f, i>>
  BY <1>1 DEF EndsAt
<1> QED
  BY <1>3, <1>4, <1>5

\* What is left when bytes are lost at the end.
LEMMA WrittenPrefix ==
  ASSUME NEW b \in Bytes, NEW c \in Bytes, Starts(b, c), Written(c)
  PROVE  Written(b)
<1>1. /\ Len(b) \in Nat /\ Len(c) \in Nat /\ Len(b) <= Len(c)
      /\ \A k \in 1 .. Len(b) : c[k] = b[k] /\ k \in 1 .. Len(c)
  BY DEF Bytes, Starts
<1>2. \A k \in 1 .. Len(b) : b[k] # zero => Legal(b[k][1])
  BY <1>1 DEF Written
<1>3. \A j, k \in 1 .. Len(b) :
       j < k /\ b[k][2] = 1 /\ b[k][1].type \in {"full", "first"} =>
         b[j][1].rec < b[k][1].rec
  BY <1>1 DEF Written
<1>4. ASSUME NEW k \in 1 .. Len(b), b[k][2] = 1, b[k][1].type \in {"middle", "last"}
      PROVE  \E e \in 1 .. k - 1 :
                /\ Precedes(b[e][1], b[k][1].rec, b[k][1].from)
                /\ EndsAt(b, b[e][1], e)
                /\ \A j \in e + 1 .. k - 1 : b[j] = zero
  <2>1. k \in 1 .. Len(c) /\ c[k] = b[k]
    BY <1>1
  <2>2. PICK e \in 1 .. k - 1 :
           /\ Precedes(c[e][1], c[k][1].rec, c[k][1].from)
           /\ EndsAt(c, c[e][1], e)
           /\ \A j \in e + 1 .. k - 1 : c[j] = zero
    BY <1>4, <2>1 DEF Written
  <2>3. e \in 1 .. Len(b) /\ e + 1 .. k - 1 \subseteq 1 .. Len(b)
    BY <1>1
  <2>4. c[e] = b[e] /\ \A j \in e + 1 .. k - 1 : c[j] = b[j]
    BY <1>1, <2>3
  <2>5. b[e][1] \in Fragment
    <3>1. b[e][1].type # "zero"
      BY <2>2, <2>4 DEF Precedes
    <3> QED
      BY <2>3, <3>1, ByteType
  <2>6. EndsAt(b, b[e][1], e)
    BY <2>2, <2>3, <2>4, <2>5, EndsSame
  <2> QED
    BY <2>1, <2>2, <2>4, <2>6
<1> QED
  BY <1>2, <1>3, <1>4 DEF Written

\* The byte at k: of b, of the trailer or of f.
LEMMA AppendedByte ==
  ASSUME NEW b \in Bytes, NEW c \in Bytes, NEW at, NEW f, Appended(b, c, at, f),
         NEW k \in 1 .. Len(c)
  PROVE  \/ k \in 1 .. Len(b) /\ c[k] = b[k]
         \/ k \in Len(b) + 1 .. at /\ c[k] = zero
         \/ k \in at + 1 .. Len(c) /\ c[k] = <<f, k - at>>
<1>1. /\ Len(b) \in Nat /\ Len(c) \in Nat /\ at \in Nat /\ Len(b) <= at
      /\ \A i \in 1 .. Len(b) : c[i] = b[i]
  BY DEF Bytes, Appended, Starts
<1>2. PICK n \in Nat : n = HeaderSize + f.len /\ Len(c) = at + n
  <2>1. f.len \in Nat /\ HeaderSize \in Nat /\ Len(c) = at + HeaderSize + f.len
    BY FragmentType, Sizes1 DEF Appended
  <2> QED
    BY <1>1, <2>1
<1>3. CASE k \in 1 .. Len(b)
  BY <1>1, <1>3
<1>4. CASE k \in Len(b) + 1 .. at
  BY <1>4 DEF Appended
<1>5. CASE k \in at + 1 .. Len(c)
  <2>1. k - at \in 1 .. n /\ at + (k - at) = k
    BY <1>1, <1>2, <1>5
  <2>2. \A i \in 1 .. n : c[at + i] = <<f, i>>
    BY <1>2 DEF Appended
  <2>3. c[at + (k - at)] = <<f, k - at>>
    BY <2>1, <2>2
  <2> QED
    BY <1>5, <2>1, <2>3
<1> QED
  BY <1>1, <1>3, <1>4, <1>5

\* A fragment more, of a new record or after its predecessor.
LEMMA WrittenMore ==
  ASSUME NEW b \in Bytes, NEW c \in Bytes, NEW at, NEW f, Appended(b, c, at, f),
         Written(b), Legal(f),
         f.type \in {"full", "first"} => \A k \in 1 .. Len(b) : b[k][1].rec < f.rec,
         f.type \in {"middle", "last"} =>
           /\ Len(b) \in 1 .. Len(b)
           /\ Precedes(b[Len(b)][1], f.rec, f.from) /\ EndsAt(b, b[Len(b)][1], Len(b))
  PROVE  Written(c)
<1>1. /\ Len(b) \in Nat /\ Len(c) \in Nat /\ at \in Nat /\ Len(b) <= at
      /\ Starts(b, c) /\ f \in Fragment /\ f.rec \in Nat \ {0} /\ f.type # "zero"
      /\ \A i \in 1 .. Len(b) : c[i] = b[i]
  BY FragmentType DEF Bytes, Appended, Starts
<1>2. zero[2] = 1 /\ zero[1].rec = 0 /\ zero[1].type = "zero"
  BY DEF zero, fragment
<1>3. \A k \in 1 .. Len(c) : c[k] # zero => Legal(c[k][1])
  <2> SUFFICES ASSUME NEW k \in 1 .. Len(c), c[k] # zero PROVE Legal(c[k][1])
    OBVIOUS
  <2>1. CASE k \in 1 .. Len(b) /\ c[k] = b[k]
    BY <2>1 DEF Written
  <2>2. CASE c[k] = <<f, k - at>>
    BY <2>2
  <2> QED
    BY <2>1, <2>2, AppendedByte
<1>4. ASSUME NEW j \in 1 .. Len(c), NEW k \in 1 .. Len(c), j < k, c[k][2] = 1,
             c[k][1].type \in {"full", "first"}
      PROVE  c[j][1].rec < c[k][1].rec
  <2>1. CASE k \in 1 .. Len(b)
    <3>1. j \in 1 .. Len(b) /\ c[j] = b[j] /\ c[k] = b[k]
      BY <1>1, <1>4, <2>1
    <3> QED
      BY <1>4, <2>1, <3>1 DEF Written
  <2>2. CASE k \notin 1 .. Len(b)
    <3>1. k \in at + 1 .. Len(c) /\ c[k] = <<f, k - at>>
      BY <1>2, <1>4, <2>2, AppendedByte
    <3>2. k - at = 1 /\ c[k][1] = f
      BY <1>4, <3>1
    <3>3. j \notin at + 1 .. Len(c)
      BY <1>1, <1>4, <3>1, <3>2
    <3>4. CASE j \in 1 .. Len(b) /\ c[j] = b[j]
      BY <1>4, <3>2, <3>4
    <3>5. CASE c[j] = zero
      BY <1>1, <1>2, <3>2, <3>5
    <3> QED
      BY <3>3, <3>4, <3>5, AppendedByte
  <2> QED
    BY <2>1, <2>2
<1>5. ASSUME NEW k \in 1 .. Len(c), c[k][2] = 1, c[k][1].type \in {"middle", "last"}
      PROVE  \E e \in 1 .. k - 1 :
                /\ Precedes(c[e][1], c[k][1].rec, c[k][1].from)
                /\ EndsAt(c, c[e][1], e)
                /\ \A j \in e + 1 .. k - 1 : c[j] = zero
  <2>1. CASE k \in 1 .. Len(b)
    <3>1. c[k] = b[k]
      BY <1>1, <2>1
    <3>2. PICK e \in 1 .. k - 1 :
             /\ Precedes(b[e][1], b[k][1].rec, b[k][1].from)
             /\ EndsAt(b, b[e][1], e)
             /\ \A j \in e + 1 .. k - 1 : b[j] = zero
      BY <1>5, <2>1, <3>1 DEF Written
    <3>3. e \in 1 .. Len(b) /\ e + 1 .. k - 1 \subseteq 1 .. Len(b)
      BY <1>1, <2>1
    <3>4. c[e] = b[e] /\ \A j \in e + 1 .. k - 1 : c[j] = b[j]
      BY <1>1, <3>3
    <3>5. b[e][1] \in Fragment
      <4>1. b[e][1].type # "zero"
        BY <3>2 DEF Precedes
      <4> QED
        BY <3>3, <4>1, ByteType
    <3>6. EndsAt(c, c[e][1], e)
      BY <1>1, <3>2, <3>3, <3>4, <3>5, EndsSame
    <3> QED
      BY <3>1, <3>2, <3>4, <3>6
  <2>2. CASE k \notin 1 .. Len(b)
    <3>1. k \in at + 1 .. Len(c) /\ c[k] = <<f, k - at>>
      BY <1>2, <1>5, <2>2, AppendedByte
    <3>2. k - at = 1 /\ c[k][1] = f
      BY <1>5, <3>1
    <3>3. k - 1 = at
      BY <1>1, <3>1, <3>2
    <3>4. PICK e \in 1 .. Len(b) :
            /\ e = Len(b) /\ Precedes(b[e][1], f.rec, f.from) /\ EndsAt(b, b[e][1], e)
      BY <1>5, <3>2
    <3>5. e \in 1 .. k - 1 /\ c[e] = b[e]
      BY <1>1, <3>3, <3>4
    <3>6. \A j \in e + 1 .. k - 1 : c[j] = zero
      BY <3>3, <3>4 DEF Appended
    <3>7. b[e][1] \in Fragment
      <4>1. b[e][1].type # "zero"
        BY <3>4 DEF Precedes
      <4> QED
        BY <4>1, ByteType
    <3>8. EndsAt(c, c[e][1], e)
      BY <1>1, <3>4, <3>5, <3>7, EndsSame
    <3> QED
      BY <3>2, <3>4, <3>5, <3>6, <3>8
  <2> QED
    BY <2>1, <2>2
<1> QED
  BY <1>3, <1>4, <1>5 DEF Written

\* What the reader makes of the fragment, if it gets there.
LEMMA AppendRead ==
  ASSUME NEW b \in Bytes, NEW c \in Bytes, NEW at, NEW f, Extends(b, c, at, f),
         at % BlockSize = 0 \/ reading(b).pos = Len(b),
         \/ f.type \in {"full", "first"}
         \/ /\ reading(b).pos = Len(b) /\ reading(b).scratch # <<>>
            /\ reading(b).scratch[1].rec = f.rec
  PROVE  /\ reading(c).pos = Len(c)
         /\ f.type \in {"first", "middle"} =>
              /\ reading(c).out = reading(b).out /\ reading(c).scratch # <<>>
              /\ reading(c).scratch[1].rec = f.rec
         /\ f.type \in {"full", "last"} =>
              \E r \in Seq(Fragment) :
                reading(c).out = Append(reading(b).out, r) /\ r[1].rec = f.rec
<1>1. PICK s \in State :
           /\ s.out = reading(b).out
           /\ reading(b).pos = Len(b) => s.scratch = reading(b).scratch
           /\ reading(c).pos = Len(c)
           /\ reading(c).out = readFragment(s, f).out
           /\ reading(c).scratch = readFragment(s, f).scratch
  BY ReadsAppended
<1>2. f \in Fragment /\ f.type \in {"full", "first", "middle", "last"}
  BY FragmentType DEF Extends, Appended
<1>3. s.scratch \in Seq(Fragment) /\ <<f>> \in Seq(Fragment) /\ <<f>>[1] = f /\ <<f>> # <<>>
  BY <1>2 DEF State
<1>4. CASE f.type = "full"
  <2>1. readFragment(s, f).out = Append(s.out, <<f>>)
    BY <1>4 DEF readFragment, State
  <2> QED
    BY <1>1, <1>3, <1>4, <2>1
<1>5. CASE f.type = "first"
  <2>1. readFragment(s, f).out = s.out /\ readFragment(s, f).scratch = <<f>>
    BY <1>5 DEF readFragment, State
  <2> QED
    BY <1>1, <1>3, <1>5, <2>1
<1>6. f.type \in {"middle", "last"} =>
        /\ s.scratch # <<>> /\ s.scratch[1].rec = f.rec
        /\ Append(s.scratch, f) \in Seq(Fragment) /\ Append(s.scratch, f) # <<>>
        /\ Append(s.scratch, f)[1] = s.scratch[1]
  <2> SUFFICES ASSUME f.type \in {"middle", "last"}
               PROVE  /\ s.scratch # <<>> /\ s.scratch[1].rec = f.rec
                      /\ Append(s.scratch, f) \in Seq(Fragment)
                      /\ Append(s.scratch, f) # <<>>
                      /\ Append(s.scratch, f)[1] = s.scratch[1]
    OBVIOUS
  <2>1. s.scratch = reading(b).scratch /\ s.scratch # <<>> /\ s.scratch[1].rec = f.rec
    BY <1>1
  <2>2. PICK r \in Seq(Fragment) : r = s.scratch /\ r # <<>>
    BY <1>3, <2>1
  <2>3. Append(r, f) \in Seq(Fragment)
    BY <1>2
  <2>4. Len(r) \in Nat /\ Len(r) >= 1 /\ Len(Append(r, f)) = Len(r) + 1
    BY <1>2, <2>2
  <2>5. Append(r, f)[1] = r[1] /\ Append(r, f) # <<>>
    BY <2>3, <2>4
  <2> QED
    BY <2>1, <2>2, <2>3, <2>5
<1>7. CASE f.type = "middle"
  <2>1. readFragment(s, f).out = s.out /\ readFragment(s, f).scratch = Append(s.scratch, f)
    BY <1>6, <1>7 DEF readFragment, State
  <2> QED
    BY <1>1, <1>6, <1>7, <2>1
<1>8. CASE f.type = "last"
  <2>1. readFragment(s, f).out = Append(s.out, Append(s.scratch, f))
    BY <1>6, <1>8 DEF readFragment, State
  <2> QED
    BY <1>1, <1>6, <1>8, <2>1
<1> QED
  BY <1>1, <1>2, <1>4, <1>5, <1>7, <1>8

-----------------------------------------------------------------------------
(* The inductive invariant *)

TypeOK ==
  /\ file \in Bytes /\ buf \in Bytes
  /\ onDisk \in 0 .. Len(file) /\ block_offset \in 0 .. BlockSize
  /\ records \in Nat /\ astray \in BOOLEAN /\ down \in BOOLEAN
  /\ crashes \in Nat /\ failures \in Nat
  /\ adding \in [rec : Nat, size : Nat, sent : Nat, begin : BOOLEAN,
                 flushing : BOOLEAN, block : Int]
  /\ down => buf = <<>> /\ crashes >= 1

\* AddRecord is at work on the last record, and goes on until all is sent.
AddingOK ==
  adding # Nothing =>
    /\ ~down /\ adding.rec = records /\ records >= 1
    /\ adding.size >= 1 /\ adding.sent <= adding.size
    /\ adding.begin => adding.sent = 0 /\ ~adding.flushing
    /\ ~adding.flushing => adding.sent < adding.size

\* Nothing of a later record has been written; of a record that has been begun
\* the bytes end in the last fragment, which the next one continues.
InBytes ==
  /\ \A k \in 1 .. Len(flushed) : flushed[k][1].rec <= records
  /\ adding # Nothing /\ adding.begin =>
       \A k \in 1 .. Len(flushed) : flushed[k][1].rec < records
  /\ ~adding.begin =>
       LET g == flushed[Len(flushed)][1]
       IN  /\ Len(flushed) \in 1 .. Len(flushed) /\ EndsAt(flushed, g, Len(flushed))
           /\ adding.sent < adding.size => Precedes(g, adding.rec, adding.sent)

\* The writer knows where in a block it is.
Placed ==
  ~astray /\ ~down => \E q \in Nat : Len(flushed) = BlockSize * q + block_offset

\* It is noted when the reader drops the block that is written to.
TornOK ==
  ~astray /\ ~down /\ endsTorn(flushed) => Len(flushed) \div BlockSize \in torn

\* The reader follows the writer of a record it owes.
InProgress ==
  ~adding.begin /\ ~astray /\ adding.block \notin torn =>
    /\ reading(flushed).pos = Len(flushed)
    /\ IF adding.sent < adding.size
       THEN reading(flushed).scratch # <<>> /\ reading(flushed).scratch[1].rec = adding.rec
       ELSE adding.rec \in Read(flushed)

Promised == kept \subseteq Read(file) /\ synced \subseteq Read(SubSeq(file, 1, onDisk))

\* A log that was not reused, and whose writes did not fail, holds the records
\* from the first on, all of them until the process stops.
Clean ==
  failures = 0 /\ crashes = (IF down THEN 1 ELSE 0) =>
   /\ \A i \in 1 .. Len(recordsIn(flushed)) : recordsIn(flushed)[i][1].rec = i
   /\ ~down =>
        /\ ~astray /\ torn = {} /\ reading(flushed).pos = Len(flushed)
        /\ Len(recordsIn(flushed)) = IF adding # Nothing /\ adding.sent < adding.size
                                     THEN records - 1 ELSE records

IInv ==
  /\ TypeOK /\ AddingOK /\ Written(flushed) /\ InBytes
  /\ Placed /\ TornOK /\ InProgress /\ Promised /\ Clean

-----------------------------------------------------------------------------
(* The steps *)

\* The first n bytes.
LEMMA FirstBytes ==
  ASSUME NEW b \in Seq(Byte), NEW n \in 0 .. Len(b)
  PROVE  /\ SubSeq(b, 1, n) \in Seq(Byte) /\ Len(SubSeq(b, 1, n)) = n
         /\ \A i \in 1 .. n : SubSeq(b, 1, n)[i] = b[i]
<1>1. Len(b) \in Nat /\ n \in Nat /\ n <= Len(b)
  OBVIOUS
<1> QED
  BY <1>1

\* Every byte has a record number.
LEMMA RecType ==
  ASSUME NEW b \in Bytes, NEW k \in 1 .. Len(b)
  PROVE  b[k][1].rec \in Nat
<1>1. zero[1].rec = 0
  BY DEF zero, fragment
<1>2. b[k][1] \in Fragment \/ b[k][1] = zero[1]
  BY ByteType
<1> QED
  BY <1>1, <1>2, FragmentType

\* The types of what the reader returns.
LEMMA ReadingType ==
  ASSUME NEW b \in Bytes
  PROVE  /\ Len(b) \in Nat /\ reading(b).pos \in Nat /\ reading(b).pos <= Len(b)
         /\ recordsIn(b) \in Seq(Seq(Fragment)) /\ recordsIn(b) = reading(b).out
         /\ Len(recordsIn(b)) \in Nat
         /\ Starts(b, b)
<1>1. reading(b) \in State /\ Len(b) \in Nat /\ reading(b).pos <= Len(b)
  BY Rounds, ReaderStops
<1>2. recordsIn(b) \in Seq(Seq(Fragment)) /\ reading(b).pos \in Nat
  BY <1>1 DEF State, recordsIn
<1> QED
  BY <1>1, <1>2 DEF recordsIn, Starts

\* The types of the file with the buffer.
LEMMA FlushedType ==
  ASSUME TypeOK
  PROVE  /\ flushed \in Bytes /\ Len(flushed) = Len(file) + Len(buf)
         /\ Starts(file, flushed) /\ Len(file) \in Nat /\ Len(buf) \in Nat
         /\ buf = <<>> => flushed = file
BY StartsParts DEF TypeOK, flushed, Bytes

\* An empty log has no records.
LEMMA Empty ==
  ASSUME NEW b \in Bytes, b = <<>>
  PROVE  reading(b) = nothingRead /\ Len(b) = 0 /\ recordsIn(b) = <<>>
<1>1. Len(b) = 0
  OBVIOUS
<1>2. reading(b) = nothingRead
  BY <1>1, Rounds
<1> QED
  BY <1>1, <1>2 DEF recordsIn, nothingRead

\* A new log satisfies the invariant.
LEMMA InitInv == Init => IInv
<1> SUFFICES ASSUME Init PROVE IInv
  OBVIOUS
<1>1. file = <<>> /\ buf = <<>> /\ adding = Nothing /\ kept = {} /\ synced = {}
      /\ records = 0 /\ astray = FALSE /\ torn = {} /\ down = FALSE /\ block_offset = 0
      /\ onDisk = 0 /\ crashes = 0 /\ failures = 0
  BY DEF Init
<1>2. <<>> \in Bytes /\ Len(<<>>) = 0
  BY DEF Bytes
<1>3. flushed = <<>> /\ flushed \in Bytes /\ Len(flushed) = 0
  BY <1>1, <1>2 DEF flushed
<1>4. reading(flushed) = nothingRead /\ recordsIn(flushed) = <<>>
  BY <1>3, Empty
<1>5. reading(flushed).pos = 0 /\ Len(recordsIn(flushed)) = 0
  BY <1>4 DEF nothingRead
<1>6. adding.begin /\ adding.sent = 0
  BY <1>1 DEF Nothing
<1>7. TypeOK
  <2>1. file \in Bytes /\ buf \in Bytes /\ onDisk \in 0 .. Len(file)
    BY <1>1, <1>2
  <2>2. block_offset \in 0 .. BlockSize
    BY <1>1, Sizes1
  <2>3. adding \in [rec : Nat, size : Nat, sent : Nat, begin : BOOLEAN,
                    flushing : BOOLEAN, block : Int]
    BY <1>1 DEF Nothing
  <2> QED
    BY <1>1, <2>1, <2>2, <2>3 DEF TypeOK
<1>8. AddingOK
  BY <1>1 DEF AddingOK
<1>9. Written(flushed)
  BY <1>3 DEF Written
<1>10. InBytes
  BY <1>1, <1>3, <1>6 DEF InBytes
<1>11. Placed
  <2>1. Len(flushed) = BlockSize * 0 + block_offset
    BY <1>1, <1>3, Sizes1
  <2> QED
    BY <2>1 DEF Placed
<1>12. TornOK
  BY <1>3, <1>5 DEF TornOK, endsTorn
<1>13. InProgress
  BY <1>6 DEF InProgress
<1>14. Promised
  BY <1>1 DEF Promised
<1>15. Clean
  BY <1>1, <1>3, <1>5 DEF Clean
<1> QED
  BY <1>7, <1>8, <1>9, <1>10, <1>11, <1>12, <1>13, <1>14, <1>15 DEF IInv

\* A record is begun: none of its bytes are there yet.
LEMMA AddRecordInv ==
  ASSUME IInv, NEW size \in Sizes, AddRecord(size)
  PROVE  IInv'
<1>1. /\ adding' = [rec |-> records + 1, size |-> size, sent |-> 0, begin |-> TRUE,
                    flushing |-> FALSE, block |-> 0]
      /\ adding = Nothing /\ ~down /\ records' = records + 1
  BY DEF AddRecord, Nothing
<1>2. /\ UNCHANGED <<file, buf, onDisk, block_offset, kept, synced, astray, torn,
                     down, crashes, failures>>
      /\ flushed' = flushed
  BY DEF AddRecord, flushed
<1>3. records \in Nat /\ size \in Nat \ {0}
  BY LogAssumption DEF IInv, TypeOK
<1>4. PICK W \in Bytes : W = flushed
  BY FlushedType DEF IInv
<1>5. \A k \in 1 .. Len(W) : W[k][1].rec \in Nat
  BY RecType
<1>6. adding.begin /\ adding.sent = adding.size
  BY <1>1 DEF Nothing
<1>7. TypeOK'
  BY <1>1, <1>2, <1>3 DEF IInv, TypeOK
<1>8. AddingOK'
  BY <1>1, <1>2, <1>3 DEF AddingOK
<1>9. Written(flushed)'
  BY <1>2 DEF IInv
<1>10. InBytes'
  <2>1. \A k \in 1 .. Len(W) : W[k][1].rec <= records
    BY <1>4 DEF IInv, InBytes
  <2>2. \A k \in 1 .. Len(W) : W[k][1].rec < records + 1
    BY <1>3, <1>5, <2>1
  <2> QED
    BY <1>1, <1>2, <1>3, <1>4, <1>5, <2>2 DEF InBytes
<1>11. Placed'
  BY <1>2 DEF IInv, Placed
<1>12. TornOK'
  BY <1>2 DEF IInv, TornOK
<1>13. InProgress'
  BY <1>1 DEF InProgress
<1>14. Promised'
  BY <1>2 DEF IInv, Promised
<1>15. Clean'
  <2>1. adding'.sent < adding'.size /\ adding' # Nothing /\ records' - 1 = records
    BY <1>1, <1>3 DEF Nothing
  <2> QED
    BY <1>1, <1>2, <2>1 DEF IInv, Clean
<1> QED
  BY <1>7, <1>8, <1>9, <1>10, <1>11, <1>12, <1>13, <1>14, <1>15 DEF IInv

\* What was flushed is the same bytes, now in the file.
LEMMA FlushInv ==
  ASSUME IInv, Flush
  PROVE  IInv'
<1>1. /\ file' = flushed /\ buf' = <<>> /\ adding.flushing
      /\ UNCHANGED <<onDisk, block_offset, records, synced, astray, torn, down,
                     crashes, failures>>
  BY DEF Flush
<1>2. /\ flushed \in Bytes /\ Len(flushed) = Len(file) + Len(buf)
      /\ Starts(file, flushed) /\ Len(file) \in Nat /\ Len(buf) \in Nat
  BY FlushedType DEF IInv
<1>3. flushed' = flushed
  BY <1>1, <1>2 DEF flushed, Bytes
<1>4. \/ adding.sent = adding.size /\ adding' = Nothing /\ kept' = kept \cup owed
      \/ /\ adding.sent # adding.size /\ kept' = kept
         /\ adding' = [adding EXCEPT !.flushing = FALSE]
  BY DEF Flush
<1>5. /\ adding # Nothing /\ ~adding.begin /\ ~down
      /\ adding.sent \in Nat /\ adding.size \in Nat /\ adding.sent <= adding.size
      /\ adding.rec = records
  <2>1. adding # Nothing
    BY <1>1 DEF Nothing
  <2> QED
    BY <1>1, <2>1 DEF IInv, TypeOK, AddingOK
<1>6. Nothing.begin /\ Nothing.sent = Nothing.size
  BY DEF Nothing
<1>7. adding.sent # adding.size =>
        /\ adding'.sent = adding.sent /\ adding'.size = adding.size
        /\ adding'.rec = adding.rec /\ adding'.begin = adding.begin
        /\ adding'.block = adding.block /\ adding'.flushing = FALSE
        /\ adding' # Nothing
  <2> SUFFICES ASSUME adding.sent # adding.size
               PROVE  /\ adding'.sent = adding.sent /\ adding'.size = adding.size
                      /\ adding'.rec = adding.rec /\ adding'.begin = adding.begin
                      /\ adding'.block = adding.block /\ adding'.flushing = FALSE
                      /\ adding' # Nothing
    OBVIOUS
  <2>1. /\ adding'.sent = adding.sent /\ adding'.size = adding.size
        /\ adding'.rec = adding.rec /\ adding'.begin = adding.begin
        /\ adding'.block = adding.block /\ adding'.flushing = FALSE
    BY <1>4 DEF IInv, TypeOK
  <2> QED
    BY <1>5, <1>6, <2>1
<1>8. TypeOK'
  <2>1. adding' \in [rec : Nat, size : Nat, sent : Nat, begin : BOOLEAN,
                     flushing : BOOLEAN, block : Int]
    <3>1. CASE adding' = Nothing
      BY <3>1 DEF Nothing
    <3>2. CASE adding' = [adding EXCEPT !.flushing = FALSE]
      BY <3>2 DEF IInv, TypeOK
    <3> QED
      BY <1>4, <3>1, <3>2
  <2>2. buf' \in Bytes /\ file' \in Bytes
    BY <1>1, <1>2 DEF Bytes
  <2>3. onDisk' \in 0 .. Len(file')
    BY <1>1, <1>2 DEF IInv, TypeOK
  <2> QED
    BY <1>1, <2>1, <2>2, <2>3 DEF IInv, TypeOK
<1>9. AddingOK'
  BY <1>1, <1>4, <1>5, <1>7 DEF IInv, AddingOK
<1>10. Written(flushed)'
  BY <1>3 DEF IInv
<1>11. InBytes'
  BY <1>1, <1>3, <1>4, <1>5, <1>6, <1>7 DEF IInv, InBytes
<1>12. Placed'
  BY <1>1, <1>3 DEF IInv, Placed
<1>13. TornOK'
  BY <1>1, <1>3 DEF IInv, TornOK
<1>14. InProgress'
  BY <1>1, <1>3, <1>4, <1>5, <1>6, <1>7 DEF IInv, InProgress
<1>15. Promised'
  <2>1. kept \subseteq Read(flushed)
    BY <1>2, RecordsStay DEF IInv, TypeOK, Promised
  <2>2. adding.sent = adding.size => owed \subseteq Read(flushed)
    BY <1>5 DEF IInv, InProgress, owed
  <2>3. kept' \subseteq Read(flushed)
    BY <1>4, <2>1, <2>2
  <2>4. SubSeq(file', 1, onDisk') = SubSeq(file, 1, onDisk)
    <3>1. /\ onDisk \in 0 .. Len(file) /\ onDisk \in 0 .. Len(flushed)
          /\ file \in Seq(Byte) /\ flushed \in Seq(Byte)
      BY <1>2 DEF IInv, TypeOK, Bytes
    <3>2. \A i \in 1 .. onDisk : flushed[i] = file[i]
      BY <1>2, <3>1 DEF Starts
    <3> QED
      BY <1>1, <3>1, <3>2
  <2> QED
    BY <1>1, <2>3, <2>4 DEF IInv, Promised
<1>16. Clean'
  BY <1>1, <1>3, <1>4, <1>5, <1>6, <1>7 DEF IInv, Clean
<1> QED
  BY <1>8, <1>9, <1>10, <1>11, <1>12, <1>13, <1>14, <1>15, <1>16 DEF IInv

\* A sync takes what is kept to the disk.
LEMMA SyncInv ==
  ASSUME IInv, Sync
  PROVE  IInv'
<1>1. /\ file' = flushed /\ buf' = <<>> /\ onDisk' = Len(flushed) /\ synced' = kept
      /\ ~down
      /\ UNCHANGED <<block_offset, adding, records, kept, astray, torn, down,
                     crashes, failures>>
  BY DEF Sync
<1>2. /\ flushed \in Bytes /\ Len(flushed) \in Nat /\ Starts(file, flushed)
  BY FlushedType DEF IInv, Bytes
<1>3. flushed' = flushed
  BY <1>1, <1>2 DEF flushed, Bytes
<1>4. TypeOK'
  <2>1. buf' \in Bytes /\ file' \in Bytes /\ onDisk' \in 0 .. Len(file')
    BY <1>1, <1>2 DEF Bytes
  <2> QED
    BY <1>1, <2>1 DEF IInv, TypeOK
<1>5. AddingOK' /\ InBytes' /\ Written(flushed)'
  BY <1>1, <1>3 DEF IInv, AddingOK, InBytes
<1>6. Placed' /\ TornOK' /\ InProgress'
  BY <1>1, <1>3 DEF IInv, Placed, TornOK, InProgress
<1>7. Promised'
  <2>1. kept \subseteq Read(flushed)
    BY <1>2, RecordsStay DEF IInv, TypeOK, Promised
  <2>2. SubSeq(flushed, 1, Len(flushed)) = flushed
    BY <1>2 DEF Bytes
  <2> QED
    BY <1>1, <2>1, <2>2 DEF Promised
<1>8. Clean'
  BY <1>1, <1>3 DEF IInv, Clean
<1> QED
  BY <1>4, <1>5, <1>6, <1>7, <1>8 DEF IInv

\* What an action that loses bytes at the end leaves.
LEMMA Lost ==
  ASSUME IInv, NEW b \in Bytes, Starts(b, flushed), adding' = Nothing,
         records' = records, flushed' = b
  PROVE  AddingOK' /\ Written(flushed)' /\ InBytes' /\ InProgress'
<1>1. Nothing.begin
  BY DEF Nothing
<1>2. flushed \in Bytes /\ Len(flushed) \in Nat /\ Len(b) \in Nat
  BY FlushedType DEF IInv, Bytes
<1>3. Written(b)
  BY <1>2, WrittenPrefix DEF IInv
<1>4. \A k \in 1 .. Len(b) : b[k] = flushed[k] /\ k \in 1 .. Len(flushed)
  BY <1>2 DEF Starts
<1>5. \A k \in 1 .. Len(b) : b[k][1].rec <= records
  BY <1>4 DEF IInv, InBytes
<1>6. InBytes'
  BY <1>1, <1>5 DEF InBytes
<1> QED
  BY <1>1, <1>3, <1>6 DEF AddingOK, InProgress

\* A failed write leaves a beginning of the bytes, or has block_offset_ astray.
LEMMA FailFlushInv ==
  ASSUME IInv, FailFlush
  PROVE  IInv'
<1>1. PICK n \in 0 .. Len(buf) : \E m \in n .. Len(buf) :
        /\ file' = file \o SubSeq(buf, 1, n)
        /\ buf' = SubSeq(buf, n + 1, m)
        /\ astray' = (astray \/ m < Len(buf))
  BY DEF FailFlush
<1>2. PICK m \in n .. Len(buf) :
        /\ file' = file \o SubSeq(buf, 1, n)
        /\ buf' = SubSeq(buf, n + 1, m)
        /\ astray' = (astray \/ m < Len(buf))
  BY <1>1
<1>3. /\ adding.flushing /\ adding' = Nothing /\ failures' = failures + 1
      /\ UNCHANGED <<onDisk, block_offset, records, kept, synced, torn, down, crashes>>
  BY DEF FailFlush
<1>4. /\ flushed \in Bytes /\ Len(flushed) = Len(file) + Len(buf)
      /\ Len(file) \in Nat /\ Len(buf) \in Nat
      /\ file \in Seq(Byte) /\ buf \in Seq(Byte)
  BY FlushedType DEF IInv, TypeOK, Bytes
<1>5. ~down
  <2>1. adding # Nothing
    BY <1>3 DEF Nothing
  <2> QED
    BY <2>1 DEF IInv, AddingOK
<1>6. /\ file' \in Seq(Byte) /\ Len(file') = Len(file) + n
      /\ \A i \in 1 .. Len(file) : file'[i] = file[i]
      /\ \A i \in 1 .. n : file'[Len(file) + i] = buf[i]
  <2>1. PICK a \in Seq(Byte) : a = SubSeq(buf, 1, n) /\ Len(a) = n
                               /\ \A i \in 1 .. n : a[i] = buf[i]
    <3>1. buf \in Seq(Byte)
      BY <1>4
    <3> QED
      BY <3>1, FirstBytes
  <2> QED
    BY <1>2, <1>4, <2>1
<1>7. /\ buf' \in Seq(Byte) /\ Len(buf') = m - n
      /\ \A i \in 1 .. m - n : buf'[i] = buf[n + i]
  <2>1. n + 1 \in 1 .. Len(buf) + 1 /\ m \in n .. Len(buf)
    BY <1>4
  <2> QED
    BY <1>2, <1>4, <2>1
<1>8. /\ flushed' \in Bytes /\ Len(flushed') = Len(file) + m
      /\ \A i \in 1 .. Len(file) + m : flushed'[i] = flushed[i]
  <2>1. PICK a \in Seq(Byte), d \in Seq(Byte) : a = file' /\ d = buf'
    BY <1>6, <1>7
  <2>2. /\ a \o d \in Seq(Byte) /\ Len(a \o d) = Len(a) + Len(d)
        /\ \A i \in 1 .. Len(a) : (a \o d)[i] = a[i]
        /\ \A i \in 1 .. Len(d) : (a \o d)[Len(a) + i] = d[i]
    OBVIOUS
  <2>3. /\ \A i \in 1 .. Len(file) : flushed[i] = file[i]
        /\ \A i \in 1 .. Len(buf) : flushed[Len(file) + i] = buf[i]
    BY <1>4 DEF flushed
  <2>4. flushed' = a \o d
    BY <2>1 DEF flushed
  <2>5. Len(a) = Len(file) + n /\ Len(d) = m - n /\ Len(a \o d) = Len(file) + m
    BY <1>4, <1>6, <1>7, <2>1, <2>2
  <2>6. ASSUME NEW i \in 1 .. Len(file) + m
        PROVE  (a \o d)[i] = flushed[i]
    <3>1. CASE i \in 1 .. Len(file)
      <4>1. i \in 1 .. Len(a)
        BY <1>4, <2>5, <3>1
      <4> QED
        BY <1>6, <2>1, <2>2, <2>3, <3>1, <4>1
    <3>2. CASE i \in Len(file) + 1 .. Len(file) + n
      <4>1. /\ i \in 1 .. Len(a) /\ i - Len(file) \in 1 .. n
            /\ i - Len(file) \in 1 .. Len(buf) /\ Len(file) + (i - Len(file)) = i
        BY <1>4, <2>5, <3>2
      <4>2. (a \o d)[i] = buf[i - Len(file)]
        BY <1>6, <2>1, <2>2, <4>1
      <4>3. flushed[i] = buf[i - Len(file)]
        BY <2>3, <4>1
      <4> QED
        BY <4>2, <4>3
    <3>3. CASE i \in Len(file) + n + 1 .. Len(file) + m
      <4>1. PICK j \in 1 .. m - n : i = Len(file) + n + j
        <5>1. i - (Len(file) + n) \in 1 .. m - n
              /\ i = Len(file) + n + (i - (Len(file) + n))
          BY <1>4, <3>3
        <5> QED
          BY <5>1
      <4>2. n + j \in 1 .. Len(buf) /\ i = Len(file) + (n + j) /\ i = Len(a) + j
        BY <1>4, <2>5, <4>1
      <4>3. (a \o d)[i] = buf[n + j]
        BY <1>7, <2>1, <2>2, <2>5, <4>1, <4>2
      <4>4. flushed[i] = buf[n + j]
        BY <2>3, <4>2
      <4> QED
        BY <4>3, <4>4
    <3>4. \/ i \in 1 .. Len(file) \/ i \in Len(file) + 1 .. Len(file) + n
          \/ i \in Len(file) + n + 1 .. Len(file) + m
      <4>1. n \in Nat /\ m \in Nat /\ Len(file) \in Nat /\ i \in Nat
            /\ 1 <= i /\ i <= Len(file) + m
        BY <1>4
      <4> QED
        BY <4>1
    <3> QED
      BY <3>1, <3>2, <3>3, <3>4
  <2> QED
    BY <2>2, <2>4, <2>5, <2>6 DEF Bytes
<1>9. Starts(flushed', flushed)
  BY <1>4, <1>8 DEF Starts
<1>10. astray' = FALSE => flushed' = flushed /\ astray = FALSE
  <2> SUFFICES ASSUME astray' = FALSE
               PROVE  flushed' = flushed /\ astray = FALSE
    OBVIOUS
  <2>1. astray = FALSE /\ ~(m < Len(buf))
    BY <1>2 DEF IInv, TypeOK
  <2>2. m = Len(buf)
    BY <1>4, <2>1
  <2>3. /\ Len(flushed') = Len(flushed)
        /\ \A i \in 1 .. Len(flushed) : flushed'[i] = flushed[i]
    BY <1>4, <1>8, <2>2
  <2>4. PICK V \in Seq(Byte), W \in Seq(Byte) : V = flushed' /\ W = flushed
    BY <1>4, <1>8 DEF Bytes
  <2>5. V = W
    BY <2>3, <2>4
  <2> QED
    BY <2>1, <2>4, <2>5
<1>11. astray' \in BOOLEAN
  BY <1>2 DEF IInv, TypeOK
<1>12. TypeOK'
  <2>1. onDisk' \in 0 .. Len(file')
    BY <1>3, <1>4, <1>6 DEF IInv, TypeOK
  <2>2. adding' \in [rec : Nat, size : Nat, sent : Nat, begin : BOOLEAN,
                     flushing : BOOLEAN, block : Int]
    BY <1>3 DEF Nothing
  <2>3. file' \in Bytes /\ buf' \in Bytes
    BY <1>6, <1>7 DEF Bytes
  <2>4. failures' \in Nat
    BY <1>3 DEF IInv, TypeOK
  <2> QED
    BY <1>3, <1>5, <1>11, <2>1, <2>2, <2>3, <2>4 DEF IInv, TypeOK
<1>13. AddingOK' /\ Written(flushed)' /\ InBytes' /\ InProgress'
  BY <1>3, <1>8, <1>9, Lost
<1>14. Placed' /\ TornOK'
  BY <1>3, <1>10, <1>11 DEF IInv, Placed, TornOK
<1>15. Promised'
  <2>1. Starts(file, file')
    BY <1>4, <1>6 DEF Starts
  <2>2. kept \subseteq Read(file')
    BY <1>6, <2>1, RecordsStay DEF IInv, TypeOK, Promised, Bytes
  <2>3. SubSeq(file', 1, onDisk') = SubSeq(file, 1, onDisk)
    <3>1. onDisk \in 0 .. Len(file) /\ onDisk \in 0 .. Len(file')
          /\ \A i \in 1 .. onDisk : file'[i] = file[i]
      BY <1>4, <1>6 DEF IInv, TypeOK
    <3> QED
      BY <1>3, <1>4, <1>6, <3>1
  <2> QED
    BY <1>3, <2>2, <2>3 DEF IInv, Promised
<1>16. Clean'
  BY <1>3 DEF IInv, TypeOK, Clean
<1> QED
  BY <1>12, <1>13, <1>14, <1>15, <1>16 DEF IInv

\* A crash leaves a beginning of the bytes, with what is owed in it.
LEMMA CrashInv ==
  ASSUME IInv, Crash
  PROVE  IInv'
<1>1. PICK n \in 0 .. Len(buf) :
        \/ file' = file \o SubSeq(buf, 1, n) /\ UNCHANGED kept
        \/ \E cut \in onDisk .. Len(file \o SubSeq(buf, 1, n)) :
             file' = SubSeq(file \o SubSeq(buf, 1, n), 1, cut) /\ kept' = synced
  BY DEF Crash
<1>2. /\ ~down /\ down' = TRUE /\ crashes' = crashes + 1
      /\ buf' = <<>> /\ adding' = Nothing
      /\ UNCHANGED <<onDisk, block_offset, records, synced, astray, torn, failures>>
  BY DEF Crash
<1>3. /\ flushed \in Bytes /\ Len(flushed) = Len(file) + Len(buf)
      /\ Len(file) \in Nat /\ Len(buf) \in Nat
      /\ file \in Seq(Byte) /\ buf \in Seq(Byte)
  BY FlushedType DEF IInv, TypeOK, Bytes
<1>4. PICK w \in Seq(Byte) :
        /\ w = file \o SubSeq(buf, 1, n) /\ Len(w) = Len(file) + n
        /\ \A i \in 1 .. Len(file) : w[i] = file[i]
        /\ \A i \in 1 .. Len(w) : flushed[i] = w[i]
  <2>1. PICK a \in Seq(Byte) : a = SubSeq(buf, 1, n) /\ Len(a) = n
                               /\ \A i \in 1 .. n : a[i] = buf[i]
    <3>1. buf \in Seq(Byte)
      BY <1>3
    <3> QED
      BY <3>1, FirstBytes
  <2>2. /\ file \o a \in Seq(Byte) /\ Len(file \o a) = Len(file) + n
        /\ \A i \in 1 .. Len(file) : (file \o a)[i] = file[i]
        /\ \A i \in 1 .. n : (file \o a)[Len(file) + i] = a[i]
    BY <1>3, <2>1
  <2>3. /\ \A i \in 1 .. Len(file) : flushed[i] = file[i]
        /\ \A i \in 1 .. Len(buf) : flushed[Len(file) + i] = buf[i]
    BY <1>3 DEF flushed
  <2>4. ASSUME NEW i \in 1 .. Len(file) + n
        PROVE  flushed[i] = (file \o a)[i]
    <3>1. CASE i \in 1 .. Len(file)
      BY <2>2, <2>3, <3>1
    <3>2. CASE i \notin 1 .. Len(file)
      <4>1. i - Len(file) \in 1 .. n /\ i - Len(file) \in 1 .. Len(buf)
            /\ Len(file) + (i - Len(file)) = i
        BY <1>3, <3>2
      <4>2. (file \o a)[i] = a[i - Len(file)]
        BY <2>2, <4>1
      <4>3. flushed[i] = buf[i - Len(file)]
        BY <2>3, <4>1
      <4> QED
        BY <2>1, <4>1, <4>2, <4>3
    <3> QED
      BY <3>1, <3>2
  <2> QED
    BY <2>1, <2>2, <2>4
<1>5. Starts(file, w) /\ Starts(w, flushed)
  BY <1>3, <1>4 DEF Starts
<1>6. onDisk \in 0 .. Len(file) /\ onDisk \in Nat
  BY <1>3 DEF IInv, TypeOK
<1>7. SubSeq(file, 1, onDisk) \in Bytes
  BY <1>3, <1>6 DEF Bytes
<1>8. /\ file' \in Bytes /\ Starts(file', flushed) /\ onDisk <= Len(file')
      /\ SubSeq(file', 1, onDisk) = SubSeq(file, 1, onDisk)
      /\ Len(file') \in Nat /\ kept' \subseteq Read(file')
  <2>1. CASE file' = w /\ kept' = kept
    <3>1. \A i \in 1 .. onDisk : w[i] = file[i]
      BY <1>3, <1>4, <1>6
    <3>2. onDisk \in 0 .. Len(w) /\ Len(w) \in Nat
      BY <1>3, <1>4, <1>6
    <3>3. SubSeq(w, 1, onDisk) = SubSeq(file, 1, onDisk)
      BY <1>3, <1>4, <1>6, <3>1, <3>2
    <3>4. kept \subseteq Read(w)
      BY <1>3, <1>4, <1>5, RecordsStay DEF IInv, Promised, Bytes
    <3> QED
      BY <1>4, <1>5, <2>1, <3>2, <3>3, <3>4 DEF Bytes
  <2>2. CASE \E cut \in onDisk .. Len(w) : file' = SubSeq(w, 1, cut) /\ kept' = synced
    <3>1. PICK cut \in onDisk .. Len(w) : file' = SubSeq(w, 1, cut) /\ kept' = synced
      BY <2>2
    <3>2. cut \in 0 .. Len(w) /\ onDisk \in 0 .. cut /\ Len(w) \in Nat
      BY <1>4, <1>6
    <3>3. PICK v \in Seq(Byte) : v = SubSeq(w, 1, cut) /\ Len(v) = cut
                                 /\ \A i \in 1 .. cut : v[i] = w[i]
      BY <3>2, FirstBytes
    <3>4. Starts(v, flushed)
      BY <1>3, <1>5, <3>2, <3>3 DEF Starts
    <3>5. \A i \in 1 .. onDisk : v[i] = file[i]
      BY <1>3, <1>4, <1>6, <3>2, <3>3
    <3>6. SubSeq(v, 1, onDisk) = SubSeq(file, 1, onDisk)
      BY <1>3, <1>6, <3>2, <3>3, <3>5
    <3>7. Starts(SubSeq(v, 1, onDisk), v)
      BY <3>2, <3>3, StartsParts
    <3>8. synced \subseteq Read(v)
      <4>1. SubSeq(v, 1, onDisk) \in Bytes /\ v \in Bytes
        BY <1>7, <3>3, <3>6 DEF Bytes
      <4>2. Read(SubSeq(v, 1, onDisk)) \subseteq Read(v)
        BY <3>7, <4>1, RecordsStay
      <4> QED
        BY <3>6, <4>2 DEF IInv, Promised
    <3> QED
      BY <3>1, <3>2, <3>3, <3>4, <3>6, <3>8 DEF Bytes
  <2> QED
    BY <1>1, <1>4, <2>1, <2>2
<1>9. flushed' = file' /\ buf' \in Bytes
  BY <1>2, <1>8 DEF flushed, Bytes
<1>10. TypeOK'
  <2>1. onDisk' \in 0 .. Len(file')
    BY <1>2, <1>6, <1>8
  <2>2. adding' \in [rec : Nat, size : Nat, sent : Nat, begin : BOOLEAN,
                     flushing : BOOLEAN, block : Int]
    BY <1>2 DEF Nothing
  <2>3. crashes' \in Nat /\ crashes' >= 1
    BY <1>2 DEF IInv, TypeOK
  <2> QED
    BY <1>2, <1>8, <1>9, <2>1, <2>2, <2>3 DEF IInv, TypeOK
<1>11. AddingOK' /\ Written(flushed)' /\ InBytes' /\ InProgress'
  BY <1>2, <1>8, <1>9, Lost
<1>12. Placed' /\ TornOK'
  BY <1>2 DEF Placed, TornOK
<1>13. Promised'
  BY <1>2, <1>8 DEF IInv, Promised
<1>14. Clean'
  <2> SUFFICES ASSUME failures' = 0, crashes' = 1
               PROVE  \A i \in 1 .. Len(recordsIn(file')) : recordsIn(file')[i][1].rec = i
    BY <1>2, <1>9 DEF Clean
  <2>1. failures = 0 /\ crashes = 0
    BY <1>2 DEF IInv, TypeOK
  <2>2. \A i \in 1 .. Len(recordsIn(flushed)) : recordsIn(flushed)[i][1].rec = i
    BY <1>2, <2>1 DEF IInv, Clean
  <2>3. Starts(recordsIn(file'), recordsIn(flushed))
    BY <1>3, <1>8, RecordsStay
  <2>4. Len(recordsIn(file')) \in Nat /\ Len(recordsIn(flushed)) \in Nat
    BY <1>3, <1>8, ReadingType
  <2> QED
    BY <2>2, <2>3, <2>4 DEF Starts
<1> QED
  BY <1>10, <1>11, <1>12, <1>13, <1>14 DEF IInv

\* Reuse goes on where the file ends, and notes a torn block.
LEMMA ReuseInv ==
  ASSUME IInv, Reuse
  PROVE  IInv'
<1>1. /\ down /\ down' = FALSE /\ astray' = FALSE
      /\ kept' = kept \cup Read(file)
      /\ block_offset' = Len(file) % BlockSize
      /\ torn' = IF endsTorn(file) THEN torn \cup {Len(file) \div BlockSize} ELSE torn
      /\ UNCHANGED <<file, buf, onDisk, adding, records, synced, crashes, failures>>
  BY DEF Reuse, Read, blockOffsetAt
<1>2. flushed = file /\ flushed' = flushed /\ flushed \in Bytes /\ Len(file) \in Nat
  BY <1>1, FlushedType DEF IInv, TypeOK, flushed
<1>3. adding = Nothing /\ adding.begin
  BY <1>1 DEF IInv, AddingOK, Nothing
<1>4. /\ Len(file) % BlockSize \in 0 .. BlockSize - 1 /\ Len(file) \div BlockSize \in Nat
      /\ Len(file) = BlockSize * (Len(file) \div BlockSize) + (Len(file) % BlockSize)
      /\ BlockSize \in Nat
  BY <1>2, Division, Sizes1
<1>5. TypeOK'
  <2>1. block_offset' \in 0 .. BlockSize
    BY <1>1, <1>4
  <2> QED
    BY <1>1, <2>1 DEF IInv, TypeOK
<1>6. AddingOK' /\ Written(flushed)' /\ InBytes'
  BY <1>1, <1>2, <1>3 DEF IInv, AddingOK, InBytes
<1>7. Placed'
  BY <1>1, <1>2, <1>4 DEF Placed
<1>8. TornOK'
  BY <1>1, <1>2 DEF TornOK
<1>9. InProgress'
  BY <1>1, <1>3 DEF InProgress
<1>10. Promised'
  BY <1>1 DEF IInv, Promised
<1>11. Clean'
  BY <1>1 DEF IInv, TypeOK, Clean
<1> QED
  BY <1>5, <1>6, <1>7, <1>8, <1>9, <1>10, <1>11 DEF IInv

\* A trailer of n bytes and a fragment, appended.
LEMMA AppendBytes ==
  ASSUME NEW a \in Seq(Byte), NEW b \in Seq(Byte), NEW n \in Nat, NEW f \in Fragment
  PROVE  LET d == b \o [i \in 1 .. n |-> zero] \o bytes(f)
         IN  /\ d \in Bytes /\ a \o d \in Bytes
             /\ Appended(a \o b, a \o d, Len(a) + Len(b) + n, f)
<1>1. PICK z \in Seq(Byte) :
        z = [i \in 1 .. n |-> zero] /\ Len(z) = n /\ \A i \in 1 .. n : z[i] = zero
  <2>1. zero \in Byte
    BY DEF zero, Byte
  <2> HIDE DEF Byte, zero
  <2> DEFINE y == [i \in 1 .. n |-> zero]
  <2>2. y \in [1 .. n -> Byte] /\ \A i \in 1 .. n : y[i] = zero
    BY <2>1
  <2> HIDE DEF y
  <2>3. y \in Seq(Byte) /\ Len(y) = n
    BY <2>2
  <2> QED
    BY <2>2, <2>3 DEF y
<1>2. PICK m \in Nat : m = HeaderSize + f.len
  <2>1. f.len \in Nat /\ HeaderSize \in Nat
    BY FragmentType, Sizes1
  <2> QED
    BY <2>1
<1>3. PICK x \in Seq(Byte) :
        x = bytes(f) /\ Len(x) = m /\ \A i \in 1 .. m : x[i] = <<f, i>>
  <2>1. \A i \in 1 .. m : <<f, i>> \in Byte
    BY DEF Byte
  <2> HIDE DEF Byte
  <2> DEFINE y == [i \in 1 .. m |-> <<f, i>>]
  <2>2. y \in [1 .. m -> Byte] /\ \A i \in 1 .. m : y[i] = <<f, i>>
    BY <2>1
  <2>3. y = bytes(f)
    BY <1>2 DEF bytes
  <2> HIDE DEF y
  <2>4. y \in Seq(Byte) /\ Len(y) = m
    BY <2>2
  <2> QED
    BY <2>2, <2>3, <2>4
<1>4. PICK u \in Seq(Byte) :
        /\ u = b \o z /\ Len(u) = Len(b) + n
        /\ \A i \in 1 .. Len(b) : u[i] = b[i]
        /\ \A i \in 1 .. n : u[Len(b) + i] = zero
  <2>1. /\ b \o z \in Seq(Byte) /\ Len(b \o z) = Len(b) + Len(z)
        /\ \A i \in 1 .. Len(b) : (b \o z)[i] = b[i]
        /\ \A i \in 1 .. Len(z) : (b \o z)[Len(b) + i] = z[i]
    OBVIOUS
  <2> QED
    BY <1>1, <2>1
<1>5. PICK d \in Seq(Byte) :
        /\ d = u \o x /\ Len(d) = Len(b) + n + m
        /\ \A i \in 1 .. Len(u) : d[i] = u[i]
        /\ \A i \in 1 .. m : d[Len(u) + i] = <<f, i>>
  <2>1. /\ u \o x \in Seq(Byte) /\ Len(u \o x) = Len(u) + Len(x)
        /\ \A i \in 1 .. Len(u) : (u \o x)[i] = u[i]
        /\ \A i \in 1 .. Len(x) : (u \o x)[Len(u) + i] = x[i]
    OBVIOUS
  <2>2. Len(u \o x) = Len(b) + n + m
    BY <1>3, <1>4, <2>1
  <2>3. \A i \in 1 .. m : (u \o x)[Len(u) + i] = <<f, i>>
    BY <1>3, <2>1
  <2> QED
    BY <2>1, <2>2, <2>3
<1>6. d = b \o [i \in 1 .. n |-> zero] \o bytes(f)
  BY <1>1, <1>3, <1>4, <1>5
<1>7. PICK la \in Nat, lb \in Nat : la = Len(a) /\ lb = Len(b)
  OBVIOUS
<1>8. PICK w \in Seq(Byte) :
        /\ w = a \o b /\ Len(w) = la + lb
        /\ \A i \in 1 .. la : w[i] = a[i]
        /\ \A i \in 1 .. lb : w[la + i] = b[i]
  <2>1. /\ a \o b \in Seq(Byte) /\ Len(a \o b) = Len(a) + Len(b)
        /\ \A i \in 1 .. Len(a) : (a \o b)[i] = a[i]
        /\ \A i \in 1 .. Len(b) : (a \o b)[Len(a) + i] = b[i]
    OBVIOUS
  <2> QED
    BY <1>7, <2>1
<1>9. PICK v \in Seq(Byte) :
        /\ v = a \o d /\ Len(v) = la + (lb + n + m)
        /\ \A i \in 1 .. la : v[i] = a[i]
        /\ \A i \in 1 .. lb + n + m : v[la + i] = d[i]
  <2>1. /\ a \o d \in Seq(Byte) /\ Len(a \o d) = Len(a) + Len(d)
        /\ \A i \in 1 .. Len(a) : (a \o d)[i] = a[i]
        /\ \A i \in 1 .. Len(d) : (a \o d)[Len(a) + i] = d[i]
    OBVIOUS
  <2>2. Len(d) = lb + n + m
    BY <1>5, <1>7
  <2>3. Len(a \o d) = la + (lb + n + m)
    BY <1>7, <2>1, <2>2
  <2>4. \A i \in 1 .. lb + n + m : (a \o d)[la + i] = d[i]
    BY <1>7, <2>1, <2>2
  <2> QED
    BY <1>7, <2>1, <2>3, <2>4
<1>10. ASSUME NEW i \in 1 .. la + lb
       PROVE  v[i] = w[i]
  <2>1. CASE i \in 1 .. la
    BY <1>8, <1>9, <2>1
  <2>2. CASE i \notin 1 .. la
    <3>1. PICK j \in 1 .. lb : i = la + j
      <4>1. i - la \in 1 .. lb /\ i = la + (i - la)
        BY <2>2
      <4> QED
        BY <4>1
    <3>2. j \in 1 .. lb + n + m /\ j \in 1 .. Len(u)
      BY <1>4, <1>7
    <3>3. v[la + j] = d[j] /\ d[j] = u[j] /\ u[j] = b[j]
      BY <1>4, <1>5, <1>7, <1>9, <3>2
    <3> QED
      BY <1>8, <3>1, <3>3
  <2> QED
    BY <2>1, <2>2
<1>11. ASSUME NEW k \in la + lb + 1 .. la + lb + n
       PROVE  v[k] = zero
  <2>1. PICK j \in 1 .. n : k = la + (lb + j)
    <3>1. k - la - lb \in 1 .. n /\ k = la + (lb + (k - la - lb))
      OBVIOUS
    <3> QED
      BY <3>1
  <2>2. lb + j \in 1 .. lb + n + m /\ lb + j \in 1 .. Len(u)
    BY <1>4, <1>7
  <2>3. v[la + (lb + j)] = d[lb + j] /\ d[lb + j] = u[lb + j]
    BY <1>5, <1>9, <2>2
  <2>4. u[lb + j] = zero
    BY <1>4, <1>7
  <2> QED
    BY <2>1, <2>3, <2>4
<1>12. ASSUME NEW i \in 1 .. m
       PROVE  v[la + lb + n + i] = <<f, i>>
  <2>1. lb + n + i \in 1 .. lb + n + m /\ la + lb + n + i = la + (lb + n + i)
        /\ lb + n + i = Len(u) + i
    BY <1>4, <1>7
  <2>2. v[la + (lb + n + i)] = d[lb + n + i] /\ d[Len(u) + i] = <<f, i>>
    BY <1>5, <1>9, <2>1
  <2> QED
    BY <2>1, <2>2
<1>13. Starts(w, v)
  <2>1. Len(w) <= Len(v)
    BY <1>8, <1>9
  <2>2. \A i \in 1 .. Len(w) : v[i] = w[i]
    BY <1>8, <1>10
  <2> QED
    BY <2>1, <2>2 DEF Starts
<1>14. PICK at \in Nat : at = la + lb + n
  OBVIOUS
<1>15. Appended(w, v, at, f)
  <2>1. Len(w) <= at /\ Len(v) = at + m
    BY <1>8, <1>9, <1>14
  <2>2. Len(v) = at + HeaderSize + f.len
    <3>1. f.len \in Nat /\ HeaderSize \in Nat
      BY FragmentType, Sizes1
    <3>2. at + HeaderSize + f.len = at + (HeaderSize + f.len)
      BY <3>1, Sums
    <3> QED
      BY <1>2, <2>1, <3>2
  <2>3. \A k \in Len(w) + 1 .. at : v[k] = zero
    BY <1>8, <1>11, <1>14
  <2>4. \A i \in 1 .. HeaderSize + f.len : v[at + i] = <<f, i>>
    BY <1>2, <1>12, <1>14
  <2> QED
    BY <1>13, <2>1, <2>2, <2>3, <2>4 DEF Appended
<1> QED
  BY <1>5, <1>6, <1>7, <1>8, <1>9, <1>14, <1>15 DEF Bytes

\* A round of AddRecord's loop writes a trailer and the fragment f at start.
Fragmented(start, trailer, f) ==
  /\ start \in Nat /\ trailer \in Nat /\ start + HeaderSize + f.len <= BlockSize
  /\ \/ trailer = 0 /\ start = block_offset
     \/ start = 0 /\ trailer = BlockSize - block_offset /\ trailer < HeaderSize
  /\ Legal(f) /\ f.rec = adding.rec /\ f.from = adding.sent
  /\ f.type \in {"full", "first"} <=> adding.begin
  /\ f.type \in {"full", "last"} <=> adding.sent + f.len = adding.size
  /\ adding.sent + f.len <= adding.size
  /\ buf' = buf \o [i \in 1 .. trailer |-> zero] \o bytes(f)
  /\ block_offset' = start + HeaderSize + f.len
  /\ adding' = [rec |-> adding.rec, size |-> adding.size, sent |-> adding.sent + f.len,
                begin |-> FALSE, flushing |-> TRUE,
                block |-> IF adding.begin
                          THEN (Len(file) + Len(buf) + trailer) \div BlockSize
                          ELSE adding.block]

\* What AppendFragment writes, with its trailer and place named.
LEMMA FragmentWritten ==
  ASSUME TypeOK, AddingOK, AppendFragment
  PROVE  \E start, trailer, f : Fragmented(start, trailer, f)
<1> DEFINE leftover == BlockSize - block_offset
           trailer  == IF leftover < HeaderSize THEN leftover ELSE 0
           start    == IF leftover < HeaderSize THEN 0 ELSE block_offset
           left     == adding.size - adding.sent
           len      == Smaller(left, BlockSize - start - HeaderSize)
           f        == fragment(adding.rec, adding.size, adding.sent, len,
                                recordType(adding.begin, len = left))
           at       == Len(file) + Len(buf) + trailer
<1>1. /\ adding # Nothing /\ ~adding.flushing
      /\ buf' = buf \o [i \in 1 .. trailer |-> zero] \o bytes(f)
      /\ block_offset' = start + HeaderSize + len
      /\ adding' = [adding EXCEPT
                      !.sent = @ + len, !.begin = FALSE, !.flushing = TRUE,
                      !.block = IF adding.begin THEN at \div BlockSize ELSE @]
  BY DEF AppendFragment
<1>2. /\ adding.rec = records /\ records \in Nat \ {0}
      /\ adding.size \in Nat /\ adding.sent \in Nat /\ adding.sent < adding.size
      /\ adding.begin \in BOOLEAN /\ (adding.begin => adding.sent = 0)
      /\ block_offset \in 0 .. BlockSize
  BY <1>1 DEF TypeOK, AddingOK
<1>3. BlockSize \in Nat /\ HeaderSize \in Nat \ {0} /\ HeaderSize < BlockSize
  BY Sizes1
<1>4. /\ start \in Nat /\ trailer \in Nat /\ start + HeaderSize <= BlockSize
      /\ \/ trailer = 0 /\ start = block_offset
         \/ start = 0 /\ trailer = BlockSize - block_offset /\ trailer < HeaderSize
  BY <1>2, <1>3
<1> HIDE DEF trailer, start
<1>5. left \in Nat \ {0}
  BY <1>2
<1>6. len \in Nat /\ len <= left /\ start + HeaderSize + len <= BlockSize
  BY <1>3, <1>4, <1>5 DEF Smaller
<1> HIDE DEF len
<1>7. adding.sent + len <= adding.size /\ (len = left <=> adding.sent + len = adding.size)
  BY <1>2, <1>6
<1> DEFINE type == recordType(adding.begin, len = left)
<1>8. /\ type \in Types
      /\ type \in {"full", "first"} <=> adding.begin
      /\ type \in {"full", "last"} <=> len = left
  BY <1>2 DEF recordType, Types
<1> HIDE DEF type
<1>9. /\ f = [rec |-> adding.rec, size |-> adding.size, from |-> adding.sent,
              len |-> len, type |-> type]
  BY DEF fragment, type
<1>10. f \in Fragment
  BY <1>2, <1>6, <1>8, <1>9 DEF Fragment
<1> HIDE DEF f
<1>11. /\ f.rec = adding.rec /\ f.size = adding.size /\ f.from = adding.sent
       /\ f.len = len /\ f.type = type
  BY <1>9
<1>12. Legal(f)
  BY <1>2, <1>7, <1>8, <1>10, <1>11 DEF Legal
<1>13. adding' = [rec |-> adding.rec, size |-> adding.size, sent |-> adding.sent + f.len,
                  begin |-> FALSE, flushing |-> TRUE,
                  block |-> IF adding.begin THEN at \div BlockSize ELSE adding.block]
  BY <1>1, <1>11 DEF TypeOK
<1>14. Fragmented(start, trailer, f)
  BY <1>1, <1>4, <1>6, <1>7, <1>8, <1>11, <1>12, <1>13 DEF Fragmented
<1> QED
  BY <1>14

\* The writer that knows where it is keeps f within a block; where the reader
\* does not get to f, the block is torn.
LEMMA WhereWritten ==
  ASSUME IInv, ~astray, ~down, NEW start, NEW trailer, NEW f,
         Fragmented(start, trailer, f),
         NEW c \in Bytes, NEW at, at = Len(flushed) + trailer,
         Appended(flushed, c, at, f)
  PROVE  /\ Extends(flushed, c, at, f)
         /\ \E q \in Nat : Len(c) = BlockSize * q + (start + HeaderSize + f.len)
         /\ at % BlockSize = 0 \/ reading(flushed).pos = Len(flushed) \/
              (/\ at = Len(flushed) /\ at \div BlockSize \in torn
               /\ Len(c) % BlockSize # 0 => Len(c) \div BlockSize \in torn)
<1>1. PICK w \in Nat : w = Len(flushed) /\ at = w + trailer
  BY FlushedType, ReadingType DEF IInv
<1>2. PICK n \in Nat : n = HeaderSize + f.len /\ HeaderSize <= n
  <2>1. f.len \in Nat /\ HeaderSize \in Nat
    BY FragmentType, Sizes1 DEF Fragmented, Legal
  <2> QED
    BY <2>1
<1>3. /\ start \in Nat /\ trailer \in Nat /\ start + n <= BlockSize
      /\ \/ trailer = 0 /\ start = block_offset
         \/ start = 0 /\ trailer = BlockSize - block_offset /\ trailer < HeaderSize
      /\ start + HeaderSize + f.len = start + n
  <2>1. f.len \in Nat /\ HeaderSize \in Nat /\ start \in Nat
    BY FragmentType, Sizes1 DEF Fragmented, Legal
  <2>2. start + HeaderSize + f.len = start + n
    BY <1>2, <2>1
  <2> QED
    BY <2>2 DEF Fragmented
<1>4. BlockSize \in Nat /\ HeaderSize \in Nat \ {0} /\ HeaderSize < BlockSize
      /\ block_offset \in 0 .. BlockSize
  BY Sizes1 DEF IInv, TypeOK
<1>5. PICK q \in Nat : w = BlockSize * q + block_offset
  BY <1>1 DEF IInv, Placed
<1>6. PICK r \in Nat : at = BlockSize * r + start
  <2>1. CASE trailer = 0 /\ start = block_offset
    BY <1>1, <1>4, <1>5, <2>1
  <2>2. CASE start = 0 /\ trailer = BlockSize - block_offset
    <3>1. PICK x \in Int : x = BlockSize * q
      BY <1>4
    <3>2. at = x + BlockSize
      BY <1>1, <1>4, <1>5, <2>2, <3>1
    <3>3. at = BlockSize * (q + 1) + start
      BY <1>4, <2>2, <3>1, <3>2, OneMore
    <3> QED
      BY <3>3
  <2> QED
    BY <1>3, <2>1, <2>2
<1>7. start \in 0 .. BlockSize - 1 /\ at % BlockSize = start /\ at \in Nat
  <2>1. start \in 0 .. BlockSize - 1
    BY <1>2, <1>3, <1>4
  <2> QED
    BY <1>1, <1>3, <1>6, <2>1, Divided
<1>8. blockEnd(at) = at - start + BlockSize
  BY <1>7 DEF blockEnd
<1>9. Len(c) = at + n /\ Len(c) \in Nat
  <2>1. Len(c) = at + HeaderSize + f.len /\ f.len \in Nat
    BY FragmentType DEF Appended
  <2>2. Len(c) = at + (HeaderSize + f.len) /\ Len(c) \in Nat
    BY <1>4, <1>7, <2>1, Sums
  <2> QED
    BY <1>2, <2>2
<1>10. Len(c) <= blockEnd(at)
  BY <1>3, <1>4, <1>7, <1>8, <1>9
<1>11. at = w \/ (at % BlockSize = 0 /\ at - w < HeaderSize)
  BY <1>1, <1>3, <1>7
<1>12. Extends(flushed, c, at, f)
  BY <1>1, <1>10, <1>11 DEF Extends
<1>13. Len(c) = BlockSize * r + (start + HeaderSize + f.len)
  <2>1. PICK x \in Int : x = BlockSize * r
    BY <1>4
  <2>2. Len(c) = x + (start + n)
    BY <1>3, <1>6, <1>9, <2>1
  <2> QED
    BY <1>3, <2>1, <2>2
<1>14. ASSUME at % BlockSize # 0, reading(flushed).pos # Len(flushed)
       PROVE  /\ at = Len(flushed) /\ at \div BlockSize \in torn
              /\ Len(c) % BlockSize # 0 => Len(c) \div BlockSize \in torn
  <2>1. PICK p \in Nat : /\ p = reading(flushed).pos /\ p < w /\ flushed \in Bytes
                         /\ Len(flushed) <= blockEnd(p)
    <3>1. flushed \in Bytes
      BY FlushedType DEF IInv
    <3>2. Len(flushed) <= blockEnd(reading(flushed).pos)
      BY <3>1, Rounds, ReaderStops, Stopped
    <3>3. reading(flushed).pos \in Nat /\ reading(flushed).pos <= Len(flushed)
      BY <3>1, ReadingType
    <3>4. reading(flushed).pos < w
      BY <1>1, <1>14, <3>3
    <3> QED
      BY <3>1, <3>2, <3>3, <3>4
  <2>2. at = w
    BY <1>11, <1>14
  <2>3. /\ blockEnd(p) \in Nat /\ blockEnd(p) % BlockSize = 0 /\ p < blockEnd(p)
        /\ \A k \in Nat : p <= k /\ k < blockEnd(p) => blockEnd(k) = blockEnd(p)
    BY <2>1, InBlock
  <2>4. at < blockEnd(p)
    <3>1. at <= blockEnd(p)
      BY <1>1, <2>1, <2>2
    <3>2. at # blockEnd(p)
      BY <1>14, <2>3
    <3> QED
      BY <1>7, <2>3, <3>1, <3>2
  <2>5. blockEnd(at) = blockEnd(p)
    BY <1>7, <2>1, <2>2, <2>3, <2>4
  <2>6. blockEnd(p) - p >= HeaderSize
    <3>1. HeaderSize <= BlockSize - start
      BY <1>2, <1>3, <1>4
    <3>2. p < at
      BY <2>1, <2>2
    <3>3. blockEnd(p) = at + (BlockSize - start)
      BY <1>3, <1>4, <1>7, <1>8, <2>5
    <3> HIDE DEF blockEnd
    <3> QED
      BY <1>3, <1>4, <1>7, <2>3, <3>1, <3>2, <3>3
  <2>7. Len(flushed) % BlockSize # 0
    BY <1>1, <1>14, <2>2
  <2>8. endsTorn(flushed)
    BY <1>1, <2>1, <2>6, <2>7 DEF endsTorn
  <2>9. at = Len(flushed) /\ at \div BlockSize \in torn
    BY <1>1, <2>2, <2>8 DEF IInv, TornOK
  <2>10. ASSUME Len(c) % BlockSize # 0
         PROVE  Len(c) \div BlockSize \in torn
    <3>1. blockEnd(at) % BlockSize = 0 /\ blockEnd(at) \in Nat
      BY <1>7, InBlock
    <3>2. Len(c) # blockEnd(at)
      BY <2>10, <3>1
    <3>3. at <= Len(c) /\ Len(c) < blockEnd(at)
      BY <1>7, <1>9, <1>10, <3>1, <3>2
    <3>4. Len(c) \div BlockSize = at \div BlockSize
      BY <1>7, <1>9, <3>3, InBlock
    <3> QED
      BY <2>9, <3>4
  <2> QED
    BY <2>9, <2>10
<1> QED
  BY <1>12, <1>13, <1>14

\* A fragment is appended: the reader reads it next, unless it is astray or torn.
LEMMA AppendFragmentInv ==
  ASSUME IInv, AppendFragment
  PROVE  IInv'
<1>1. PICK start, trailer, f : Fragmented(start, trailer, f)
  BY FragmentWritten DEF IInv
<1>2. /\ adding # Nothing /\ ~adding.flushing
      /\ UNCHANGED <<file, onDisk, records, kept, synced, astray, torn, down,
                     crashes, failures>>
  BY DEF AppendFragment
<1>3. /\ Legal(f) /\ f \in Fragment /\ f.rec = adding.rec /\ f.from = adding.sent
      /\ f.type \in {"full", "first", "middle", "last"} /\ f.len \in Nat
      /\ (f.type \in {"full", "first"} <=> adding.begin)
      /\ (f.type \in {"full", "last"} <=> adding.sent + f.len = adding.size)
      /\ adding.sent + f.len <= adding.size /\ trailer \in Nat
  BY <1>1, FragmentType DEF Fragmented, Legal
<1>4. /\ adding'.rec = adding.rec /\ adding'.size = adding.size
      /\ adding'.sent = adding.sent + f.len /\ adding'.begin = FALSE
      /\ adding'.flushing = TRUE /\ adding' # Nothing
      /\ adding'.block = IF adding.begin
                         THEN (Len(file) + Len(buf) + trailer) \div BlockSize
                         ELSE adding.block
  BY <1>1 DEF Fragmented, Nothing
<1>5. /\ ~down /\ adding.rec = records /\ records \in Nat \ {0}
      /\ adding.sent \in Nat /\ adding.size \in Nat /\ adding.size >= 1
      /\ adding.sent < adding.size /\ adding.begin \in BOOLEAN
      /\ adding.block \in Int
  BY <1>2 DEF IInv, TypeOK, AddingOK
<1>6. PICK W \in Bytes : W = flushed /\ Len(W) = Len(file) + Len(buf) /\ Len(W) \in Nat
                         /\ Len(file) \in Nat /\ Len(buf) \in Nat
  BY FlushedType, ReadingType DEF IInv
<1>7. PICK at \in Nat : at = Len(W) + trailer /\ at = Len(file) + Len(buf) + trailer
  BY <1>3, <1>6
<1>8. PICK V \in Bytes : V = flushed' /\ Appended(W, V, at, f) /\ buf' \in Bytes
  <2>1. file \in Seq(Byte) /\ buf \in Seq(Byte)
    BY DEF IInv, TypeOK, Bytes
  <2>2. PICK d : d = buf \o [i \in 1 .. trailer |-> zero] \o bytes(f)
    OBVIOUS
  <2>3. d \in Bytes /\ file \o d \in Bytes /\ Appended(file \o buf, file \o d, at, f)
    BY <1>3, <1>7, <2>1, <2>2, AppendBytes
  <2>4. buf' = d /\ file' = file
    BY <1>1, <1>2, <2>2 DEF Fragmented
  <2>5. flushed' = file \o d /\ flushed = file \o buf
    BY <2>4 DEF flushed
  <2> QED
    BY <1>6, <2>3, <2>4, <2>5
<1>9. Len(V) = at + HeaderSize + f.len /\ Len(V) \in 1 .. Len(V) /\ Len(V) \in Nat
  <2>1. Len(V) = at + HeaderSize + f.len
    BY <1>8 DEF Appended
  <2> QED
    BY <1>3, <2>1, Sizes1
<1>10. V[Len(V)][1] = f /\ EndsAt(V, f, Len(V))
  <2>1. PICK n \in Nat : n = HeaderSize + f.len /\ n >= 1
    BY <1>3, Sizes1
  <2>2. Len(V) = at + n
    BY <1>3, <1>9, <2>1, Sizes1
  <2>3. \A i \in 1 .. n : V[at + i] = <<f, i>>
    BY <1>8, <2>1 DEF Appended
  <2>4. V[Len(V)] = <<f, n>>
    BY <2>1, <2>2, <2>3
  <2>5. n <= Len(V) /\ Len(V) - n = at
    BY <2>2
  <2>6. EndsAt(V, f, Len(V))
    BY <2>1, <2>3, <2>5 DEF EndsAt
  <2> QED
    BY <2>4, <2>6
<1>11. TypeOK'
  <2>1. /\ block_offset' = start + HeaderSize + f.len /\ start \in Nat
        /\ start + HeaderSize + f.len <= BlockSize
    BY <1>1 DEF Fragmented
  <2>2. block_offset' \in 0 .. BlockSize
    BY <1>3, <2>1, Sizes1
  <2>3. at \div BlockSize \in Int
    BY Division
  <2>4. adding' \in [rec : Nat, size : Nat, sent : Nat, begin : BOOLEAN,
                     flushing : BOOLEAN, block : Int]
    <3>1. PICK blk \in Int :
            blk = IF adding.begin THEN at \div BlockSize ELSE adding.block
      BY <1>5, <2>3
    <3>2. adding' = [rec |-> adding.rec, size |-> adding.size,
                     sent |-> adding.sent + f.len, begin |-> FALSE,
                     flushing |-> TRUE, block |-> blk]
      BY <1>1, <1>7, <3>1 DEF Fragmented
    <3>3. adding.sent + f.len \in Nat /\ adding.rec \in Nat
      BY <1>3, <1>5
    <3> QED
      BY <1>5, <3>2, <3>3
  <2> QED
    BY <1>2, <1>5, <1>8, <2>2, <2>4 DEF IInv, TypeOK
<1>12. AddingOK'
  BY <1>2, <1>3, <1>4, <1>5 DEF AddingOK
<1>13. Written(V)
  <2>1. ASSUME f.type \in {"full", "first"}
        PROVE  \A k \in 1 .. Len(W) : W[k][1].rec < f.rec
    BY <1>2, <1>3, <1>5, <1>6, <2>1 DEF IInv, InBytes
  <2>2. ASSUME f.type \in {"middle", "last"}
        PROVE  /\ Len(W) \in 1 .. Len(W) /\ Precedes(W[Len(W)][1], f.rec, f.from)
               /\ EndsAt(W, W[Len(W)][1], Len(W))
    <3>1. ~adding.begin
      BY <1>3, <2>2
    <3> QED
      BY <1>3, <1>5, <1>6, <3>1 DEF IInv, InBytes
  <2>3. Written(W)
    BY <1>6 DEF IInv
  <2> QED
    BY <1>3, <1>8, <2>1, <2>2, <2>3, WrittenMore
<1>14. InBytes'
  <2>1. ASSUME NEW k \in 1 .. Len(V)
        PROVE  V[k][1].rec <= records
    <3>1. CASE k \in 1 .. Len(W) /\ V[k] = W[k]
      BY <1>6, <3>1 DEF IInv, InBytes
    <3>2. CASE V[k] = zero
      BY <1>5, <3>2 DEF zero, fragment
    <3>3. CASE V[k] = <<f, k - at>>
      BY <1>3, <1>5, <3>3
    <3> QED
      BY <1>8, <3>1, <3>2, <3>3, AppendedByte
  <2>2. adding.sent + f.len < adding.size
         => Precedes(f, adding.rec, adding.sent + f.len)
    BY <1>3, <1>5 DEF Precedes
  <2> QED
    BY <1>2, <1>4, <1>8, <1>9, <1>10, <2>1, <2>2 DEF InBytes
<1>15. ASSUME astray = FALSE
       PROVE  /\ Extends(W, V, at, f)
              /\ \E q \in Nat : Len(V) = BlockSize * q + block_offset'
              /\ at % BlockSize = 0 \/ reading(W).pos = Len(W) \/
                   (/\ at \div BlockSize \in torn
                    /\ Len(V) % BlockSize # 0 => Len(V) \div BlockSize \in torn)
  <2>1. at = Len(flushed) + trailer /\ Appended(flushed, V, at, f)
    BY <1>6, <1>7, <1>8
  <2>2. block_offset' = start + HeaderSize + f.len
    BY <1>1 DEF Fragmented
  <2> QED
    BY <1>1, <1>5, <1>6, <1>15, <2>1, <2>2, WhereWritten
<1>16. Placed'
  BY <1>2, <1>8, <1>15 DEF IInv, TypeOK, Placed
<1>17. TornOK'
  <2> SUFFICES ASSUME astray = FALSE, endsTorn(V)
               PROVE  Len(V) \div BlockSize \in torn
    BY <1>2, <1>8 DEF IInv, TypeOK, TornOK
  <2>1. reading(V).pos # Len(V) /\ Len(V) % BlockSize # 0
    BY <1>9 DEF endsTorn
  <2>2. ~(at % BlockSize = 0 \/ reading(W).pos = Len(W))
    BY <1>15, <2>1, ReadsAppended
  <2> QED
    BY <1>15, <2>1, <2>2
<1>18. ASSUME astray = FALSE, at % BlockSize = 0 \/ reading(W).pos = Len(W),
              adding.begin \/ adding.block \notin torn
       PROVE  /\ reading(V).pos = Len(V)
              /\ adding.sent + f.len < adding.size =>
                   /\ reading(V).out = reading(W).out /\ reading(V).scratch # <<>>
                   /\ reading(V).scratch[1].rec = adding.rec
              /\ adding.sent + f.len = adding.size =>
                   \E r \in Seq(Fragment) :
                     reading(V).out = Append(reading(W).out, r) /\ r[1].rec = adding.rec
  <2>1. \/ f.type \in {"full", "first"}
        \/ /\ reading(W).pos = Len(W) /\ reading(W).scratch # <<>>
           /\ reading(W).scratch[1].rec = f.rec
    BY <1>3, <1>5, <1>6, <1>18 DEF IInv, InProgress
  <2>2. /\ reading(V).pos = Len(V)
        /\ f.type \in {"first", "middle"} =>
              /\ reading(V).out = reading(W).out /\ reading(V).scratch # <<>>
              /\ reading(V).scratch[1].rec = f.rec
        /\ f.type \in {"full", "last"} =>
              \E r \in Seq(Fragment) :
                reading(V).out = Append(reading(W).out, r) /\ r[1].rec = f.rec
    <3>1. Extends(W, V, at, f)
      BY <1>15, <1>18
    <3>2. at % BlockSize = 0 \/ reading(W).pos = Len(W)
      BY <1>18
    <3> HIDE DEF Extends
    <3> QED
      BY <2>1, <3>1, <3>2, AppendRead
  <2>3. adding.sent + f.len < adding.size => f.type \in {"first", "middle"}
    BY <1>3, <1>5
  <2> QED
    BY <1>3, <2>2, <2>3
<1>19. reading(W).out \in Seq(Seq(Fragment)) /\ recordsIn(V) = reading(V).out
       /\ recordsIn(W) = reading(W).out /\ Len(recordsIn(W)) \in Nat
  BY ReadingType
<1>20. InProgress'
  <2> SUFFICES ASSUME astray = FALSE, adding'.block \notin torn
               PROVE  /\ reading(V).pos = Len(V)
                      /\ adding.sent + f.len < adding.size =>
                           reading(V).scratch # <<>> /\ reading(V).scratch[1].rec = adding.rec
                      /\ adding.sent + f.len = adding.size => adding.rec \in Read(V)
    <3>1. astray' = astray /\ torn' = torn /\ astray \in BOOLEAN
      BY <1>2 DEF IInv, TypeOK
    <3>2. adding.sent + f.len < adding.size \/ adding.sent + f.len = adding.size
      BY <1>3, <1>5
    <3>3. ~(adding.sent + f.len < adding.size) <=> adding.sent + f.len = adding.size
      BY <1>3, <1>5
    <3> QED
      BY <1>4, <1>8, <3>1, <3>3 DEF InProgress
  <2>1. adding.begin \/ adding.block \notin torn
    BY <1>4
  <2>2. at % BlockSize = 0 \/ reading(W).pos = Len(W)
    <3>1. CASE adding.begin
      BY <1>4, <1>7, <1>15, <3>1
    <3>2. CASE ~adding.begin
      BY <1>4, <1>6, <3>2 DEF IInv, InProgress
    <3> QED
      BY <3>1, <3>2
  <2>3. adding.sent + f.len = adding.size => adding.rec \in Read(V)
    <3> SUFFICES ASSUME adding.sent + f.len = adding.size
                 PROVE  adding.rec \in Read(V)
      OBVIOUS
    <3>1. PICK r \in Seq(Fragment) :
            reading(V).out = Append(reading(W).out, r) /\ r[1].rec = adding.rec
      BY <1>18, <2>1, <2>2
    <3>2. PICK out \in Seq(Seq(Fragment)) : out = reading(W).out
      BY <1>19
    <3>3. Len(out) + 1 \in DOMAIN Append(out, r) /\ Append(out, r)[Len(out) + 1] = r
      OBVIOUS
    <3>4. r \in Range(recordsIn(V))
      BY <1>19, <3>1, <3>2, <3>3 DEF Range
    <3> QED
      BY <3>1, <3>4 DEF Read
  <2> QED
    BY <1>18, <2>1, <2>2, <2>3
<1>21. Promised'
  BY <1>2 DEF IInv, Promised
<1>22. Clean'
  <2> SUFFICES ASSUME failures = 0, crashes = 0
               PROVE  /\ \A i \in 1 .. Len(recordsIn(V)) : recordsIn(V)[i][1].rec = i
                      /\ ~astray /\ torn = {} /\ reading(V).pos = Len(V)
                      /\ adding.sent + f.len < adding.size => Len(recordsIn(V)) = records - 1
                      /\ adding.sent + f.len = adding.size => Len(recordsIn(V)) = records
    <3>1. /\ flushed' = V /\ failures' = failures /\ crashes' = crashes /\ down' = down
          /\ astray' = astray /\ torn' = torn /\ records' = records
      BY <1>2, <1>8
    <3>2. adding.sent + f.len < adding.size \/ adding.sent + f.len = adding.size
      BY <1>3, <1>5
    <3>3. /\ adding' # Nothing /\ adding'.sent = adding.sent + f.len
          /\ adding'.size = adding.size
      BY <1>4
    <3> QED
      BY <1>5, <3>1, <3>2, <3>3 DEF Clean
  <2>1. /\ \A i \in 1 .. Len(recordsIn(W)) : recordsIn(W)[i][1].rec = i
        /\ astray = FALSE /\ torn = {} /\ reading(W).pos = Len(W)
        /\ Len(recordsIn(W)) = records - 1
    BY <1>2, <1>5, <1>6 DEF IInv, TypeOK, Clean
  <2>2. CASE adding.sent + f.len < adding.size
    <3>1. reading(V).pos = Len(V) /\ reading(V).out = reading(W).out
      BY <1>18, <2>1, <2>2
    <3> QED
      BY <1>3, <1>5, <1>19, <2>1, <2>2, <3>1
  <2>3. CASE adding.sent + f.len = adding.size
    <3>1. reading(V).pos = Len(V)
      BY <1>18, <2>1
    <3>2. PICK r \in Seq(Fragment) :
            reading(V).out = Append(reading(W).out, r) /\ r[1].rec = adding.rec
      BY <1>18, <2>1, <2>3
    <3>3. PICK out \in Seq(Seq(Fragment)) : out = recordsIn(W) /\ out = reading(W).out
      BY <1>19
    <3>4. PICK more :
            /\ more = Append(out, r) /\ Len(more) = Len(out) + 1
            /\ more[Len(out) + 1] = r /\ \A i \in 1 .. Len(out) : more[i] = out[i]
      <4>1. PICK more : more = Append(out, r)
        OBVIOUS
      <4>2. /\ Len(more) = Len(out) + 1 /\ more[Len(out) + 1] = r
            /\ \A i \in 1 .. Len(out) : more[i] = out[i]
        BY <4>1
      <4> QED
        BY <4>1, <4>2
    <3>5. recordsIn(V) = more
      BY <1>19, <3>2, <3>3, <3>4
    <3>6. Len(out) = records - 1 /\ Len(more) = records
      BY <1>5, <2>1, <3>3, <3>4
    <3>7. ASSUME NEW i \in 1 .. Len(more)
          PROVE  more[i][1].rec = i
      <4>1. CASE i \in 1 .. Len(out)
        BY <2>1, <3>3, <3>4, <4>1
      <4>2. CASE i = Len(out) + 1
        BY <1>5, <3>2, <3>4, <3>6, <4>2
      <4> QED
        BY <1>5, <3>6, <4>1, <4>2
    <3> QED
      BY <1>5, <2>1, <2>3, <3>1, <3>5, <3>6, <3>7
  <2> QED
    BY <1>3, <1>5, <2>2, <2>3
<1>23. Written(flushed)'
  BY <1>8, <1>13
<1> QED
  BY <1>11, <1>12, <1>14, <1>16, <1>17, <1>20, <1>21, <1>22, <1>23 DEF IInv

\* A step that changes nothing keeps the invariant.
LEMMA StutterInv ==
  ASSUME IInv, UNCHANGED vars
  PROVE  IInv'
<1>1. /\ UNCHANGED <<file, buf, onDisk, block_offset, adding, records, kept, synced,
                     astray, torn, down, crashes, failures>>
      /\ flushed' = flushed
  BY DEF vars, flushed
<1>2. TypeOK' /\ AddingOK' /\ Written(flushed)' /\ InBytes'
  BY <1>1 DEF IInv, TypeOK, AddingOK, InBytes
<1>3. Placed' /\ TornOK' /\ InProgress' /\ Promised' /\ Clean'
  BY <1>1 DEF IInv, Placed, TornOK, InProgress, Promised, Clean
<1> QED
  BY <1>2, <1>3 DEF IInv

\* Every step of the writer, of a crash and of a reuse keeps the invariant.
LEMMA NextInv == IInv /\ [Next]_vars => IInv'
<1> SUFFICES ASSUME IInv, [Next]_vars PROVE IInv'
  OBVIOUS
<1>1. CASE \E size \in Sizes : AddRecord(size)
  BY <1>1, AddRecordInv
<1>2. CASE AppendFragment
  BY <1>2, AppendFragmentInv
<1>3. CASE Flush
  BY <1>3, FlushInv
<1>4. CASE FailFlush
  BY <1>4, FailFlushInv
<1>5. CASE Sync
  BY <1>5, SyncInv
<1>6. CASE Crash
  BY <1>6, CrashInv
<1>7. CASE Reuse
  BY <1>7, ReuseInv
<1>8. CASE UNCHANGED vars
  BY <1>8, StutterInv
<1> QED
  BY <1>1, <1>2, <1>3, <1>4, <1>5, <1>6, <1>7, <1>8 DEF Next

\* The inductive invariant holds in every state of a log and its writers.
THEOREM Invariance == Spec => []IInv
<1> QED
  BY InitInv, NextInv, PTL DEF Spec

-----------------------------------------------------------------------------
(* What the reader of the file returns *)

\* The invariant implies the property: the file is a beginning of what was flushed.
LEMMA FileRead ==
  ASSUME IInv
  PROVE  OnlyWholeRecordsAreRead
<1>1. /\ file \in Bytes /\ flushed \in Bytes /\ Starts(file, flushed)
  BY FlushedType DEF IInv, TypeOK
<1>2. Written(file)
  BY <1>1, WrittenPrefix DEF IInv
<1>3. PICK out \in Seq(Seq(Fragment)) : out = recordsIn(file) /\ Len(out) \in Nat
  BY <1>1, ReadingType
<1>4. WholeOut(file, reading(file).pos, out)
  BY <1>1, <1>2, <1>3, ReadsWhole, ReadingType DEF ReadWhole
<1>5. DOMAIN out = 1 .. Len(out)
  OBVIOUS
<1>6. ASSUME NEW i \in DOMAIN out
      PROVE  /\ out[i][1].from = 0
             /\ \A j \in DOMAIN out[i] :
                  /\ out[i][j].rec = out[i][1].rec
                  /\ out[i][j].from + out[i][j].len =
                       IF j = Len(out[i]) THEN out[i][j].size ELSE out[i][j + 1].from
  <2>1. PICK r \in Seq(Fragment) : r = out[i] /\ WholeRecord(r)
    BY <1>3, <1>4, <1>5 DEF WholeOut
  <2>2. DOMAIN r = 1 .. Len(r)
    OBVIOUS
  <2>4. Len(r) \in Nat
    OBVIOUS
  <2>3. ASSUME NEW j \in 1 .. Len(r)
        PROVE  /\ r[j].rec = r[1].rec
               /\ r[j].from + r[j].len = IF j = Len(r) THEN r[j].size ELSE r[j + 1].from
    <3>1. CASE j = Len(r)
      BY <2>1, <2>2, <3>1 DEF WholeRecord, Joined
    <3>2. CASE j < Len(r)
      <4>1. j # Len(r)
        BY <2>4, <3>2
      <4>2. r[j].rec = r[1].rec /\ r[j].from + r[j].len = r[j + 1].from
        BY <2>1, <2>4, <3>2 DEF WholeRecord, Joined
      <4> QED
        BY <4>1, <4>2
    <3>3. j = Len(r) \/ j < Len(r)
      BY <2>4
    <3> QED
      BY <3>1, <3>2, <3>3
  <2> QED
    BY <2>1, <2>2, <2>3 DEF WholeRecord, Joined
<1>7. \A i, j \in DOMAIN out : i < j => out[i][1].rec < out[j][1].rec
  BY <1>4, <1>5 DEF WholeOut
<1>8. ASSUME failures = 0, crashes = IF down THEN 1 ELSE 0, NEW i \in DOMAIN out
      PROVE  out[i][1].rec = i
  <2>1. \A k \in 1 .. Len(recordsIn(flushed)) : recordsIn(flushed)[k][1].rec = k
    BY <1>8 DEF IInv, Clean
  <2>2. Starts(recordsIn(file), recordsIn(flushed)) /\ Len(recordsIn(flushed)) \in Nat
    BY <1>1, RecordsStay, ReadingType
  <2>3. i \in 1 .. Len(recordsIn(file))
    BY <1>3, <1>5, <1>8
  <2>4. /\ i \in 1 .. Len(recordsIn(flushed)) /\ recordsIn(flushed)[i] = out[i]
    BY <1>3, <2>2, <2>3 DEF Starts
  <2> QED
    BY <2>1, <2>4
<1> QED
  BY <1>3, <1>6, <1>7, <1>8 DEF OnlyWholeRecordsAreRead

\* Whatever was lost, torn or written in the wrong place, for blocks, headers
\* and records of every size: the log reader (ReadRecord) returns whole records
\* in the order they were added, and of a log that was not reused and whose
\* writes did not fail the first ones, without a gap.
THEOREM WholeRecordsRead == Spec => []OnlyWholeRecordsAreRead
<1>1. IInv => OnlyWholeRecordsAreRead
  BY FileRead
<1> QED
  BY <1>1, Invariance, PTL

\* A record AddRecord returned OK for is read after the process stops, and after
\* the machine stops if a sync followed, unless a failed write or a torn block
\* of a reused log stands before it; so do the records read at an earlier opening.
THEOREM NoAddedRecordLost == Spec => []AddedRecordsAreRead
<1>1. IInv => AddedRecordsAreRead
  BY DEF IInv, Promised, AddedRecordsAreRead, Read
<1> QED
  BY <1>1, Invariance, PTL

=============================================================================
