------------------------- MODULE InfiniteSetProofs -------------------------
(***************************************************************************)
(* The properties of InfiniteSet, for every deck and board size.           *)
(*                                                                         *)
(* The inductive invariant adds to EveryCardInOnePlace that the board and  *)
(* the deck hold a multiple of three cards each, which gives every draw of *)
(* removeSet its three cards as long as any are left, and that the whole   *)
(* deck of a game holds a set (DeckHasSet) ends the closing loop in time.  *)
(***************************************************************************)
EXTENDS InfiniteSet, GameProofs

\* Board, deck and discard deck share the cards.
Shared(board, pile, spare) ==
  /\ board \in Distinct(Card)
  /\ pile \in SUBSET Card /\ spare \in SUBSET Card
  /\ (Range(board) \cup pile) \cup spare = Card
  /\ Range(board) \cap pile = {} /\ Range(board) \cap spare = {}
  /\ pile \cap spare = {}
  /\ Len(board) >= 3 /\ Len(board) % 3 = 0
  /\ Cardinality(pile) % 3 = 0

IInv ==
  /\ Shared(displayedCards, deck, discardDeck)
  /\ selectedCards \in Distinct(DOMAIN displayedCards) /\ Len(selectedCards) <= 2
  /\ ~trapped

-----------------------------------------------------------------------------
(* Counting *)

\* What is not on a board of a multiple of three cards is a multiple of three.
LEMMA RestCount ==
  ASSUME NEW R \in SUBSET Card, Cardinality(R) % 3 = 0
  PROVE  Cardinality(Card \ R) % 3 = 0
<1>1. /\ Cardinality(Card) \in Nat /\ Cardinality(Card) % 3 = 0
      /\ Cardinality(R) \in Nat
  BY DeckSize, CardFinite, FS_Subset, FS_CardinalityType
<1>2. Cardinality(Card \ R) = Cardinality(Card) - Cardinality(R)
  <2>1. Card \cap R = R
    OBVIOUS
  <2>2. Cardinality(Card \ R) = Cardinality(Card) - Cardinality(Card \cap R)
    BY CardFinite, FS_Difference
  <2> QED
    BY <2>1, <2>2
<1>3. \A x, y \in Nat : x % 3 = 0 /\ y % 3 = 0 => (x - y) % 3 = 0
  OBVIOUS
<1> QED
  BY <1>1, <1>2, <1>3

\* Counts of shared cards.
LEMMA SharedCounts ==
  ASSUME NEW board, NEW pile, NEW spare, Shared(board, pile, spare)
  PROVE  /\ Len(board) \in Nat /\ Range(board) \in SUBSET Card
         /\ IsFiniteSet(pile) /\ Cardinality(pile) \in Nat
         /\ Card \ Range(board) = pile \cup spare
         /\ Cardinality(pile \cup spare) % 3 = 0
<1>1. /\ Len(board) \in Nat /\ Range(board) \in SUBSET Card
      /\ Cardinality(Range(board)) = Len(board)
  BY BoardIsDraw DEF Shared
<1>2. IsFiniteSet(pile) /\ Cardinality(pile) \in Nat
  BY CardFinite, FS_Subset, FS_CardinalityType DEF Shared
<1>3. Card \ Range(board) = pile \cup spare
  BY DEF Shared
<1>4. Cardinality(Card \ Range(board)) % 3 = 0
  BY <1>1, RestCount DEF Shared
<1> QED
  BY <1>1, <1>2, <1>3, <1>4

\* A pile that runs out is dealt to its last card before any spare card is.
LEMMA PileIsDealt ==
  ASSUME NEW pile, NEW spare, IsFiniteSet(pile), NEW m \in Nat,
         NEW s \in Draws(pile \cup spare, m), pileFirst(pile, s),
         m > Cardinality(pile)
  PROVE  pile \subseteq Range(s)
<1> DEFINE n == Cardinality(pile)
           S == pile \cup spare
           front == [x \in 1 .. n |-> s[x]]
<1>0. n \in Nat
  BY FS_CardinalityType
<1>1. s \in [1 .. m -> S] /\ \A x, y \in 1 .. m : s[x] = s[y] => x = y
  BY DEF Draws, Injection, IsInjective
<1>2. \A x \in 1 .. n : x \in 1 .. m /\ s[x] \in pile
  <2>1. DOMAIN s = 1 .. m
    BY <1>1
  <2>2. \A x \in 1 .. n : x \in 1 .. m /\ x <= n
    BY <1>0
  <2> QED
    BY <2>1, <2>2 DEF pileFirst
<1>3. front \in Draws(pile, n)
  <2>1. front \in [1 .. n -> pile]
    BY <1>2
  <2>2. IsInjective(front)
    BY <1>1, <1>2 DEF IsInjective
  <2> QED
    BY <2>1, <2>2 DEF Draws, Injection
<1>4. Range(front) \subseteq pile /\ Cardinality(Range(front)) = n
  BY <1>0, <1>3, DrawsType
<1>5. Range(front) = pile
  BY <1>4, FS_Subset
<1>6. Range(front) \subseteq Range(s)
  BY <1>1, <1>2 DEF Range
<1> QED
  BY <1>5, <1>6

\* The two piles P and Q that drawing s from a pile and its spare cards leaves.
NewPilesAre(pile, spare, s, P, Q) ==
  /\ P \in SUBSET Card /\ Q \in SUBSET Card
  /\ (Range(s) \cup P) \cup Q = pile \cup spare
  /\ Range(s) \cap P = {} /\ Range(s) \cap Q = {} /\ P \cap Q = {}
  /\ Cardinality(P) % 3 = 0
  /\ \/ Q = spare /\ pile \subseteq P \cup Range(s)
     \/ Q = {} /\ pile \subseteq Range(s)

\* Cards drawn from the deck and then from the reshuffled discards: what was
\* drawn and what is left are the same cards, and the discards were only
\* touched when all of the deck was drawn (the pieces of removeSet that draw).
LEMMA NewPiles ==
  ASSUME NEW pile, NEW spare, pile \in SUBSET Card, spare \in SUBSET Card,
         pile \cap spare = {},
         Cardinality(pile) % 3 = 0, Cardinality(pile \cup spare) % 3 = 0,
         NEW m, m \in Nat, m % 3 = 0,
         NEW s, s \in Draws(pile \cup spare, m), pileFirst(pile, s)
  PROVE  NewPilesAre(pile, spare, s, pileAfter(pile, spare, s), spareAfter(pile, spare, s))
<1> DEFINE P == pileAfter(pile, spare, s)
           Q == spareAfter(pile, spare, s)
<1> DEFINE S == pile \cup spare
<1>1. /\ IsFiniteSet(pile) /\ Cardinality(pile) \in Nat
      /\ IsFiniteSet(S) /\ Cardinality(S) \in Nat
  BY CardFinite, FS_Subset, FS_CardinalityType
<1>2. /\ Len(s) = m /\ DOMAIN s = 1 .. m /\ Range(s) \subseteq S
      /\ Cardinality(Range(s)) = m
  <2>1. Len(s) = m /\ Range(s) \subseteq S /\ Cardinality(Range(s)) = m
    BY DrawsType
  <2>2. DOMAIN s = 1 .. m
    BY DEF Draws, Injection
  <2> QED
    BY <2>1, <2>2
<1>3. \A x, y \in Nat : x % 3 = 0 /\ y % 3 = 0 => (x - y) % 3 = 0
  OBVIOUS
<1>4. \A T : T \in SUBSET S /\ Range(s) \subseteq T /\ Cardinality(T) % 3 = 0
               => Cardinality(T \ Range(s)) % 3 = 0
  <2> SUFFICES ASSUME NEW T, T \in SUBSET S, Range(s) \subseteq T, Cardinality(T) % 3 = 0
               PROVE  Cardinality(T \ Range(s)) % 3 = 0
    OBVIOUS
  <2>1. IsFiniteSet(T) /\ Cardinality(T) \in Nat
    BY <1>1, FS_Subset, FS_CardinalityType
  <2>2. T \cap Range(s) = Range(s)
    OBVIOUS
  <2>3. Cardinality(T \ Range(s)) = Cardinality(T) - Cardinality(T \cap Range(s))
    BY <2>1, FS_Difference
  <2>4. Cardinality(T \ Range(s)) = Cardinality(T) - m
    BY <1>2, <2>2, <2>3
  <2> QED
    BY <1>3, <2>1, <2>4
<1>5. CASE m > Cardinality(pile)
  <2>1. P = S \ Range(s) /\ Q = {}
    BY <1>2, <1>5 DEF pileAfter, spareAfter
  <2>2. pile \subseteq Range(s)
    BY <1>1, <1>5, PileIsDealt
  <2>3. Cardinality(P) % 3 = 0
    BY <1>2, <1>4, <2>1
  <2>4. P \in SUBSET Card /\ (Range(s) \cup P) \cup Q = S
        /\ Range(s) \cap P = {} /\ Range(s) \cap Q = {} /\ P \cap Q = {}
    BY <1>2, <2>1
  <2> QED
    BY <2>1, <2>2, <2>3, <2>4 DEF NewPilesAre
<1>6. CASE ~(m > Cardinality(pile))
  <2>1. P = pile \ Range(s) /\ Q = spare
    BY <1>2, <1>6 DEF pileAfter, spareAfter
  <2>2. Range(s) \subseteq pile
    <3>1. \A n \in 1 .. m : n <= Cardinality(pile)
      BY <1>1, <1>6
    <3>2. \A n \in DOMAIN s : s[n] \in pile
      BY <1>2, <3>1 DEF pileFirst
    <3> QED
      BY <3>2 DEF Range
  <2>3. Cardinality(P) % 3 = 0
    BY <1>4, <2>1, <2>2
  <2>4. P \in SUBSET Card /\ (Range(s) \cup P) \cup Q = S
        /\ Range(s) \cap P = {} /\ Range(s) \cap Q = {} /\ P \cap Q = {}
        /\ pile \subseteq P \cup Range(s)
    BY <2>1, <2>2
  <2> QED
    BY <2>1, <2>3, <2>4 DEF NewPilesAre
<1> QED
  BY <1>5, <1>6

-----------------------------------------------------------------------------
(* removeSet *)

\* The discard deck only changes once all of the deck lies on the board.
InOrder(pile, spare, board, newPile, newSpare) ==
  \/ spare \subseteq newSpare /\ pile \subseteq newPile \cup Range(board)
  \/ newSpare = {} /\ pile \subseteq Range(board)

\* Cards drawn as NewPiles says and laid on the board: R is what stays there.
LEMMA Dealing ==
  ASSUME NEW R, NEW pile, NEW spare,
         R \in SUBSET Card, pile \in SUBSET Card, spare \in SUBSET Card,
         (R \cup pile) \cup spare = Card,
         R \cap pile = {}, R \cap spare = {}, pile \cap spare = {},
         Cardinality(pile) % 3 = 0, Cardinality(R) % 3 = 0,
         NEW m, m \in Nat, m % 3 = 0,
         NEW s, s \in Draws(pile \cup spare, m), pileFirst(pile, s),
         NEW board, board \in Distinct(Card), Range(board) = R \cup Range(s),
         Len(board) >= 3, Len(board) % 3 = 0
  PROVE  /\ Shared(board, pileAfter(pile, spare, s), spareAfter(pile, spare, s))
         /\ InOrder(pile, spare, board, pileAfter(pile, spare, s), spareAfter(pile, spare, s))
         /\ spareAfter(pile, spare, s) \in {spare, {}}
<1> DEFINE P == pileAfter(pile, spare, s)
           Q == spareAfter(pile, spare, s)
<1>1. Cardinality(pile \cup spare) % 3 = 0
  <2>1. Card \ R = pile \cup spare
    OBVIOUS
  <2>2. Cardinality(Card \ R) % 3 = 0
    BY RestCount
  <2> QED
    BY <2>1, <2>2
<1>2. NewPilesAre(pile, spare, s, P, Q)
  BY <1>1, NewPiles
<1> HIDE DEF P, Q
<1>3. /\ P \in SUBSET Card /\ Q \in SUBSET Card
      /\ (Range(s) \cup P) \cup Q = pile \cup spare
      /\ Range(s) \cap P = {} /\ Range(s) \cap Q = {} /\ P \cap Q = {}
      /\ Cardinality(P) % 3 = 0
      /\ \/ Q = spare /\ pile \subseteq P \cup Range(s)
         \/ Q = {} /\ pile \subseteq Range(s)
  BY <1>2 DEF NewPilesAre
<1>4. /\ (Range(board) \cup P) \cup Q = Card
      /\ Range(board) \cap P = {} /\ Range(board) \cap Q = {}
  BY <1>3
<1>5. Shared(board, P, Q)
  BY <1>3, <1>4 DEF Shared
<1>6. InOrder(pile, spare, board, P, Q)
  BY <1>3 DEF InOrder
<1>7. Q \in {spare, {}}
  BY <1>3
<1> QED
  BY <1>5, <1>6, <1>7 DEF P, Q

\* Taking a set off the board and dealing three cards, or none, in its place.
LEMMA TakingShared ==
  ASSUME Shared(displayedCards, deck, discardDeck),
         NEW i, NEW j, NEW k,
         i \in 1..Len(displayedCards), j \in 1..Len(displayedCards),
         k \in 1..Len(displayedCards), i # j, i # k, j # k,
         NEW o \in afterTaking(i, j, k)
  PROVE  /\ Shared(o.board, o.pile, o.spare)
         /\ InOrder(deck, discardDeck, o.board, o.pile, o.spare)
<1> DEFINE b == displayedCards
           T == {b[i], b[j], b[k]}
           spare == discardDeck \cup T
<1>1. /\ b \in Distinct(Card) /\ deck \in SUBSET Card /\ discardDeck \in SUBSET Card
      /\ (Range(b) \cup deck) \cup discardDeck = Card
      /\ Range(b) \cap deck = {} /\ Range(b) \cap discardDeck = {}
      /\ deck \cap discardDeck = {}
      /\ Len(b) >= 3 /\ Len(b) % 3 = 0 /\ Cardinality(deck) % 3 = 0
  BY DEF Shared
<1>2. /\ Len(b) \in Nat /\ Range(b) \in SUBSET Card
      /\ IsFiniteSet(deck) /\ Cardinality(deck) \in Nat
  BY SharedCounts
<1>3. /\ b[i] \in Range(b) /\ b[j] \in Range(b) /\ b[k] \in Range(b)
      /\ b[i] # b[j] /\ b[i] # b[k] /\ b[j] # b[k]
  BY <1>1 DEF Distinct, IsInjective, Range
<1>4. /\ T \subseteq Range(b) /\ spare \in SUBSET Card /\ deck \cap spare = {}
      /\ (Range(b) \ T) \cap spare = {}
      /\ Card \ (Range(b) \ T) = deck \cup spare
  BY <1>1, <1>2, <1>3
<1>5. BoardSize \in Nat /\ BoardSize >= 3
  BY BoardSizeAssumption
<1>6. CASE Len(b) <= BoardSize
  <2>1. PICK s \in IF deck = {} THEN Draws(spare, 3) ELSE Draws(deck, 3) :
          o = [board |-> replaceThree(b, i, j, k, s),
               pile  |-> pileAfter(deck, spare, s),
               spare |-> spareAfter(deck, spare, s)]
    BY <1>6 DEF afterTaking, taken
  <2>2. s \in Draws(deck \cup spare, 3) /\ pileFirst(deck, s)
    <3>1. CASE deck = {}
      <4>1. Cardinality(deck) = 0 /\ deck \cup spare = spare /\ s \in Draws(spare, 3)
        BY <2>1, <3>1, FS_EmptySet
      <4>2. DOMAIN s = 1 .. 3
        BY <4>1 DEF Draws, Injection
      <4>3. \A n \in 1 .. 3 : ~(n <= 0)
        OBVIOUS
      <4>4. pileFirst(deck, s)
        BY <4>1, <4>2, <4>3 DEF pileFirst
      <4> QED
        BY <4>1, <4>4
    <3>2. CASE deck # {}
      <4>1. s \in Draws(deck, 3)
        BY <2>1, <3>2
      <4>2. s \in [1 .. 3 -> deck] /\ IsInjective(s)
        BY <4>1 DEF Draws, Injection
      <4>3. s \in [1 .. 3 -> deck \cup spare]
        BY <4>2
      <4> QED
        BY <4>2, <4>3 DEF Draws, Injection, pileFirst
    <3> QED
      BY <3>1, <3>2
  <2>3. Cardinality(Range(b) \ T) % 3 = 0
    <3>1. IsFiniteSet(Range(b)) /\ Cardinality(Range(b)) = Len(b)
      BY <1>1, BoardIsDraw
    <3>2. Cardinality(T) = 3
      BY <1>3, ThreeElements, ZenonT(30)
    <3>3. Cardinality(Range(b) \ T) = Len(b) - 3
      <4>1. Range(b) \cap T = T
        BY <1>3
      <4>2. Cardinality(Range(b) \ T) = Cardinality(Range(b)) - Cardinality(Range(b) \cap T)
        BY <3>1, FS_Difference
      <4> QED
        BY <3>1, <3>2, <4>1, <4>2
    <3> QED
      BY <1>1, <1>2, <3>3
  <2>5. /\ o.board \in Distinct(Card) /\ Len(o.board) = Len(b)
        /\ Range(o.board) = (Range(b) \ T) \cup Range(s)
    <3>1. PICK D \in SUBSET Card : (Range(b) \ T) \cap D = {} /\ s \in Draws(D, 3)
      <4>1. CASE deck = {}
        BY <1>4, <2>1, <4>1
      <4>2. CASE deck # {}
        BY <1>1, <2>1, <4>2
      <4> QED
        BY <4>1, <4>2
    <3>2. /\ replaceThree(b, i, j, k, s) \in Distinct(Card)
          /\ Len(replaceThree(b, i, j, k, s)) = Len(b)
          /\ Range(replaceThree(b, i, j, k, s)) = (Range(b) \ T) \cup Range(s)
      BY <1>1, <3>1, ReplaceThree
    <3> QED
      BY <2>1, <3>2
  <2>6. /\ Shared(o.board, pileAfter(deck, spare, s), spareAfter(deck, spare, s))
        /\ InOrder(deck, spare, o.board, pileAfter(deck, spare, s), spareAfter(deck, spare, s))
    <3> DEFINE R == Range(b) \ T
               m == 3
               d == o.board
    <3>1. /\ R \in SUBSET Card /\ (R \cup deck) \cup spare = Card
          /\ R \cap deck = {} /\ R \cap spare = {}
      BY <1>1, <1>2, <1>4
    <3>2. m \in Nat /\ m % 3 = 0 /\ s \in Draws(deck \cup spare, m)
      BY <2>2
    <3>3. d \in Distinct(Card) /\ Range(d) = R \cup Range(s) /\ Len(d) >= 3 /\ Len(d) % 3 = 0
      BY <1>1, <2>5
    <3>4. /\ deck \in SUBSET Card /\ spare \in SUBSET Card /\ deck \cap spare = {}
          /\ Cardinality(deck) % 3 = 0 /\ Cardinality(R) % 3 = 0 /\ pileFirst(deck, s)
      BY <1>1, <1>4, <2>2, <2>3
    <3> HIDE DEF T, spare, R, m, d
    <3>5. /\ Shared(d, pileAfter(deck, spare, s), spareAfter(deck, spare, s))
          /\ InOrder(deck, spare, d, pileAfter(deck, spare, s), spareAfter(deck, spare, s))
      BY ONLY <3>1, <3>2, <3>3, <3>4, Dealing
    <3> QED
      BY <3>5 DEF d
  <2>7. o.pile = pileAfter(deck, spare, s) /\ o.spare = spareAfter(deck, spare, s)
    BY <2>1
  <2>8. InOrder(deck, discardDeck, o.board, o.pile, o.spare)
    <3>1. discardDeck \subseteq spare
      OBVIOUS
    <3> HIDE DEF T, spare, b
    <3> QED
      BY <2>6, <2>7, <3>1 DEF InOrder
  <2> QED
    BY <2>6, <2>7, <2>8
<1>7. CASE ~(Len(b) <= BoardSize)
  <2>1. o = [board |-> removeThree(b, i, j, k), pile |-> deck, spare |-> spare]
    BY <1>7 DEF afterTaking, taken
  <2>2. /\ o.board \in Distinct(Card) /\ Len(o.board) = Len(b) - 3
        /\ Range(o.board) = Range(b) \ T
    <3>1. /\ removeThree(b, i, j, k) \in Distinct(Card)
          /\ Len(removeThree(b, i, j, k)) = Len(b) - 3
          /\ Range(removeThree(b, i, j, k)) = Range(b) \ T
      BY <1>1, RemoveThree
    <3> QED
      BY <2>1, <3>1
  <2>3. o.pile = deck /\ o.spare = spare
    BY <2>1
  <2>4. Len(o.board) >= 3 /\ Len(o.board) % 3 = 0
    <3>1. \A x, y \in Nat : y >= 3 /\ x > y /\ x % 3 = 0 /\ y % 3 = 0
                              => x - 3 >= 3 /\ (x - 3) % 3 = 0
      OBVIOUS
    <3> QED
      BY <1>1, <1>2, <1>5, <1>7, <2>2, <3>1, BoardSizeAssumption
  <2>5. InOrder(deck, discardDeck, o.board, o.pile, o.spare)
    BY <2>3 DEF InOrder
  <2>6. /\ (Range(o.board) \cup o.pile) \cup o.spare = Card
        /\ Range(o.board) \cap o.pile = {} /\ Range(o.board) \cap o.spare = {}
        /\ o.pile \cap o.spare = {}
        /\ o.pile \in SUBSET Card /\ o.spare \in SUBSET Card
    <3> HIDE DEF T, spare
    <3> QED
      BY <1>1, <1>2, <1>4, <2>2, <2>3
  <2> QED
    BY <1>1, <2>2, <2>3, <2>4, <2>5, <2>6 DEF Shared
<1> QED
  BY <1>6, <1>7

\* Board and decks when the closing loop is reached, whether a set was taken or
\* not.
LEMMA BeforeShared ==
  ASSUME Shared(displayedCards, deck, discardDeck),
         NEW i, NEW j, NEW k,
         i \in 1..Len(displayedCards), j \in 1..Len(displayedCards),
         k \in 1..Len(displayedCards), i # j, i # k, j # k,
         NEW o \in beforeRefill(i, j, k)
  PROVE  /\ Shared(o.board, o.pile, o.spare)
         /\ InOrder(deck, discardDeck, o.board, o.pile, o.spare)
<1>1. CASE found(i, j, k)
  <2>1. o \in afterTaking(i, j, k)
    BY <1>1 DEF beforeRefill
  <2> QED
    BY <2>1, TakingShared
<1>2. CASE ~found(i, j, k)
  <2>1. o.board = displayedCards /\ o.pile = deck /\ o.spare = discardDeck
    BY <1>2 DEF beforeRefill
  <2>2. InOrder(deck, discardDeck, o.board, o.pile, o.spare)
    BY <2>1 DEF InOrder
  <2> QED
    BY <2>1, <2>2
<1> QED
  BY <1>1, <1>2

\* Fruitless rounds deal out a set of cards that leaves the board without a set.
LEMMA EarlyRounds ==
  ASSUME NEW o, Shared(o.board, o.pile, o.spare), NEW early \in FruitlessRounds(o)
  PROVE  \E m \in Nat : /\ m % 3 = 0 /\ early \in Draws(o.pile \cup o.spare, m)
                        /\ Cardinality(Range(early)) = m
                        /\ noSets(Range(o.board) \cup Range(early))
<1> DEFINE S == o.pile \cup o.spare
<1>1. PICK T \in SUBSET S : /\ Cardinality(T) % 3 = 0 /\ early \in Draws(T, Cardinality(T))
                            /\ noSets(Range(o.board) \cup T)
  BY DEF FruitlessRounds
<1>2. IsFiniteSet(T) /\ Cardinality(T) \in Nat
  BY CardFinite, FS_Subset, FS_CardinalityType DEF Shared
<1> DEFINE m == Cardinality(T)
<1>3. early \in Draws(S, m)
  BY <1>1 DEF Draws, Injection
<1>4. Range(early) \subseteq T /\ Cardinality(Range(early)) = m
  BY <1>1, <1>2, DrawsType
<1>5. Range(early) = T
  BY <1>2, <1>4, FS_Subset
<1> QED
  BY <1>1, <1>2, <1>3, <1>4, <1>5

\* The closing loop draws whole rounds, the deck first, until the board holds a
\* set.
LEMMA RefillIsDraw ==
  ASSUME NEW o, Shared(o.board, o.pile, o.spare), NEW s \in Refills(o)
  PROVE  /\ \E m \in Nat : m % 3 = 0 /\ s \in Draws(o.pile \cup o.spare, m)
         /\ pileFirst(o.pile, s)
         /\ ~noSets(Range(o.board) \cup Range(s))
<1> DEFINE S == o.pile \cup o.spare
<1>1. CASE ~noSets(Range(o.board))
  <2>1. s = <<>> /\ DOMAIN s = {}
    BY <1>1 DEF Refills
  <2>2. s \in Draws(S, 0)
    BY <2>1 DEF Draws, Injection, IsInjective
  <2>3. pileFirst(o.pile, s)
    BY <2>1 DEF pileFirst
  <2>4. Range(o.board) \cup Range(s) = Range(o.board)
    BY <2>1 DEF Range
  <2>5. \E m \in Nat : m % 3 = 0 /\ s \in Draws(S, m)
    <3>1. 0 \in Nat /\ 0 % 3 = 0
      OBVIOUS
    <3> QED
      BY <2>2, <3>1
  <2> QED
    BY <1>1, <2>3, <2>4, <2>5
<1>2. CASE noSets(Range(o.board))
  <2>1. /\ s \in UNION {{early \o last : last \in Draws(S \ Range(early), 3)} :
                          early \in FruitlessRounds(o)}
        /\ pileFirst(o.pile, s) /\ ~noSets(Range(o.board) \cup Range(s))
    BY <1>2 DEF Refills
  <2>2. PICK early \in FruitlessRounds(o) :
          \E last \in Draws(S \ Range(early), 3) : s = early \o last
    BY <2>1
  <2>3. PICK last \in Draws(S \ Range(early), 3) : s = early \o last
    BY <2>2
  <2>4. PICK n \in Nat : n % 3 = 0 /\ early \in Draws(S, n)
    BY EarlyRounds
  <2> HIDE DEF S
  <2>5. s \in Draws(S, n + 3)
    BY <2>3, <2>4, DrawsConcat
  <2>6. n + 3 \in Nat /\ (n + 3) % 3 = 0
    BY <2>4
  <2> QED
    BY <2>1, <2>5, <2>6 DEF S
<1> QED
  BY <1>1, <1>2

\* What the closing loop leaves: the cards shared, the discards only shuffled in
\* when they had to be, and a set on the board.
LEMMA RefillShared ==
  ASSUME NEW o, Shared(o.board, o.pile, o.spare), NEW s \in Refills(o)
  PROVE  /\ Shared(o.board \o s, pileAfter(o.pile, o.spare, s), spareAfter(o.pile, o.spare, s))
         /\ InOrder(o.pile, o.spare, o.board \o s,
                    pileAfter(o.pile, o.spare, s), spareAfter(o.pile, o.spare, s))
         /\ spareAfter(o.pile, o.spare, s) \in {o.spare, {}}
         /\ Range(o.board) \subseteq Range(o.board \o s)
         /\ ~noSets(Range(o.board \o s))
<1> DEFINE b == o.board
           pile == o.pile
           spare == o.spare
           S == pile \cup spare
<1>1. /\ b \in Distinct(Card) /\ pile \in SUBSET Card /\ spare \in SUBSET Card
      /\ (Range(b) \cup pile) \cup spare = Card
      /\ Range(b) \cap pile = {} /\ Range(b) \cap spare = {}
      /\ pile \cap spare = {}
      /\ Len(b) >= 3 /\ Len(b) % 3 = 0 /\ Cardinality(pile) % 3 = 0
  BY DEF Shared
<1>2. PICK m \in Nat : m % 3 = 0 /\ s \in Draws(S, m)
  BY RefillIsDraw
<1>3. pileFirst(pile, s) /\ ~noSets(Range(b) \cup Range(s))
  BY RefillIsDraw
<1> DEFINE d == b \o s
           R == Range(b)
<1>4. R \in SUBSET Card /\ Len(b) \in Nat /\ Cardinality(R) % 3 = 0
  <2>1. b \in Distinct(Card) /\ Len(b) % 3 = 0
    BY <1>1
  <2> HIDE DEF b
  <2>2. Range(b) \subseteq Card /\ Len(b) \in Nat /\ Cardinality(Range(b)) = Len(b)
    BY <2>1, BoardIsDraw
  <2> QED
    BY <2>1, <2>2
<1>5. S \in SUBSET Card /\ R \cap S = {}
  BY <1>1
<1>6. d \in Distinct(Card) /\ Range(d) = R \cup Range(s) /\ Len(d) = Len(b) + m
  <2> HIDE DEF b, S
  <2>1. b \in Distinct(Card) /\ S \in SUBSET Card /\ Range(b) \cap S = {}
        /\ m \in Nat /\ s \in Draws(S, m)
    BY <1>1, <1>2, <1>5
  <2> QED
    BY <2>1, AppendDraw, SMTT(30)
<1>7. Len(d) >= 3 /\ Len(d) % 3 = 0
  <2>1. \A x, y \in Nat : x >= 3 /\ x % 3 = 0 /\ y % 3 = 0 => x + y >= 3 /\ (x + y) % 3 = 0
    OBVIOUS
  <2> QED
    BY <1>1, <1>2, <1>4, <1>6, <2>1
<1>8. /\ Shared(d, pileAfter(pile, spare, s), spareAfter(pile, spare, s))
      /\ InOrder(pile, spare, d, pileAfter(pile, spare, s), spareAfter(pile, spare, s))
      /\ spareAfter(pile, spare, s) \in {spare, {}}
  <2>1. m \in Nat /\ m % 3 = 0 /\ s \in Draws(pile \cup spare, m) /\ pileFirst(pile, s)
    BY <1>2, <1>3
  <2>2. /\ pile \in SUBSET Card /\ spare \in SUBSET Card
        /\ (R \cup pile) \cup spare = Card
        /\ R \cap pile = {} /\ R \cap spare = {} /\ pile \cap spare = {}
        /\ Cardinality(pile) % 3 = 0
    BY <1>1
  <2> HIDE DEF b, pile, spare, S, d, R
  <2> QED
    BY ONLY <1>4, <1>6, <1>7, <2>1, <2>2, Dealing
<1>9. R \subseteq Range(d) /\ ~noSets(Range(d))
  BY <1>3, <1>6
<1> QED
  BY <1>8, <1>9

\* What a completed triple leaves (InfiniteSet.removeSet).
LEMMA RemoveSetShared ==
  ASSUME Shared(displayedCards, deck, discardDeck),
         NEW i, NEW j, NEW k,
         i \in 1..Len(displayedCards), j \in 1..Len(displayedCards),
         k \in 1..Len(displayedCards), i # j, i # k, j # k,
         NEW q \in beforeRefill(i, j, k), NEW s \in Refills(q),
         NEW board, board = q.board \o s,
         NEW pile, pile = pileAfter(q.pile, q.spare, s),
         NEW spare, spare = spareAfter(q.pile, q.spare, s)
  PROVE  /\ Shared(board, pile, spare)
         /\ InOrder(deck, discardDeck, board, pile, spare)
         /\ ~noSets(Range(board))
<1>1. /\ Shared(q.board, q.pile, q.spare)
      /\ InOrder(deck, discardDeck, q.board, q.pile, q.spare)
  BY BeforeShared
<1>2. /\ Shared(board, pile, spare)
      /\ InOrder(q.pile, q.spare, board, pile, spare)
      /\ spare \in {q.spare, {}}
      /\ Range(q.board) \subseteq Range(board)
      /\ ~noSets(Range(board))
  BY <1>1, RefillShared
<1>3. InOrder(deck, discardDeck, board, pile, spare)
  BY <1>1, <1>2 DEF InOrder
<1> QED
  BY <1>2, <1>3

\* The runtime never stops removeSet: the deck is a multiple of three cards, the
\* board keeps at least three, and rounds that deal all the cards out put a set
\* on the board.
LEMMA NoTraps ==
  ASSUME Shared(displayedCards, deck, discardDeck),
         NEW i, NEW j, NEW k,
         i \in 1..Len(displayedCards), j \in 1..Len(displayedCards),
         k \in 1..Len(displayedCards), i # j, i # k, j # k
  PROVE  ~removeSetTraps(i, j, k)
<1>1. Cardinality(deck) \notin 1..2
  <2>1. Cardinality(deck) \in Nat /\ Cardinality(deck) % 3 = 0
    BY SharedCounts DEF Shared
  <2> QED
    BY <2>1
<1>2. ASSUME NEW o \in beforeRefill(i, j, k)
      PROVE  /\ ~(Len(o.board) < 2)
             /\ \A early \in FruitlessRounds(o) :
                  ~(Cardinality((o.pile \cup o.spare) \ Range(early)) < 3)
  <2>1. Shared(o.board, o.pile, o.spare)
    BY BeforeShared
  <2>2. Len(o.board) \in Nat /\ Len(o.board) >= 3
    BY <2>1, SharedCounts DEF Shared
  <2>3. ASSUME NEW early \in FruitlessRounds(o),
               Cardinality((o.pile \cup o.spare) \ Range(early)) < 3
        PROVE  FALSE
    <3> DEFINE S == o.pile \cup o.spare
               rest == S \ Range(early)
    <3>1. PICK m \in Nat : /\ m % 3 = 0 /\ early \in Draws(S, m)
                           /\ Cardinality(Range(early)) = m
                           /\ noSets(Range(o.board) \cup Range(early))
      BY <2>1, EarlyRounds
    <3>2. IsFiniteSet(S) /\ Cardinality(S) \in Nat /\ Cardinality(S) % 3 = 0
          /\ (Range(o.board) \cup S) = Card
      BY <2>1, SharedCounts, CardFinite, FS_Subset, FS_CardinalityType DEF Shared
    <3>3. Range(early) \subseteq S
      BY <3>1, DrawsType
    <3>4. Cardinality(rest) = Cardinality(S) - m
      <4>1. S \cap Range(early) = Range(early)
        BY <3>3
      <4>2. Cardinality(rest) = Cardinality(S) - Cardinality(S \cap Range(early))
        BY <3>2, FS_Difference
      <4> QED
        BY <3>1, <4>1, <4>2
    <3>5. IsFiniteSet(rest) /\ Cardinality(rest) \in Nat
      BY <3>2, FS_Subset, FS_CardinalityType
    <3>6. Cardinality(rest) = 0
      <4>1. \A x, y, z \in Nat : x % 3 = 0 /\ y % 3 = 0 /\ z = x - y /\ z < 3 => z = 0
        OBVIOUS
      <4> HIDE DEF rest, S
      <4>2. Cardinality(rest) < 3
        BY <2>3 DEF rest, S
      <4> QED
        BY <3>1, <3>2, <3>4, <3>5, <4>1, <4>2
    <3>7. rest = {}
      BY <3>5, <3>6, FS_EmptySet
    <3>8. Range(o.board) \cup Range(early) = Card
      BY <3>2, <3>3, <3>7
    <3> QED
      BY <3>1, <3>8, DeckHasSet
  <2>4. ~(Len(o.board) < 2)
    BY <2>2
  <2>5. \A early \in FruitlessRounds(o) :
          ~(Cardinality((o.pile \cup o.spare) \ Range(early)) < 3)
    BY ONLY <2>3
  <2> QED
    BY ONLY <2>4, <2>5
<1> QED
  BY <1>1, <1>2 DEF removeSetTraps

-----------------------------------------------------------------------------
(* The invariant holds at first and is kept *)

\* The invariant holds once Game.init has dealt the board.
LEMMA InitIInv == Init => IInv
<1> SUFFICES ASSUME Init PROVE IInv
  OBVIOUS
<1> DEFINE d == displayedCards
<1>1. /\ d \in Draws(Card, BoardSize) /\ deck = Card \ Range(d) /\ discardDeck = {}
      /\ selectedCards = <<>> /\ trapped = FALSE
  BY DEF Init, GameInit
<1>2. BoardSize \in Nat /\ BoardSize >= 3 /\ BoardSize % 3 = 0
  BY BoardSizeAssumption
<1>3. /\ d \in Distinct(Card) /\ Len(d) = BoardSize
      /\ Range(d) \subseteq Card /\ Cardinality(Range(d)) = BoardSize
  BY <1>1, <1>2, DrawsType
<1>4. Cardinality(deck) % 3 = 0
  BY <1>1, <1>2, <1>3, RestCount
<1>5. Shared(d, deck, discardDeck)
  BY <1>1, <1>2, <1>3, <1>4 DEF Shared
<1>6. selectedCards \in Distinct(DOMAIN d) /\ Len(selectedCards) <= 2
  BY <1>1, EmptySeq DEF Distinct, IsInjective
<1> QED
  BY <1>1, <1>5, <1>6 DEF IInv

\* What a tap that completes a triple does (InfiniteSet.selectCard).
LEMMA TripleStep ==
  ASSUME IInv, NEW i \in DOMAIN displayedCards, CompleteTriple(i)
  PROVE  /\ Shared(displayedCards, deck, discardDeck)'
         /\ InOrder(deck, discardDeck, displayedCards', deck', discardDeck')
         /\ ~noSets(Range(displayedCards'))
         /\ selectedCards' = <<>> /\ trapped' = trapped
<1> DEFINE D == DOMAIN displayedCards
           p == picked(i)
           a == p[1]
           b == p[2]
           c == p[3]
<1>1. Shared(displayedCards, deck, discardDeck)
  BY DEF IInv
<1>2. D = 1..Len(displayedCards)
  BY <1>1 DEF Shared, Distinct
<1>3. selectedCards \in Distinct(D) /\ Len(selectedCards) <= 2 /\ Len(p) = 3
  BY DEF IInv, CompleteTriple
<1>4. /\ a \in 1..Len(displayedCards) /\ b \in 1..Len(displayedCards)
      /\ c \in 1..Len(displayedCards) /\ a # b /\ a # c /\ b # c
  BY <1>2, <1>3, PickedType
<1>5. ~removeSetTraps(a, b, c)
  BY <1>1, <1>4, NoTraps
<1>6. removeSet(a, b, c) /\ selectedCards' = <<>> /\ trapped' = trapped
  BY <1>5 DEF CompleteTriple
<1>7. PICK q \in beforeRefill(a, b, c) : \E s \in Refills(q) :
        /\ displayedCards' = q.board \o s
        /\ deck' = pileAfter(q.pile, q.spare, s)
        /\ discardDeck' = spareAfter(q.pile, q.spare, s)
  BY <1>6 DEF removeSet
<1>8. PICK s \in Refills(q) :
        /\ displayedCards' = q.board \o s
        /\ deck' = pileAfter(q.pile, q.spare, s)
        /\ discardDeck' = spareAfter(q.pile, q.spare, s)
  BY <1>7
<1>9. /\ Shared(displayedCards', deck', discardDeck')
      /\ InOrder(deck, discardDeck, displayedCards', deck', discardDeck')
      /\ ~noSets(Range(displayedCards'))
  BY <1>1, <1>4, <1>8, RemoveSetShared
<1> QED
  BY <1>6, <1>9

\* Every tap keeps the invariant.
LEMMA NextKeepsIInv == IInv /\ [Next]_vars => IInv'
<1> SUFFICES ASSUME IInv, [Next]_vars PROVE IInv'
  OBVIOUS
<1>1. ASSUME NEW i \in DOMAIN displayedCards, PickCard(i), UNCHANGED discardDeck
      PROVE  IInv'
  <2>1. /\ Len(picked(i)) < 3 /\ selectedCards' = picked(i)
        /\ UNCHANGED <<deck, displayedCards, trapped, discardDeck>>
    BY <1>1 DEF PickCard
  <2>2. picked(i) \in Distinct(DOMAIN displayedCards) /\ Len(picked(i)) \in Nat
    BY PickedType DEF IInv
  <2>3. selectedCards' \in Distinct(DOMAIN displayedCards') /\ Len(selectedCards') <= 2
    BY <2>1, <2>2
  <2>4. Shared(displayedCards', deck', discardDeck')
    BY <2>1 DEF IInv
  <2> QED
    BY <2>1, <2>3, <2>4 DEF IInv
<1>2. ASSUME NEW i \in DOMAIN displayedCards, CompleteTriple(i)
      PROVE  IInv'
  <2>1. /\ Shared(displayedCards, deck, discardDeck)'
        /\ selectedCards' = <<>> /\ trapped' = trapped
    BY <1>2, TripleStep
  <2>2. selectedCards' \in Distinct(DOMAIN displayedCards') /\ Len(selectedCards') <= 2
    BY <2>1, EmptySeq DEF Distinct, IsInjective
  <2> QED
    BY <2>1, <2>2 DEF IInv
<1>3. CASE UNCHANGED vars
  BY <1>3 DEF vars, gameVars, IInv, Shared
<1> QED
  BY <1>1, <1>2, <1>3 DEF Next, selectCard

\* The inductive invariant holds in every state of every practice game.
THEOREM Invariance == Spec => []IInv
<1>1. Init => IInv
  BY InitIInv
<1>2. IInv /\ [Next]_vars => IInv'
  BY NextKeepsIInv
<1> QED
  BY <1>1, <1>2, PTL DEF Spec

-----------------------------------------------------------------------------
(* The properties *)

\* Every card is in one place and only once, through any number of reshuffles
\* (InfiniteSet.removeSet).
THEOREM EveryCardStays == Spec => []EveryCardInOnePlace
<1>1. IInv => EveryCardInOnePlace
  BY DEF IInv, Shared, EveryCardInOnePlace, Distinct, Board
<1> QED
  BY <1>1, Invariance, PTL

\* The practice mode is never stopped: every draw has a card and noSets() always
\* has a board to look at (InfiniteSet.removeSet, Deck.drawCard).
THEOREM NeverStopped == Spec => []NeverTraps
<1>1. IInv => NeverTraps
  BY DEF IInv, NeverTraps
<1> QED
  BY <1>1, Invariance, PTL

\* However a triple was played, the next board holds a set
\* (InfiniteSet.removeSet).
THEOREM NextBoardHasSet == Spec => AlwaysPlayable
<1> DEFINE A == selectedCards' = <<>> /\ selectedCards # <<>> => ~noSets(Board)'
<1>1. IInv /\ [Next]_vars => [A]_vars
  <2> SUFFICES ASSUME IInv, NEW i \in DOMAIN displayedCards, selectCard(i),
                      selectedCards' = <<>>
               PROVE  ~noSets(Board)'
    BY DEF Next
  <2>1. ~PickCard(i)
    <3>1. selectedCards \in Seq(DOMAIN displayedCards)
      BY DEF IInv, Distinct
    <3>2. picked(i) # <<>>
      <4>1. Len(selectedCards) \in Nat
        BY <3>1
      <4>2. Contains(selectedCards, i) => selectedCards # <<>>
        BY DEF Contains
      <4>3. Append(selectedCards, i) # <<>>
        BY <3>1, AppendProperties
      <4> QED
        BY <4>2, <4>3 DEF picked
    <3> QED
      BY <3>2 DEF PickCard
  <2>2. CompleteTriple(i)
    BY <2>1 DEF selectCard
  <2> QED
    BY <2>2, TripleStep DEF Board
<1> QED
  BY <1>1, Invariance, PTL DEF Spec, AlwaysPlayable

\* A discarded card comes back only after all of the deck was dealt
\* (InfiniteSet.removeSet, Deck.drawCard).
THEOREM DeckComesFirst == Spec => DeckBeforeDiscards
<1> DEFINE A == ~(discardDeck \subseteq discardDeck') => deck \subseteq Board' /\ discardDeck' = {}
<1>1. IInv /\ [Next]_vars => [A]_vars
  <2> SUFFICES ASSUME IInv, NEW i \in DOMAIN displayedCards, selectCard(i),
                      ~(discardDeck \subseteq discardDeck')
               PROVE  deck \subseteq Board' /\ discardDeck' = {}
    BY DEF Next
  <2>1. CompleteTriple(i)
    BY DEF selectCard
  <2>2. InOrder(deck, discardDeck, displayedCards', deck', discardDeck')
    BY <2>1, TripleStep
  <2> QED
    BY <2>2 DEF InOrder, Board
<1> QED
  BY <1>1, Invariance, PTL DEF Spec, DeckBeforeDiscards

=============================================================================
