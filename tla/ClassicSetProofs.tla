-------------------------- MODULE ClassicSetProofs --------------------------
(***************************************************************************)
(* The safety properties of ClassicSet, for every deck and board size.     *)
(*                                                                         *)
(* The inductive invariant adds two facts to what the properties say: the  *)
(* cards on the board and in the deck are balanced (GameProofs), which     *)
(* makes the last three a set, and the deck holds a multiple of three      *)
(* cards, which gives every draw of removeSet a card.  That every tap is a *)
(* step of GameRound, or none, rests on one fact more: a board without a   *)
(* set, while the deck has cards, is the first deal (StuckOnlyAtFirst).    *)
(***************************************************************************)
EXTENDS ClassicSet, GameProofs

\* Board and deck of a game in which n sets were taken.
Accounted(board, pile, n) ==
  /\ board \in Distinct(Card)
  /\ pile \in SUBSET Card
  /\ Range(board) \cap pile = {}
  /\ n \in Nat
  /\ Cardinality(pile) + Len(board) + 3 * n = Cardinality(Card)
  /\ Cardinality(pile) % 3 = 0
  /\ Balanced(Range(board) \cup pile)

IInv ==
  /\ TypeOK
  /\ Accounted(displayedCards, deck, numSets)
  /\ Len(displayedCards) >= 3
  /\ trapped => deck = {} /\ Len(displayedCards) = 3

-----------------------------------------------------------------------------

\* Counts of an accounted position.
LEMMA AccountedCounts ==
  ASSUME NEW board, NEW pile, NEW n, Accounted(board, pile, n)
  PROVE  /\ Len(board) \in Nat /\ Len(board) % 3 = 0
         /\ IsFiniteSet(pile) /\ Cardinality(pile) \in Nat
         /\ n \in Nat
         /\ Range(board) \subseteq Card /\ Cardinality(Range(board)) = Len(board)
<1>1. /\ Len(board) \in Nat /\ Range(board) \subseteq Card
      /\ Cardinality(Range(board)) = Len(board)
  BY BoardIsDraw DEF Accounted
<1>2. IsFiniteSet(pile) /\ Cardinality(pile) \in Nat
  BY CardFinite, FS_Subset, FS_CardinalityType DEF Accounted
<1>3. /\ Cardinality(pile) + Len(board) + 3 * n = Cardinality(Card)
      /\ Cardinality(pile) % 3 = 0
      /\ Cardinality(Card) \in Nat /\ Cardinality(Card) % 3 = 0
      /\ n \in Nat
  BY DeckSize DEF Accounted
<1>4. \A x, y, z, m \in Nat : x + y + 3 * m = z /\ x % 3 = 0 /\ z % 3 = 0 => y % 3 = 0
  OBVIOUS
<1>5. Len(board) % 3 = 0
  BY <1>1, <1>2, <1>3, <1>4
<1> QED
  BY <1>1, <1>2, <1>3, <1>5

\* Taking a set off the board accounts for three more cards.
LEMMA TakingAccounted ==
  ASSUME Accounted(displayedCards, deck, numSets),
         NEW i, NEW j, NEW k,
         i \in 1..Len(displayedCards), j \in 1..Len(displayedCards),
         k \in 1..Len(displayedCards), i # j, i # k, j # k,
         found(i, j, k), NEW o \in afterTaking(i, j, k)
  PROVE  /\ Accounted(o.board, o.pile, numSets + 1)
         /\ \/ Len(o.board) = Len(displayedCards)
            \/ /\ Len(o.board) = Len(displayedCards) - 3
               /\ Len(displayedCards) > BoardSize \/ deck = {}
<1> DEFINE b == displayedCards
           T == {b[i], b[j], b[k]}
<1>1. /\ b \in Distinct(Card) /\ deck \in SUBSET Card /\ Range(b) \cap deck = {}
      /\ numSets \in Nat
      /\ Cardinality(deck) + Len(b) + 3 * numSets = Cardinality(Card)
      /\ Cardinality(deck) % 3 = 0
      /\ Balanced(Range(b) \cup deck)
  BY DEF Accounted
<1>2. /\ Len(b) \in Nat /\ Cardinality(deck) \in Nat /\ IsFiniteSet(deck)
      /\ Cardinality(Card) \in Nat
  BY AccountedCounts, DeckSize
<1>3. /\ b[i] \in Range(b) /\ b[j] \in Range(b) /\ b[k] \in Range(b)
      /\ b[i] # b[j] /\ b[i] # b[k] /\ b[j] # b[k]
  BY <1>1 DEF Distinct, IsInjective, Range
<1>4. Balanced((Range(b) \cup deck) \ T)
  <2>1. Range(b) \cup deck \in SUBSET Card
    BY <1>1, BoardIsDraw
  <2>2. isSet(b[i], b[j], b[k])
    BY DEF found
  <2> QED
    BY <1>1, <1>3, <2>1, <2>2, SetIsBalanced
<1>5. T \cap deck = {}
  BY <1>1, <1>3
<1>6. CASE Len(b) <= BoardSize /\ deck # {}
  <2>1. PICK s \in Draws(deck, 3) :
          o = [board |-> replaceThree(b, i, j, k, s), pile |-> deck \ Range(s)]
    BY <1>6 DEF afterTaking
  <2>2. /\ o.board \in Distinct(Card) /\ Len(o.board) = Len(b)
        /\ Range(o.board) = (Range(b) \ T) \cup Range(s)
    BY <1>1, <2>1, ReplaceThree
  <2>3. o.pile = deck \ Range(s)
    BY <2>1
  <2>4. Range(s) \subseteq deck /\ Cardinality(Range(s)) = 3
    BY DrawsType
  <2>5. Cardinality(deck \ Range(s)) = Cardinality(deck) - 3
    <3>1. deck \cap Range(s) = Range(s)
      BY <2>4
    <3>2. Cardinality(deck \ Range(s)) = Cardinality(deck) - Cardinality(deck \cap Range(s))
      BY <1>2, FS_Difference
    <3> QED
      BY <2>4, <3>1, <3>2
  <2>6. (Cardinality(deck) - 3) % 3 = 0
    BY <1>1, <1>2
  <2>7. Range(o.board) \cap o.pile = {} /\ o.pile \in SUBSET Card
    BY <1>1, <2>2, <2>3
  <2>8. Range(o.board) \cup o.pile = (Range(b) \cup deck) \ T
    BY <1>5, <2>2, <2>3, <2>4
  <2>9. Cardinality(o.pile) + Len(o.board) + 3 * (numSets + 1) = Cardinality(Card)
    <3>1. Cardinality(o.pile) = Cardinality(deck) - 3 /\ Len(o.board) = Len(b)
      BY <2>2, <2>3, <2>5
    <3> QED
      BY <1>1, <1>2, <3>1
  <2>10. Balanced(Range(o.board) \cup o.pile)
    BY <1>4, <2>8
  <2>11. numSets + 1 \in Nat
    BY <1>1
  <2>12. Cardinality(o.pile) % 3 = 0
    BY <2>3, <2>5, <2>6
  <2>13. Accounted(o.board, o.pile, numSets + 1)
    BY <2>2, <2>7, <2>9, <2>10, <2>11, <2>12 DEF Accounted
  <2>14. Len(o.board) = Len(displayedCards)
    BY <2>2
  <2> QED
    BY <2>13, <2>14
<1>7. CASE ~(Len(b) <= BoardSize /\ deck # {})
  <2>1. o = [board |-> removeThree(b, i, j, k), pile |-> deck]
    BY <1>7 DEF afterTaking
  <2>2. /\ o.board \in Distinct(Card) /\ Len(o.board) = Len(b) - 3
        /\ Range(o.board) = Range(b) \ T
    <3>1. /\ removeThree(b, i, j, k) \in Distinct(Card)
          /\ Len(removeThree(b, i, j, k)) = Len(b) - 3
          /\ Range(removeThree(b, i, j, k)) = Range(b) \ T
      BY <1>1, RemoveThree
    <3> QED
      BY <2>1, <3>1
  <2>3. o.pile = deck
    BY <2>1
  <2>4. Range(o.board) \cup o.pile = (Range(b) \cup deck) \ T
    BY <1>5, <2>2, <2>3
  <2>5. Cardinality(o.pile) + Len(o.board) + 3 * (numSets + 1) = Cardinality(Card)
    BY <1>1, <1>2, <2>2, <2>3
  <2>6. Accounted(o.board, o.pile, numSets + 1)
    <3>1. Balanced(Range(o.board) \cup o.pile)
      BY <1>4, <2>4
    <3>2. numSets + 1 \in Nat
      BY <1>1
    <3>3. /\ o.pile \in SUBSET Card /\ Range(o.board) \cap o.pile = {}
          /\ Cardinality(o.pile) % 3 = 0
      BY <1>1, <2>2, <2>3
    <3> QED
      BY <2>2, <2>5, <3>1, <3>2, <3>3 DEF Accounted
  <2>7. Len(b) > BoardSize \/ deck = {}
    BY <1>2, <1>7, BoardSizeAssumption
  <2> QED
    BY <2>2, <2>3, <2>6, <2>7
<1> QED
  BY <1>6, <1>7

\* The while loop draws whole rounds: when the pile is a multiple of three, so
\* is the refill.
LEMMA RefillIsDraw ==
  ASSUME NEW board, NEW pile, IsFiniteSet(pile), Cardinality(pile) % 3 = 0,
         NEW s \in Refills(board, pile)
  PROVE  \E n \in Nat : n % 3 = 0 /\ s \in Draws(pile, n)
<1>1. CASE ~noSets(board)
  <2>1. s = <<>>
    BY <1>1 DEF Refills
  <2>2. s \in Draws(pile, 0)
    BY <2>1 DEF Draws, Injection, IsInjective
  <2> QED
    BY <2>2
<1>2. CASE noSets(board)
  <2>0. PICK early \in FruitlessRounds(board, pile) :
          \E last \in LastRound(board \cup Range(early), pile \ Range(early)) :
            s = early \o last
    BY <1>2 DEF Refills
  <2>1. PICK last \in LastRound(board \cup Range(early), pile \ Range(early)) :
          s = early \o last
    BY <2>0
  <2>2. PICK T \in SUBSET pile : Cardinality(T) % 3 = 0 /\ early \in Draws(T, Cardinality(T))
    BY <2>1 DEF FruitlessRounds
  <2> DEFINE n == Cardinality(T)
             rest == pile \ Range(early)
  <2>3. n \in Nat /\ n % 3 = 0 /\ Cardinality(pile) \in Nat
    BY <2>2, FS_Subset, FS_CardinalityType
  <2>4. early \in Draws(pile, n)
    BY <2>2 DEF Draws, Injection
  <2> HIDE DEF n
  <2>5. Range(early) \subseteq pile /\ Cardinality(Range(early)) = n
    BY <2>3, <2>4, DrawsType
  <2>6. pile \cap Range(early) = Range(early)
    BY <2>5
  <2>7. IsFiniteSet(rest) /\ Cardinality(rest) = Cardinality(pile) - n
    BY <2>5, <2>6, FS_Difference, ZenonT(30)
  <2>8. Cardinality(rest) \in Nat /\ Cardinality(rest) % 3 = 0
    BY <2>3, <2>7, FS_CardinalityType
  <2>9. \E m \in Nat : m % 3 = 0 /\ last \in Draws(rest, m)
    <3>1. CASE Cardinality(rest) < 3
      BY <2>1, <2>8, <3>1 DEF LastRound
    <3>2. CASE ~(Cardinality(rest) < 3)
      <4>1. last \in Draws(rest, 3) /\ 3 % 3 = 0
        BY <2>1, <3>2 DEF LastRound
      <4> QED
        BY <4>1
    <3> QED
      BY <3>1, <3>2
  <2>10. PICK m \in Nat : m % 3 = 0 /\ last \in Draws(rest, m)
    BY <2>9
  <2>11. s \in Draws(pile, n + m)
    BY <2>1, <2>3, <2>4, <2>10, DrawsConcat
  <2>12. n + m \in Nat /\ (n + m) % 3 = 0
    BY <2>3, <2>10
  <2> QED
    BY <2>11, <2>12
<1> QED
  BY <1>1, <1>2

\* Refilling moves cards from the deck to the board.
LEMMA RefillAccounted ==
  ASSUME NEW board, NEW pile, NEW n, Accounted(board, pile, n),
         NEW s \in Refills(Range(board), pile)
  PROVE  /\ Accounted(board \o s, pile \ Range(s), n)
         /\ Len(board \o s) >= Len(board)
<1>1. /\ board \in Distinct(Card) /\ pile \in SUBSET Card /\ Range(board) \cap pile = {}
      /\ n \in Nat
      /\ Cardinality(pile) + Len(board) + 3 * n = Cardinality(Card)
      /\ Cardinality(pile) % 3 = 0
      /\ Balanced(Range(board) \cup pile)
  BY DEF Accounted
<1>2. /\ Len(board) \in Nat /\ Cardinality(pile) \in Nat /\ IsFiniteSet(pile)
      /\ Cardinality(Card) \in Nat
  BY AccountedCounts, DeckSize
<1>3. PICK m \in Nat : m % 3 = 0 /\ s \in Draws(pile, m)
  BY <1>1, <1>2, RefillIsDraw
<1>4. Range(s) \subseteq pile /\ Cardinality(Range(s)) = m
  BY <1>3, DrawsType
<1>5. /\ board \o s \in Distinct(Card) /\ Len(board \o s) = Len(board) + m
      /\ Range(board \o s) = Range(board) \cup Range(s)
  <2>1. board \in Distinct(Card) /\ pile \in SUBSET Card /\ Range(board) \cap pile = {}
    BY <1>1
  <2>2. m \in Nat /\ s \in Draws(pile, m)
    BY <1>3
  <2>3. board \o s \in Distinct(Card) /\ Range(board \o s) = Range(board) \cup Range(s)
    BY <2>1, <2>2, AppendDraw
  <2>4. Len(board \o s) = Len(board) + m
    <3>1. board \in Seq(Card)
      BY <2>1 DEF Distinct
    <3>2. s \in Seq(pile) /\ Len(s) = m
      BY <2>2, DrawsType DEF Distinct
    <3>3. s \in Seq(Card)
      BY <2>1, <3>2, SeqMonotonic
    <3> QED
      BY <3>1, <3>2, <3>3
  <2> QED
    BY <2>3, <2>4
<1>6. Cardinality(pile \ Range(s)) = Cardinality(pile) - m
  <2>1. pile \cap Range(s) = Range(s)
    BY <1>4
  <2>2. Cardinality(pile \ Range(s)) = Cardinality(pile) - Cardinality(pile \cap Range(s))
    BY <1>2, FS_Difference
  <2> QED
    BY <1>4, <2>1, <2>2
<1>7. Cardinality(pile \ Range(s)) % 3 = 0
  BY <1>1, <1>2, <1>3, <1>6
<1>8. Cardinality(pile \ Range(s)) + Len(board \o s) + 3 * n = Cardinality(Card)
  <2>1. Len(board \o s) = Len(board) + m
    BY <1>5
  <2> QED
    BY <1>1, <1>2, <1>6, <2>1
<1>9. /\ pile \ Range(s) \in SUBSET Card
      /\ Range(board \o s) \cap (pile \ Range(s)) = {}
      /\ Range(board \o s) \cup (pile \ Range(s)) = Range(board) \cup pile
  BY <1>1, <1>4, <1>5
<1>10. Balanced(Range(board \o s) \cup (pile \ Range(s)))
  BY <1>1, <1>9
<1>11. Accounted(board \o s, pile \ Range(s), n)
  BY <1>1, <1>5, <1>7, <1>8, <1>9, <1>10 DEF Accounted
<1>12. Len(board \o s) >= Len(board)
  BY <1>2, <1>5
<1> QED
  BY <1>11, <1>12

-----------------------------------------------------------------------------
(* The invariant holds at first and is kept *)

\* The invariant holds once Game.init has dealt the board.
LEMMA InitIInv == GameInit => IInv
<1> SUFFICES ASSUME GameInit PROVE IInv
  OBVIOUS
<1>1. /\ displayedCards \in Draws(Card, BoardSize)
      /\ deck = Card \ Range(displayedCards)
      /\ selectedCards = <<>> /\ numSets = 0 /\ trapped = FALSE
  BY DEF GameInit
<1>2. BoardSize \in Nat /\ BoardSize >= 3 /\ BoardSize % 3 = 0
  BY BoardSizeAssumption
<1>3. /\ displayedCards \in Distinct(Card) /\ Len(displayedCards) = BoardSize
      /\ Range(displayedCards) \subseteq Card
      /\ Cardinality(Range(displayedCards)) = BoardSize
  BY <1>1, <1>2, DrawsType
<1>4. Cardinality(Card) \in Nat /\ Cardinality(Card) % 3 = 0
  BY DeckSize
<1>5. Cardinality(deck) = Cardinality(Card) - BoardSize
  <2>1. Card \cap Range(displayedCards) = Range(displayedCards)
    BY <1>3
  <2>2. Cardinality(Card \ Range(displayedCards))
          = Cardinality(Card) - Cardinality(Card \cap Range(displayedCards))
    BY CardFinite, FS_Difference
  <2> QED
    BY <1>1, <1>3, <2>1, <2>2
<1>6. Cardinality(deck) % 3 = 0
  BY <1>2, <1>4, <1>5
<1>7. Cardinality(deck) + Len(displayedCards) + 3 * numSets = Cardinality(Card)
  BY <1>1, <1>2, <1>3, <1>4, <1>5
<1>8. Range(displayedCards) \cup deck = Card
  BY <1>1, <1>3
<1>9. Balanced(Range(displayedCards) \cup deck)
  BY <1>8, DeckIsBalanced
<1>10. Accounted(displayedCards, deck, numSets)
  BY <1>1, <1>3, <1>6, <1>7, <1>9 DEF Accounted
<1>11. TypeOK
  <2>1. displayedCards \in Seq(Card)
    BY <1>3 DEF Distinct
  <2>2. selectedCards \in Seq(DOMAIN displayedCards) /\ Len(selectedCards) <= 2
    BY <1>1, EmptySeq
  <2>3. IsInjective(selectedCards)
    BY <1>1 DEF IsInjective
  <2>4. deck \in SUBSET Card /\ numSets \in Nat /\ trapped \in BOOLEAN
    BY <1>1
  <2> QED
    BY <2>1, <2>2, <2>3, <2>4 DEF TypeOK
<1> QED
  BY <1>1, <1>2, <1>3, <1>10, <1>11 DEF IInv

\* The runtime stops removeSet only when the last three cards are taken.
LEMMA TrapsOnLastThree ==
  ASSUME IInv, NEW i, NEW j, NEW k,
         i \in 1..Len(displayedCards), j \in 1..Len(displayedCards),
         k \in 1..Len(displayedCards), i # j, i # k, j # k,
         removeSetTraps(i, j, k)
  PROVE  deck = {} /\ Len(displayedCards) = 3
<1>1. /\ Accounted(displayedCards, deck, numSets) /\ found(i, j, k)
      /\ Len(displayedCards) >= 3
  BY DEF IInv, removeSetTraps
<1>2. /\ Len(displayedCards) \in Nat /\ Len(displayedCards) % 3 = 0
      /\ Cardinality(deck) \in Nat /\ Cardinality(deck) % 3 = 0
  BY <1>1, AccountedCounts DEF Accounted
<1>3. Cardinality(deck) \notin 1..2
  BY <1>2
<1>4. PICK o \in afterTaking(i, j, k) : Len(o.board) < 2
  BY <1>3 DEF removeSetTraps
<1>5. \/ Len(o.board) = Len(displayedCards)
      \/ /\ Len(o.board) = Len(displayedCards) - 3
         /\ Len(displayedCards) > BoardSize \/ deck = {}
  BY <1>1, TakingAccounted
<1>6. BoardSize \in Nat /\ BoardSize >= 3
  BY BoardSizeAssumption
<1>7. Len(displayedCards) = 3
  <2>1. \A x, y \in Int : x >= 3 /\ x % 3 = 0 /\ y < 2 /\ (y = x \/ y = x - 3) => x = 3
    OBVIOUS
  <2>2. Len(o.board) \in Int
    BY <1>2, <1>5
  <2> DEFINE x == Len(displayedCards)
             y == Len(o.board)
  <2>3. x \in Int /\ x >= 3 /\ x % 3 = 0 /\ y < 2 /\ (y = x \/ y = x - 3)
    BY <1>1, <1>2, <1>4, <1>5
  <2> HIDE DEF x, y
  <2> QED
    BY <2>1, <2>2, <2>3 DEF x, y
<1> QED
  BY <1>1, <1>4, <1>5, <1>6, <1>7, SMTT(30)

\* What a completed triple leaves is accounted for.
LEMMA RemoveSetAccounted ==
  ASSUME IInv, NEW i, NEW j, NEW k,
         i \in 1..Len(displayedCards), j \in 1..Len(displayedCards),
         k \in 1..Len(displayedCards), i # j, i # k, j # k,
         ~removeSetTraps(i, j, k), NEW o \in removeSet(i, j, k)
  PROVE  /\ Accounted(o.board, o.pile, numSets + (IF found(i, j, k) THEN 1 ELSE 0))
         /\ Len(o.board) >= 3
<1>1. /\ Accounted(displayedCards, deck, numSets) /\ Len(displayedCards) >= 3
      /\ Len(displayedCards) \in Nat /\ numSets \in Nat
  BY AccountedCounts DEF IInv
<1> DEFINE n == numSets + (IF found(i, j, k) THEN 1 ELSE 0)
           before == IF found(i, j, k)
                     THEN afterTaking(i, j, k)
                     ELSE {[board |-> displayedCards, pile |-> deck]}
<1>2. PICK p \in before :
        \E s \in Refills(Range(p.board), p.pile) :
          o = [board |-> p.board \o s, pile |-> p.pile \ Range(s)]
  BY ZenonT(30) DEF removeSet
<1>3. PICK s \in Refills(Range(p.board), p.pile) :
        o = [board |-> p.board \o s, pile |-> p.pile \ Range(s)]
  BY <1>2
<1>4. Accounted(p.board, p.pile, n) /\ Len(p.board) >= 2
  <2>1. CASE found(i, j, k)
    <3>1. p \in afterTaking(i, j, k) /\ n = numSets + 1
      BY <2>1
    <3>2. Accounted(p.board, p.pile, numSets + 1)
      BY <1>1, <2>1, <3>1, TakingAccounted
    <3>3. ~(Len(p.board) < 2)
      BY <2>1, <3>1 DEF removeSetTraps
    <3>4. Len(p.board) \in Nat
      BY <3>2, AccountedCounts
    <3> QED
      BY <3>1, <3>2, <3>3, <3>4
  <2>2. CASE ~found(i, j, k)
    <3>1. p = [board |-> displayedCards, pile |-> deck]
      BY <2>2
    <3>2. n = numSets
      BY <1>1, <2>2
    <3>3. p.board = displayedCards /\ p.pile = deck
      BY <3>1
    <3> QED
      BY <1>1, <3>2, <3>3
  <2> QED
    BY <2>1, <2>2
<1>5. /\ Accounted(p.board \o s, p.pile \ Range(s), n)
      /\ Len(p.board \o s) >= Len(p.board)
  BY <1>4, RefillAccounted
<1>6. /\ Len(p.board) \in Nat
      /\ Len(p.board \o s) \in Nat /\ Len(p.board \o s) % 3 = 0
  BY <1>4, <1>5, AccountedCounts
<1>7. Len(p.board \o s) >= 3
  <2>1. \A x, y \in Nat : x >= 2 /\ y >= x /\ y % 3 = 0 => y >= 3
    OBVIOUS
  <2> QED
    BY <1>4, <1>5, <1>6, <2>1, Zenon
<1>8. o.board = p.board \o s /\ o.pile = p.pile \ Range(s)
  BY <1>3
<1> QED
  BY <1>5, <1>7, <1>8

\* The picks are distinct positions, as the lemmas about them want it.
LEMMA SelectionType ==
  ASSUME TypeOK
  PROVE  /\ selectedCards \in Distinct(DOMAIN displayedCards) /\ Len(selectedCards) <= 2
         /\ DOMAIN displayedCards = 1..Len(displayedCards)
BY DEF TypeOK, Distinct

\* A tap that only picks a card keeps the invariant (Game.selectCard).
LEMMA PickCardKeepsIInv ==
  ASSUME IInv, NEW i \in DOMAIN displayedCards, PickCard(i)
  PROVE  IInv'
<1>1. /\ Len(picked(i)) < 3 /\ selectedCards' = picked(i)
      /\ UNCHANGED <<deck, displayedCards, numSets, trapped>>
  BY DEF PickCard
<1>2. TypeOK
  BY DEF IInv
<1>3. picked(i) \in Distinct(DOMAIN displayedCards) /\ Len(picked(i)) \in Nat
  BY <1>2, SelectionType, PickedType
<1>4. /\ selectedCards' \in Seq(DOMAIN displayedCards')
      /\ Len(selectedCards') <= 2
      /\ IsInjective(selectedCards')
  BY <1>1, <1>3 DEF Distinct
<1>5. TypeOK'
  BY <1>1, <1>2, <1>4 DEF TypeOK
<1>6. Accounted(displayedCards, deck, numSets)'
  BY <1>1 DEF IInv, Accounted
<1> QED
  BY <1>1, <1>5, <1>6 DEF IInv

\* A tap that completes a triple keeps the invariant, whether removeSet takes a
\* set, leaves the board alone, refills it or is stopped (Set.removeSet).
LEMMA CompleteTripleKeepsIInv ==
  ASSUME IInv, NEW i \in DOMAIN displayedCards, ~trapped, CompleteTriple(i)
  PROVE  IInv'
<1> DEFINE p == picked(i)
           a == p[1]
           b == p[2]
           c == p[3]
<1>1. TypeOK
  BY DEF IInv
<1>2. Len(p) = 3
  BY DEF CompleteTriple
<1>3. /\ a \in 1..Len(displayedCards) /\ b \in 1..Len(displayedCards)
      /\ c \in 1..Len(displayedCards)
      /\ a # b /\ a # c /\ b # c
  BY <1>1, <1>2, SelectionType, PickedType
<1>4. CASE removeSetTraps(a, b, c)
  <2>1. trapped' = TRUE /\ UNCHANGED <<deck, displayedCards, selectedCards, numSets>>
    BY <1>4 DEF CompleteTriple
  <2>2. deck = {} /\ Len(displayedCards) = 3
    BY <1>3, <1>4, TrapsOnLastThree
  <2>3. TypeOK'
    BY <1>1, <2>1 DEF TypeOK
  <2>4. Accounted(displayedCards, deck, numSets)'
    BY <2>1 DEF IInv, Accounted
  <2> QED
    BY <2>1, <2>2, <2>3, <2>4 DEF IInv
<1>5. CASE ~removeSetTraps(a, b, c)
  <2>1. /\ \E o \in removeSet(a, b, c) : displayedCards' = o.board /\ deck' = o.pile
        /\ numSets' = numSets + (IF found(a, b, c) THEN 1 ELSE 0)
        /\ selectedCards' = <<>>
        /\ trapped' = trapped
    BY <1>5 DEF CompleteTriple
  <2>2. PICK o \in removeSet(a, b, c) : displayedCards' = o.board /\ deck' = o.pile
    BY <2>1
  <2>3. /\ Accounted(o.board, o.pile, numSets + (IF found(a, b, c) THEN 1 ELSE 0))
        /\ Len(o.board) >= 3
    BY <1>3, <1>5, RemoveSetAccounted
  <2>4. Accounted(displayedCards', deck', numSets') /\ Len(displayedCards') >= 3
    BY <2>1, <2>2, <2>3
  <2>5. TypeOK'
    <3>1. displayedCards' \in Seq(Card) /\ deck' \in SUBSET Card /\ numSets' \in Nat
      BY <2>4 DEF Accounted, Distinct
    <3>2. /\ selectedCards' \in Seq(DOMAIN displayedCards') /\ Len(selectedCards') <= 2
          /\ IsInjective(selectedCards')
      BY <2>1, EmptySeq DEF IsInjective
    <3>3. trapped' \in BOOLEAN
      BY <1>1, <2>1 DEF TypeOK
    <3> QED
      BY <3>1, <3>2, <3>3 DEF TypeOK
  <2>6. ~trapped'
    BY <2>1
  <2> QED
    BY <2>4, <2>5, <2>6 DEF IInv
<1> QED
  BY <1>4, <1>5

\* Every tap keeps the invariant.
LEMMA NextKeepsIInv == IInv /\ [Next]_gameVars => IInv'
<1> SUFFICES ASSUME IInv, [Next]_gameVars PROVE IInv'
  OBVIOUS
<1>1. ASSUME NEW i \in DOMAIN displayedCards, selectCard(i)
      PROVE  IInv'
  <2>1. CASE PickCard(i)
    BY <2>1, PickCardKeepsIInv
  <2>2. CASE CompleteTriple(i)
    BY <1>1, <2>2, CompleteTripleKeepsIInv DEF selectCard
  <2> QED
    BY <1>1, <2>1, <2>2 DEF selectCard
<1>2. CASE UNCHANGED gameVars
  BY <1>2 DEF gameVars, IInv, TypeOK, Accounted
<1> QED
  BY <1>1, <1>2 DEF Next

\* The inductive invariant holds in every state of every game.
THEOREM Invariance == Spec => []IInv
<1>1. GameInit => IInv
  BY InitIInv
<1>2. IInv /\ [Next]_gameVars => IInv'
  BY NextKeepsIInv
<1> QED
  BY <1>1, <1>2, PTL DEF Spec

\* Three cards left are balanced, and so a set.
LEMMA ThreeLeftAreSet ==
  ASSUME NEW d, NEW pile, NEW n, Accounted(d, pile, n), pile = {}, Len(d) = 3
  PROVE  isSet(d[1], d[2], d[3])
<1>1. d \in Distinct(Card) /\ Balanced(Range(d) \cup pile)
  BY DEF Accounted
<1>2. d \in [1..3 -> Card] /\ DOMAIN d = 1..3 /\ IsInjective(d)
  BY <1>1, LenProperties DEF Distinct
<1>3. 1..3 = {1, 2, 3}
  OBVIOUS
<1>4. Range(d) \cup pile = {d[1], d[2], d[3]}
  BY <1>2, <1>3 DEF Range
<1>5. /\ d[1] \in Card /\ d[2] \in Card /\ d[3] \in Card
      /\ d[1] # d[2] /\ d[1] # d[3] /\ d[2] # d[3]
  BY <1>2, <1>3 DEF IsInjective
<1> QED
  BY <1>1, <1>4, <1>5, BalancedThree

\* Cards left without a set among them are six or more.
LEMMA OverHasSix ==
  ASSUME NEW d, NEW pile, NEW n, Accounted(d, pile, n), Len(d) >= 3,
         pile = {}, noSets(Range(d))
  PROVE  Len(d) >= 6
<1>1. d \in Distinct(Card) /\ Len(d) \in Nat /\ Len(d) % 3 = 0
  BY AccountedCounts DEF Accounted
<1>2. ASSUME Len(d) = 3 PROVE FALSE
  <2>1. isSet(d[1], d[2], d[3])
    BY <1>2, ThreeLeftAreSet
  <2>2. DOMAIN d = 1..3 /\ IsInjective(d)
    BY <1>1, <1>2 DEF Distinct
  <2>3. 1 \in 1..3 /\ 2 \in 1..3 /\ 3 \in 1..3
    OBVIOUS
  <2>4. d[1] \in Range(d) /\ d[2] \in Range(d) \ {d[1]} /\ d[3] \in Range(d) \ {d[1], d[2]}
    BY <2>2, <2>3 DEF Range, IsInjective
  <2> QED
    BY <2>1, <2>4 DEF noSets
<1>3. \A x \in Nat : x >= 3 /\ x % 3 = 0 /\ x # 3 => x >= 6
  OBVIOUS
<1> QED
  BY <1>1, <1>2, <1>3, Zenon

-----------------------------------------------------------------------------
(* The properties *)

\* Every variable keeps its type; in particular the positions selectCard holds
\* are distinct positions of the board (Game.selectCard).
THEOREM TypeCorrect == Spec => []TypeOK
<1>1. IInv => TypeOK
  BY DEF IInv
<1> QED
  BY <1>1, Invariance, PTL

\* No card is lost, duplicated or dealt twice (Set.removeSet).
THEOREM EveryCardAccounted == Spec => []CardsAccounted
<1>1. IInv => CardsAccounted
  BY DEF IInv, Accounted, CardsAccounted, Distinct, Board
<1> QED
  BY <1>1, Invariance, PTL

\* The last three cards of any game are a set, so that a game that is not
\* ended early by its cards always comes to the set whose removal empties the
\* board (Set.removeSet, Game.noSets).
THEOREM LastThree == Spec => []LastThreeAreASet
<1>1. IInv => LastThreeAreASet
  BY ThreeLeftAreSet DEF IInv, LastThreeAreASet
<1> QED
  BY <1>1, Invariance, PTL

\* The runtime stops a game only when its last three cards are taken: every
\* draw of removeSet has a card (Set.removeSet, Deck.drawCard).
THEOREM OnlyLastSetTraps == Spec => []TrapsOnlyOnLastSet
<1>1. ASSUME IInv, trapped
      PROVE  deck = {} /\ Len(displayedCards) = 3 /\ 3 * (numSets + 1) = Cardinality(Card)
  <2>1. deck = {} /\ Len(displayedCards) = 3 /\ numSets \in Nat
    BY <1>1 DEF IInv, TypeOK
  <2>2. Cardinality(deck) + Len(displayedCards) + 3 * numSets = Cardinality(Card)
    BY <1>1 DEF IInv, Accounted
  <2>3. Cardinality(deck) = 0
    BY <2>1, FS_EmptySet
  <2> QED
    BY <2>1, <2>2, <2>3
<1>2. IInv => TrapsOnlyOnLastSet
  BY <1>1 DEF TrapsOnlyOnLastSet
<1> QED
  BY <1>2, Invariance, PTL

\* A game that ends, ends with at least six cards on the board (Set.gameOver).
THEOREM SixLeft == Spec => []OverLeavesSix
<1>1. IInv => OverLeavesSix
  BY OverHasSix DEF IInv, OverLeavesSix, gameOver, Board
<1> QED
  BY <1>1, Invariance, PTL

-----------------------------------------------------------------------------
(* The action properties *)

\* The while loop ends for one of two reasons.
LEMMA RefillEnds ==
  ASSUME NEW board, NEW pile, IsFiniteSet(pile), Cardinality(pile) % 3 = 0,
         NEW s \in Refills(board, pile)
  PROVE  ~noSets(board \cup Range(s)) \/ pile \ Range(s) = {}
<1>1. CASE ~noSets(board)
  <2>1. s = <<>>
    BY <1>1 DEF Refills
  <2>2. Range(s) = {}
    BY <2>1 DEF Range
  <2>3. board \cup Range(s) = board
    BY <2>2
  <2> QED
    BY <1>1, <2>3
<1>2. CASE noSets(board)
  <2>0. PICK early \in FruitlessRounds(board, pile) :
          \E last \in LastRound(board \cup Range(early), pile \ Range(early)) :
            s = early \o last
    BY <1>2 DEF Refills
  <2> DEFINE rest == pile \ Range(early)
  <2>1. PICK last \in LastRound(board \cup Range(early), rest) : s = early \o last
    BY <2>0
  <2>2. PICK T \in SUBSET pile : early \in Draws(T, Cardinality(T))
    BY <2>1 DEF FruitlessRounds
  <2>3. Cardinality(T) \in Nat /\ IsFiniteSet(rest) /\ Cardinality(rest) \in Nat
    BY <2>2, FS_Subset, FS_CardinalityType, FS_Difference
  <2>4. early \in Draws(pile, Cardinality(T))
    BY <2>2 DEF Draws, Injection
  <2>5. CASE Cardinality(rest) < 3
    <3>1. last \in Draws(rest, Cardinality(rest))
      BY <2>1, <2>5 DEF LastRound
    <3>2. Range(last) \subseteq rest /\ Cardinality(Range(last)) = Cardinality(rest)
      BY <2>3, <3>1, DrawsType
    <3>3. Range(last) = rest
      BY <2>3, <3>2, FS_Subset
    <3>4. Range(s) = Range(early) \cup Range(last)
      BY <2>1, <2>3, <2>4, <3>1, DrawsConcat
    <3> QED
      BY <3>3, <3>4
  <2>6. CASE ~(Cardinality(rest) < 3)
    <3>1. last \in Draws(rest, 3) /\ ~noSets((board \cup Range(early)) \cup Range(last))
      BY <2>1, <2>6 DEF LastRound
    <3>2. Range(s) = Range(early) \cup Range(last)
      BY <2>1, <2>3, <2>4, <3>1, DrawsConcat
    <3>3. (board \cup Range(early)) \cup Range(last) = board \cup Range(s)
      BY <3>2
    <3> QED
      BY <3>1, <3>3
  <2> QED
    BY <2>5, <2>6
<1> QED
  BY <1>1, <1>2

\* What removeSet leaves can be played on, or the deck is empty.
LEMMA RemoveSetPlayable ==
  ASSUME IInv, NEW i, NEW j, NEW k,
         i \in 1..Len(displayedCards), j \in 1..Len(displayedCards),
         k \in 1..Len(displayedCards), i # j, i # k, j # k,
         NEW o \in removeSet(i, j, k)
  PROVE  ~noSets(Range(o.board)) \/ o.pile = {}
<1>1. Accounted(displayedCards, deck, numSets)
  BY DEF IInv
<1> DEFINE before == IF found(i, j, k)
                     THEN afterTaking(i, j, k)
                     ELSE {[board |-> displayedCards, pile |-> deck]}
<1>2. PICK p \in before :
        \E s \in Refills(Range(p.board), p.pile) :
          o = [board |-> p.board \o s, pile |-> p.pile \ Range(s)]
  BY ZenonT(30) DEF removeSet
<1>3. PICK s \in Refills(Range(p.board), p.pile) :
        o = [board |-> p.board \o s, pile |-> p.pile \ Range(s)]
  BY <1>2
<1>4. PICK n \in Nat : Accounted(p.board, p.pile, n)
  <2>1. CASE found(i, j, k)
    <3>1. p \in afterTaking(i, j, k)
      BY <2>1
    <3>2. Accounted(p.board, p.pile, numSets + 1)
      BY <1>1, <2>1, <3>1, TakingAccounted
    <3> QED
      BY <3>2, AccountedCounts
  <2>2. CASE ~found(i, j, k)
    <3>1. p = [board |-> displayedCards, pile |-> deck]
      BY <2>2
    <3>2. p.board = displayedCards /\ p.pile = deck
      BY <3>1
    <3> QED
      BY <1>1, <3>2, AccountedCounts
  <2> QED
    BY <2>1, <2>2
<1>5. IsFiniteSet(p.pile) /\ Cardinality(p.pile) % 3 = 0 /\ p.board \in Seq(Card)
  BY <1>4, AccountedCounts DEF Accounted, Distinct
<1>6. PICK m \in Nat : s \in Draws(p.pile, m)
  BY <1>5, RefillIsDraw
<1>7. s \in Seq(Card)
  <2>1. s \in Seq(p.pile) /\ p.pile \subseteq Card
    BY <1>4, <1>6, DrawsType DEF Accounted, Distinct
  <2> QED
    BY <2>1, SeqMonotonic
<1>8. Range(p.board \o s) = Range(p.board) \cup Range(s)
  BY <1>5, <1>7, RangeConcatenation
<1>9. ~noSets(Range(p.board) \cup Range(s)) \/ p.pile \ Range(s) = {}
  BY <1>5, RefillEnds
<1>10. o.board = p.board \o s /\ o.pile = p.pile \ Range(s)
  BY <1>3
<1> QED
  BY <1>8, <1>9, <1>10

\* After a triple was played the board holds a set or there is no card left to
\* add (Set.removeSet).
THEOREM AlwaysPlayable == Spec => PlayableAfterTriple
<1> DEFINE A == (Len(selectedCards) = 2 /\ selectedCards' = <<>>) =>
                  (~noSets(Board)' \/ deck' = {})
<1>1. IInv /\ [Next]_gameVars => [A]_gameVars
  <2> SUFFICES ASSUME IInv, NEW i \in DOMAIN displayedCards, selectCard(i),
                      Len(selectedCards) = 2, selectedCards' = <<>>
               PROVE  ~noSets(Board)' \/ deck' = {}
    BY DEF Next
  <2> DEFINE p == picked(i)
  <2>1. TypeOK
    BY DEF IInv
  <2>2. p \in Distinct(DOMAIN displayedCards)
    BY <2>1, SelectionType, PickedType
  <2>3. ~PickCard(i)
    <3>1. selectedCards \in Seq(DOMAIN displayedCards)
      BY <2>1 DEF TypeOK
    <3>2. p # <<>>
      BY <3>1, AppendProperties DEF picked
    <3> QED
      BY <3>2 DEF PickCard
  <2>4. CompleteTriple(i)
    BY <2>3 DEF selectCard
  <2>5. /\ p[1] \in 1..Len(displayedCards) /\ p[2] \in 1..Len(displayedCards)
        /\ p[3] \in 1..Len(displayedCards)
        /\ p[1] # p[2] /\ p[1] # p[3] /\ p[2] # p[3]
    BY <2>1, <2>4, SelectionType, PickedType DEF CompleteTriple
  <2>6. ~removeSetTraps(p[1], p[2], p[3])
    <3>1. selectedCards # selectedCards'
      OBVIOUS
    <3> QED
      BY <2>4, <3>1 DEF CompleteTriple
  <2>7. PICK o \in removeSet(p[1], p[2], p[3]) : displayedCards' = o.board /\ deck' = o.pile
    BY <2>4, <2>6 DEF CompleteTriple
  <2>8. ~noSets(Range(o.board)) \/ o.pile = {}
    BY <2>5, RemoveSetPlayable
  <2> QED
    BY <2>7, <2>8 DEF Board
<1> QED
  BY <1>1, Invariance, PTL DEF Spec, PlayableAfterTriple

\* A game that is over stays as it is (Set.gameOver, Set.removeSet).
THEOREM Final == Spec => OverIsFinal
<1> DEFINE A == gameOver => gameOver' /\ UNCHANGED <<deck, displayedCards, numSets, trapped>>
<1>1. IInv /\ [Next]_gameVars => [A]_gameVars
  <2> SUFFICES ASSUME IInv, NEW i \in DOMAIN displayedCards, selectCard(i), gameOver
               PROVE  gameOver' /\ UNCHANGED <<deck, displayedCards, numSets, trapped>>
    BY DEF Next
  <2> SUFFICES UNCHANGED <<deck, displayedCards, numSets, trapped>>
    BY DEF gameOver, Board
  <2>1. CASE PickCard(i)
    BY <2>1 DEF PickCard
  <2>2. CASE CompleteTriple(i)
    <3> DEFINE p == picked(i)
               a == p[1]
               b == p[2]
               c == p[3]
               d == displayedCards
    <3>1. TypeOK /\ deck = {} /\ noSets(Range(d)) /\ numSets \in Nat
      BY DEF IInv, TypeOK, gameOver, Board
    <3>2. /\ a \in 1..Len(d) /\ b \in 1..Len(d) /\ c \in 1..Len(d)
          /\ a # b /\ a # c /\ b # c
      BY <2>2, <3>1, SelectionType, PickedType DEF CompleteTriple
    <3>3. d \in Seq(Card) /\ IsInjective(d) /\ DOMAIN d = 1..Len(d)
      BY DEF IInv, Accounted, Distinct
    <3>4. ~found(a, b, c)
      <4>1. d[a] \in Range(d) /\ d[b] \in Range(d) \ {d[a]} /\ d[c] \in Range(d) \ {d[a], d[b]}
        BY <3>2, <3>3 DEF Range, IsInjective
      <4> QED
        BY <3>1, <4>1 DEF noSets, found
    <3>5. ~removeSetTraps(a, b, c)
      BY <3>4 DEF removeSetTraps
    <3>6. /\ \E o \in removeSet(a, b, c) : displayedCards' = o.board /\ deck' = o.pile
          /\ numSets' = numSets + 0 /\ trapped' = trapped
      BY <2>2, <3>4, <3>5 DEF CompleteTriple
    <3>7. PICK s \in Refills(Range(d), deck) :
            displayedCards' = d \o s /\ deck' = deck \ Range(s)
      BY <3>4, <3>6 DEF removeSet
    <3>8. PICK n \in Nat : s \in Draws(deck, n)
      <4>1. IsFiniteSet(deck) /\ Cardinality(deck) % 3 = 0
        BY AccountedCounts DEF IInv, Accounted
      <4> QED
        BY <4>1, RefillIsDraw
    <3>9. s = <<>>
      <4>1. s \in Seq({})
        BY <3>1, <3>8, DrawsType DEF Distinct
      <4> QED
        BY <4>1
    <3>10. d \o s = d
      BY <3>3, <3>9, ConcatEmptySeq
    <3> QED
      BY <3>1, <3>6, <3>7, <3>10
  <2> QED
    BY <2>1, <2>2 DEF selectCard
<1> QED
  BY <1>1, Invariance, PTL DEF Spec, OverIsFinal

\* Only the first deal can leave a board without a set and cards in the deck.
StuckOnlyAtFirst == noSets(Board) /\ deck # {} => numSets = 0

\* Three distinct positions that complete a triple.
LEMMA TripleType ==
  ASSUME IInv, NEW i \in DOMAIN displayedCards, CompleteTriple(i)
  PROVE  \E a, b, c \in 1..Len(displayedCards) :
            /\ a = picked(i)[1] /\ b = picked(i)[2] /\ c = picked(i)[3]
            /\ a # b /\ a # c /\ b # c
            /\ Len(selectedCards) = 2
<1>1. TypeOK /\ Len(picked(i)) = 3
  BY DEF IInv, CompleteTriple
<1>2. /\ picked(i)[1] \in 1..Len(displayedCards)
      /\ picked(i)[2] \in 1..Len(displayedCards)
      /\ picked(i)[3] \in 1..Len(displayedCards)
      /\ picked(i)[1] # picked(i)[2] /\ picked(i)[1] # picked(i)[3]
      /\ picked(i)[2] # picked(i)[3]
  BY <1>1, SelectionType, PickedType
<1>3. Len(selectedCards) = 2
  <2>1. /\ selectedCards \in Seq(DOMAIN displayedCards) /\ Len(selectedCards) <= 2
        /\ Len(selectedCards) \in Nat
    BY <1>1 DEF TypeOK
  <2>2. picked(i) = selectedCards \/ picked(i) = Append(selectedCards, i)
    BY DEF picked
  <2>3. Len(Append(selectedCards, i)) = Len(selectedCards) + 1
    BY <2>1, AppendProperties
  <2> PICK m \in Nat : m = Len(selectedCards)
    BY <2>1
  <2>4. m = 3 \/ m + 1 = 3
    <3>1. CASE picked(i) = selectedCards
      BY ONLY <1>1, <3>1, m = Len(selectedCards)
    <3>2. CASE picked(i) = Append(selectedCards, i)
      BY ONLY <1>1, <2>3, <3>2, m = Len(selectedCards)
    <3> QED
      BY ONLY <2>2, <3>1, <3>2
  <2>5. m <= 2 /\ m \in Nat
    BY ONLY <2>1, m = Len(selectedCards)
  <2>6. m = 2
    BY ONLY <2>4, <2>5
  <2> QED
    BY ONLY <2>6, m = Len(selectedCards)
<1> QED
  BY <1>2, <1>3

\* After a triple the board holds a set unless the deck is empty, so the
\* invariant is kept.
LEMMA StuckOnlyAtFirstKept ==
  IInv /\ StuckOnlyAtFirst /\ [Next]_gameVars => StuckOnlyAtFirst'
<1> SUFFICES ASSUME IInv, StuckOnlyAtFirst, [Next]_gameVars PROVE StuckOnlyAtFirst'
  OBVIOUS
<1>1. CASE UNCHANGED <<deck, displayedCards, numSets>>
  BY <1>1 DEF StuckOnlyAtFirst, Board
<1>2. ASSUME NEW i \in DOMAIN displayedCards, CompleteTriple(i),
             ~(UNCHANGED <<deck, displayedCards, numSets>>)
      PROVE  StuckOnlyAtFirst'
  <2>1. PICK a, b, c \in 1..Len(displayedCards) :
          /\ a = picked(i)[1] /\ b = picked(i)[2] /\ c = picked(i)[3]
          /\ a # b /\ a # c /\ b # c
    BY <1>2, TripleType
  <2>2. PICK o \in removeSet(a, b, c) : displayedCards' = o.board /\ deck' = o.pile
    BY <1>2, <2>1 DEF CompleteTriple
  <2>3. ~noSets(Range(o.board)) \/ o.pile = {}
    BY <2>1, RemoveSetPlayable
  <2> QED
    BY <2>2, <2>3 DEF StuckOnlyAtFirst, Board
<1> QED
  BY <1>1, <1>2 DEF Next, selectCard, PickCard, gameVars

-----------------------------------------------------------------------------
(* The refinement of GameRound *)

\* The cards come in thirds; the board has three cards or more, so the sets
\* taken are fewer than the thirds.
LEMMA Thirds ==
  ASSUME IInv, NEW third, third = Cardinality(Card) \div 3
  PROVE  /\ third \in Nat /\ Cardinality(Card) = 3 * third
         /\ numSets \in Nat /\ numSets <= third - 1
         /\ numSets = third - 1 <=> deck = {} /\ Len(displayedCards) = 3
<1>1. Accounted(displayedCards, deck, numSets) /\ Len(displayedCards) >= 3
  BY DEF IInv
<1>2. /\ Cardinality(deck) + Len(displayedCards) + 3 * numSets = Cardinality(Card)
      /\ Len(displayedCards) \in Nat /\ numSets \in Nat
      /\ IsFiniteSet(deck) /\ Cardinality(deck) \in Nat
  BY <1>1, AccountedCounts DEF Accounted
<1>3. Cardinality(Card) \in Nat /\ Cardinality(Card) % 3 = 0
  BY DeckSize
<1>4. third \in Nat /\ Cardinality(Card) = 3 * third
  <2>1. \A x, y \in Nat : x % 3 = 0 /\ y = x \div 3 => x = 3 * y
    OBVIOUS
  <2>2. third \in Nat
    BY <1>3
  <2> QED
    BY <1>3, <2>1, <2>2
<1>5. deck = {} <=> Cardinality(deck) = 0
  BY <1>2, FS_EmptySet
<1>6. /\ numSets <= third - 1
      /\ numSets = third - 1 <=> Cardinality(deck) = 0 /\ Len(displayedCards) = 3
  <2>1. Cardinality(deck) + Len(displayedCards) + 3 * numSets = 3 * third
    BY <1>2, <1>4
  <2> PICK x, y \in Nat : x = Cardinality(deck) /\ y = Len(displayedCards)
    BY <1>2
  <2>2. x + y + 3 * numSets = 3 * third /\ y >= 3
    BY ONLY <1>1, <2>1, x = Cardinality(deck), y = Len(displayedCards)
  <2>3. numSets <= third - 1 /\ (numSets = third - 1 <=> x = 0 /\ y = 3)
    <3> PICK n, m \in Nat : n = numSets /\ m = third
      BY <1>2, <1>4
    <3>1. x + y + 3 * n = 3 * m /\ y >= 3
      BY <2>2
    <3>2. n <= m - 1 /\ (n = m - 1 <=> x = 0 /\ y = 3)
      BY ONLY <3>1, x \in Nat, y \in Nat, n \in Nat, m \in Nat
    <3> QED
      BY <3>2
  <2> QED
    BY <2>3
<1> QED
  BY <1>2, <1>4, <1>5, <1>6

\* No three cards of a board without a set are found to be one.
LEMMA FoundHasSet ==
  ASSUME IInv, NEW a \in 1..Len(displayedCards), NEW b \in 1..Len(displayedCards),
         NEW c \in 1..Len(displayedCards), a # b, a # c, b # c, found(a, b, c)
  PROVE  ~noSets(Board)
<1> DEFINE d == displayedCards
<1>1. d \in Seq(Card) /\ IsInjective(d) /\ DOMAIN d = 1..Len(d)
  BY DEF IInv, Accounted, Distinct
<1>2. d[a] \in Range(d) /\ d[b] \in Range(d) \ {d[a]} /\ d[c] \in Range(d) \ {d[a], d[b]}
  BY <1>1 DEF Range, IsInjective
<1> QED
  BY <1>2 DEF noSets, found, Board

\* A tap that picks a card.
LEMMA PickIsPickOne ==
  ASSUME IInv, ~trapped, NEW i \in DOMAIN displayedCards, PickCard(i)
  PROVE  Round!PickOne
<1>1. /\ selectedCards \in Seq(DOMAIN displayedCards) /\ Len(selectedCards) \in Nat
  BY DEF IInv, TypeOK
<1>2. gameOver' = gameOver /\ trapped' = trapped /\ numSets' = numSets
  BY DEF PickCard, gameOver, Board
<1>3. CASE Contains(selectedCards, i)
  <2>1. selectedCards' = selectedCards
    BY <1>3 DEF PickCard, picked
  <2>2. Len(selectedCards) > 0
    <3>1. PICK j \in 1..Len(selectedCards) : selectedCards[j] = i
      BY <1>1, <1>3 DEF Contains
    <3> QED
      BY <1>1, <3>1
  <2> QED
    BY <1>2, <2>1, <2>2 DEF Round!PickOne
<1>4. CASE ~Contains(selectedCards, i)
  <2>1. selectedCards' = Append(selectedCards, i) /\ Len(selectedCards') < 3
    BY <1>4 DEF PickCard, picked
  <2>2. Len(selectedCards') = Len(selectedCards) + 1
    BY <1>1, <2>1, AppendProperties
  <2>3. Len(selectedCards) < 2
    BY <1>1, <2>1, <2>2
  <2> QED
    BY <1>2, <2>2, <2>3 DEF Round!PickOne
<1> QED
  BY <1>3, <1>4

\* A tap that completes a triple of the last three cards stops the process,
\* and no other tap does.
LEMMA StopIsLastTriple ==
  ASSUME IInv, ~trapped, NEW i \in DOMAIN displayedCards, CompleteTriple(i),
         removeSetTraps(picked(i)[1], picked(i)[2], picked(i)[3])
  PROVE  Round!LastTriple
<1>1. PICK a, b, c \in 1..Len(displayedCards) :
        /\ a = picked(i)[1] /\ b = picked(i)[2] /\ c = picked(i)[3]
        /\ a # b /\ a # c /\ b # c
        /\ Len(selectedCards) = 2
  BY TripleType
<1>2. trapped' = TRUE /\ UNCHANGED <<deck, displayedCards, selectedCards, numSets>>
  BY DEF CompleteTriple
<1>3. deck = {} /\ Len(displayedCards) = 3
  BY <1>1, TrapsOnLastThree
<1>4. numSets = (Cardinality(Card) \div 3) - 1
  BY <1>3, Thirds
<1>5. ~gameOver
  BY <1>1, FoundHasSet DEF removeSetTraps, gameOver
<1> QED
  BY <1>1, <1>2, <1>4, <1>5 DEF Round!LastTriple

\* The tap that ends a triple changes nothing but the selection when the board
\* holds a set that was not found, or the game is over.
LEMMA WrongChangesNothing ==
  ASSUME IInv, NEW a, NEW b, NEW c, ~found(a, b, c),
         ~noSets(Board) \/ deck = {},
         NEW o \in removeSet(a, b, c)
  PROVE  o.board = displayedCards /\ o.pile = deck
<1> DEFINE d == displayedCards
<1>1. PICK p \in {[board |-> d, pile |-> deck]} :
        \E s \in Refills(Range(p.board), p.pile) :
          o = [board |-> p.board \o s, pile |-> p.pile \ Range(s)]
  BY ZenonT(30) DEF removeSet
<1>2. p.board = d /\ p.pile = deck
  BY <1>1
<1> PICK s \in Refills(Range(p.board), p.pile) :
       o = [board |-> p.board \o s, pile |-> p.pile \ Range(s)]
  BY <1>1
<1>3. s \in Refills(Range(d), deck) /\ o.board = d \o s /\ o.pile = deck \ Range(s)
  BY <1>2
<1>4. IsFiniteSet(deck) /\ Cardinality(deck) % 3 = 0 /\ d \in Seq(Card)
  BY AccountedCounts DEF IInv, Accounted, Distinct
<1>5. s = <<>>
  <2>1. CASE ~noSets(Board)
    BY <1>3, <2>1 DEF Refills, Board
  <2>2. CASE deck = {}
    <3>1. PICK n \in Nat : s \in Draws(deck, n)
      BY <1>3, <1>4, RefillIsDraw
    <3>2. s \in Seq({})
      BY <2>2, <3>1, DrawsType DEF Distinct
    <3> QED
      BY <3>2
  <2> QED
    BY <2>1, <2>2
<1>6. d \o s = d /\ Range(s) = {}
  BY <1>4, <1>5, ConcatEmptySeq DEF Range
<1> QED
  BY <1>3, <1>6

\* A wrong triple with a set on the board, or after the end, changes nothing
\* but the selection; with the last three cards there is none.
LEMMA WrongIsWrongTriple ==
  ASSUME IInv, IInv', StuckOnlyAtFirst, ~trapped,
         NEW i \in DOMAIN displayedCards, CompleteTriple(i),
         ~found(picked(i)[1], picked(i)[2], picked(i)[3])
  PROVE  Round!WrongTriple
<1>1. PICK a, b, c \in 1..Len(displayedCards) :
        /\ a = picked(i)[1] /\ b = picked(i)[2] /\ c = picked(i)[3]
        /\ a # b /\ a # c /\ b # c
        /\ Len(selectedCards) = 2
  BY TripleType
<1>2. PICK o \in removeSet(a, b, c) :
        /\ displayedCards' = o.board /\ deck' = o.pile
        /\ numSets' = numSets /\ selectedCards' = <<>> /\ trapped' = trapped
  <2>1. ~removeSetTraps(a, b, c) /\ numSets + 0 = numSets
    BY <1>1 DEF removeSetTraps, IInv, TypeOK
  <2> QED
    BY <1>1, <2>1 DEF CompleteTriple
<1> PICK third : third = Cardinality(Card) \div 3
  OBVIOUS
<1>3. /\ third \in Nat /\ Cardinality(Card) = 3 * third /\ numSets \in Nat
      /\ numSets <= third - 1
      /\ numSets = third - 1 <=> deck = {} /\ Len(displayedCards) = 3
  BY Thirds
<1>4. numSets # third - 1
  <2>1. ASSUME deck = {}, Len(displayedCards) = 3 PROVE FALSE
    <3>1. isSet(displayedCards[1], displayedCards[2], displayedCards[3])
      BY <2>1, ThreeLeftAreSet DEF IInv
    <3>2. a \in {1, 2, 3} /\ b \in {1, 2, 3} \ {a} /\ c \in {1, 2, 3} \ {a, b}
      BY <1>1, <2>1
    <3>3. isSet(displayedCards[a], displayedCards[b], displayedCards[c])
      <4>1. \A x, y, z : isSet(x, y, z) => /\ isSet(y, x, z) /\ isSet(x, z, y)
                                           /\ isSet(z, y, x) /\ isSet(y, z, x)
                                           /\ isSet(z, x, y)
        BY DEF isSet
      <4>2. CASE a = 1
        BY <3>1, <3>2, <4>1, <4>2
      <4>3. CASE a = 2
        BY <3>1, <3>2, <4>1, <4>3
      <4>4. CASE a = 3
        BY <3>1, <3>2, <4>1, <4>4
      <4> QED
        BY <3>2, <4>2, <4>3, <4>4
    <3> QED
      BY <1>1, <3>3 DEF found
  <2> QED
    BY <1>3, <2>1
<1>5. gameOver' = gameOver
  <2>1. CASE ~noSets(Board) \/ deck = {}
    <3>1. displayedCards' = displayedCards /\ deck' = deck
      BY <1>1, <1>2, <2>1, WrongChangesNothing
    <3> QED
      BY <3>1 DEF gameOver, Board
  <2>2. CASE noSets(Board) /\ deck # {}
    <3>1. numSets' = 0
      BY <1>2, <2>2 DEF StuckOnlyAtFirst
    <3>2. ASSUME deck' = {} PROVE ~noSets(Board)'
      <4>1. Accounted(displayedCards', {}, 0)
        BY <3>1, <3>2 DEF IInv
      <4>2. /\ Range(displayedCards') \subseteq Card
            /\ Cardinality(Range(displayedCards')) = Cardinality(Card)
        <5>1. Cardinality({}) + Len(displayedCards') + 3 * 0 = Cardinality(Card)
          BY <4>1 DEF Accounted
        <5>2. /\ Len(displayedCards') \in Nat
              /\ Range(displayedCards') \subseteq Card
              /\ Cardinality(Range(displayedCards')) = Len(displayedCards')
          BY <4>1, AccountedCounts
        <5> QED
          BY <5>1, <5>2, FS_EmptySet
      <4>3. Range(displayedCards') = Card
        BY <4>2, CardFinite, FS_Subset
      <4> QED
        BY <4>3, DeckHasSet DEF Board
    <3>3. ~gameOver' /\ ~gameOver
      BY <2>2, <3>2 DEF gameOver
    <3> QED
      BY <3>3 DEF gameOver
  <2> QED
    BY <2>1, <2>2
<1>6. Len(selectedCards') = 0
  BY <1>2
<1> QED
  BY <1>1, <1>2, <1>3, <1>4, <1>5, <1>6 DEF Round!WrongTriple

\* A set that is taken while more than its three cards are left.
LEMMA RightIsRightTriple ==
  ASSUME IInv, IInv', ~trapped,
         NEW i \in DOMAIN displayedCards, CompleteTriple(i),
         found(picked(i)[1], picked(i)[2], picked(i)[3]),
         ~removeSetTraps(picked(i)[1], picked(i)[2], picked(i)[3])
  PROVE  Round!RightTriple
<1>1. PICK a, b, c \in 1..Len(displayedCards) :
        /\ a = picked(i)[1] /\ b = picked(i)[2] /\ c = picked(i)[3]
        /\ a # b /\ a # c /\ b # c
        /\ Len(selectedCards) = 2
  BY TripleType
<1>2. numSets' = numSets + 1 /\ selectedCards' = <<>> /\ trapped' = trapped
  BY DEF CompleteTriple
<1>3. ~gameOver
  BY <1>1, FoundHasSet DEF gameOver
<1> PICK third : third = Cardinality(Card) \div 3
  OBVIOUS
<1>4. /\ third \in Nat /\ Cardinality(Card) = 3 * third /\ numSets \in Nat
      /\ numSets <= third - 1
      /\ numSets = third - 1 <=> deck = {} /\ Len(displayedCards) = 3
  BY Thirds
<1>5. numSets # third - 1
  <2>1. ASSUME deck = {}, Len(displayedCards) = 3 PROVE FALSE
    <3> PICK o : o = [board |-> removeThree(displayedCards, a, b, c), pile |-> deck]
      OBVIOUS
    <3>1. o \in afterTaking(a, b, c)
      BY <2>1 DEF afterTaking
    <3>2. Len(o.board) = Len(displayedCards) - 3
      BY <1>1, RemoveThree, SMTT(30) DEF IInv, Accounted
    <3>3. Len(o.board) < 2
      BY <2>1, <3>2
    <3> QED
      BY <1>1, <3>1, <3>3 DEF removeSetTraps
  <2> QED
    BY <1>4, <2>1
<1>6. gameOver' => numSets' <= third - 2
  <2> SUFFICES ASSUME gameOver' PROVE numSets' <= third - 2
    OBVIOUS
  <2>1. deck' = {} /\ noSets(Range(displayedCards'))
    BY DEF gameOver, Board
  <2>2. Accounted(displayedCards', deck', numSets') /\ Len(displayedCards') >= 3
    BY DEF IInv
  <2>3. Len(displayedCards') >= 6
    BY <2>1, <2>2, OverHasSix
  <2>4. /\ Cardinality(deck') + Len(displayedCards') + 3 * numSets' = Cardinality(Card)
        /\ Len(displayedCards') \in Nat /\ numSets' \in Nat
    BY <2>2, AccountedCounts DEF Accounted
  <2>5. Cardinality(deck') = 0
    BY <2>1, FS_EmptySet
  <2>6. \A x, n, t \in Nat : 0 + x + 3 * n = 3 * t /\ x >= 6 => n <= t - 2
    OBVIOUS
  <2>7. 0 + Len(displayedCards') + 3 * numSets' = 3 * third
    BY <1>4, <2>4, <2>5
  <2> QED
    BY <1>4, <2>3, <2>4, <2>6, <2>7
<1>7. Len(selectedCards') = 0
  BY <1>2
<1> QED
  BY <1>1, <1>2, <1>3, <1>4, <1>5, <1>6, <1>7 DEF Round!RightTriple

\* Every tap is one the controller of a GameRound may see.
LEMMA TapIsTap ==
  IInv /\ IInv' /\ StuckOnlyAtFirst /\ [Next]_gameVars => [Round!Tap]_(Round!roundVars)
<1> SUFFICES ASSUME IInv, IInv', StuckOnlyAtFirst, [Next]_gameVars
             PROVE  [Round!Tap]_(Round!roundVars)
  OBVIOUS
<1>1. ASSUME NEW i \in DOMAIN displayedCards, selectCard(i)
      PROVE  Round!Tap
  <2>1. CASE PickCard(i)
    BY <1>1, <2>1, PickIsPickOne DEF selectCard, Round!Tap
  <2>2. CASE CompleteTriple(i)
    <3> DEFINE p == picked(i)
    <3>1. CASE removeSetTraps(p[1], p[2], p[3])
      BY <1>1, <2>2, <3>1, StopIsLastTriple DEF selectCard, Round!Tap
    <3>2. CASE ~found(p[1], p[2], p[3])
      BY <1>1, <2>2, <3>2, WrongIsWrongTriple DEF selectCard, Round!Tap
    <3>3. CASE found(p[1], p[2], p[3]) /\ ~removeSetTraps(p[1], p[2], p[3])
      BY <1>1, <2>2, <3>3, RightIsRightTriple DEF selectCard, Round!Tap
    <3> QED
      BY <3>1, <3>2, <3>3
  <2> QED
    BY <1>1, <2>1, <2>2 DEF selectCard
<1>2. CASE UNCHANGED gameVars
  BY <1>2 DEF gameVars, Round!roundVars, gameOver, Board
<1> QED
  BY <1>1, <1>2 DEF Next

\* The first deal is the start of a round: a deal of the whole deck holds a
\* set, so no game is over before it began.
LEMMA InitIsRoundInit == GameInit => Round!RoundInit /\ StuckOnlyAtFirst
<1> SUFFICES ASSUME GameInit PROVE Round!RoundInit /\ StuckOnlyAtFirst
  OBVIOUS
<1>1. selectedCards = <<>> /\ numSets = 0 /\ trapped = FALSE /\ Len(selectedCards) = 0
  BY DEF GameInit
<1>2. ASSUME deck = {} PROVE ~noSets(Board)
  <2>1. deck = Card \ Range(displayedCards) /\ Range(displayedCards) \subseteq Card
    BY BoardSizeAssumption, DrawsType DEF GameInit
  <2>2. Range(displayedCards) = Card
    BY <1>2, <2>1
  <2> QED
    BY <2>2, DeckHasSet DEF Board
<1>3. ~gameOver
  BY <1>2 DEF gameOver
<1> QED
  BY <1>1, <1>3 DEF Round!RoundInit, StuckOnlyAtFirst

\* What the controller sees changes only as GameRound allows: a wrong triple
\* never ends a game, nothing happens after its end, and only the last set
\* stops the process (GameViewController's calls of selectCard and gameOver).
THEOREM TapsAreTaps == Spec => TapsImplementRound
<1>1. GameInit => StuckOnlyAtFirst
  BY InitIsRoundInit
<1> QED
  BY <1>1, StuckOnlyAtFirstKept, TapIsTap, Invariance, PTL DEF Spec, TapsImplementRound

\* Class Set implements GameRound, the module GameScreen is built on, from the
\* first deal on.
THEOREM SetIsRound == Spec => ImplementsRound
<1>1. GameInit => Round!RoundInit
  BY InitIsRoundInit
<1> QED
  BY <1>1, TapsAreTaps, PTL DEF Spec, TapsImplementRound, ImplementsRound, Round!RoundSpec

-----------------------------------------------------------------------------
(* Rounds that are dealt *)

\* Fewer cards do not hold more sets.
LEMMA FewerHoldNoSet ==
  ASSUME NEW S, NEW T, S \subseteq T, noSets(T)
  PROVE  noSets(S)
BY DEF noSets

\* The cards in front of the last round were without a set.
LEMMA RefillGrows ==
  ASSUME NEW board, NEW pile, NEW n, Accounted(board, pile, n),
         NEW s \in Refills(Range(board), pile), s # <<>>
  PROVE  noSets(Range(SubSeq(board \o s, 1, Len(board \o s) - 3)))
<1>1. noSets(Range(board))
  BY DEF Refills
<1>2. PICK early \in FruitlessRounds(Range(board), pile) :
        \E last \in LastRound(Range(board) \cup Range(early), pile \ Range(early)) :
          s = early \o last
  BY <1>1 DEF Refills
<1> DEFINE rest == pile \ Range(early)
<1>3. PICK last \in LastRound(Range(board) \cup Range(early), rest) : s = early \o last
  BY <1>2
<1>4. PICK T \in SUBSET pile :
        /\ early \in Draws(T, Cardinality(T)) /\ Cardinality(T) % 3 = 0
        /\ noSets(Range(board) \cup T)
  BY <1>2 DEF FruitlessRounds
<1>5. /\ IsFiniteSet(pile) /\ Cardinality(pile) \in Nat /\ Cardinality(pile) % 3 = 0
      /\ board \in Seq(Card) /\ pile \subseteq Card
  BY AccountedCounts DEF Accounted, Distinct
<1>6. PICK k \in Nat : k = Cardinality(T)
  BY <1>4, <1>5, FS_Subset, FS_CardinalityType
<1>7. /\ early \in Distinct(T) /\ Len(early) = k /\ Range(early) \subseteq T
      /\ Cardinality(Range(early)) = k
  BY <1>4, <1>6, DrawsType
<1>8. /\ IsFiniteSet(rest) /\ Cardinality(rest) = Cardinality(pile) - k
  <2>1. pile \cap Range(early) = Range(early)
    BY <1>4, <1>7
  <2>2. /\ IsFiniteSet(pile \ Range(early))
        /\ Cardinality(pile \ Range(early))
             = Cardinality(pile) - Cardinality(pile \cap Range(early))
    BY <1>5, FS_Difference
  <2> QED
    BY <1>7, <2>1, <2>2
<1> HIDE DEF rest
<1>9. Cardinality(rest) \in Nat /\ Cardinality(rest) % 3 = 0
  <2>1. \A x, y \in Nat : x % 3 = 0 /\ y % 3 = 0 => (x - y) % 3 = 0
    OBVIOUS
  <2>2. Cardinality(rest) \in Nat
    BY <1>8, FS_CardinalityType
  <2> QED
    BY <1>4, <1>5, <1>6, <1>8, <2>1, <2>2
<1>10. early \in Seq(Card)
  <2>1. early \in Seq(T) /\ T \subseteq Card
    BY <1>5, <1>7 DEF Distinct
  <2> QED
    BY <2>1, SeqMonotonic
<1>11. last \in Seq(Card) /\ (Len(last) = 3 \/ Len(last) = 0)
  <2>1. CASE Cardinality(rest) < 3
    <3>1. Cardinality(rest) = 0
      <4>1. \A x \in Nat : x % 3 = 0 /\ x < 3 => x = 0
        OBVIOUS
      <4> QED
        BY <1>9, <2>1, <4>1
    <3>2. last \in Draws(rest, 0)
      BY <1>3, <2>1, <3>1 DEF LastRound
    <3>3. last \in Seq(rest) /\ Len(last) = 0
      BY <3>2, DrawsType DEF Distinct
    <3>4. rest \subseteq Card
      BY <1>5 DEF rest
    <3> QED
      BY <3>3, <3>4, SeqMonotonic
  <2>2. CASE ~(Cardinality(rest) < 3)
    <3>1. last \in Draws(rest, 3)
      BY <1>3, <2>2 DEF LastRound
    <3>2. last \in Seq(rest) /\ Len(last) = 3
      BY <3>1, DrawsType DEF Distinct
    <3>3. rest \subseteq Card
      BY <1>5 DEF rest
    <3> QED
      BY <3>2, <3>3, SeqMonotonic
  <2> QED
    BY <2>1, <2>2
<1> DEFINE w == board \o s
           m == Len(w) - 3
<1>12. /\ Len(board) \in Nat /\ Len(last) \in Nat
       /\ s \in Seq(Card) /\ Len(s) = k + Len(last)
       /\ w \in Seq(Card) /\ Len(w) = Len(board) + Len(s)
  <2>1. s \in Seq(Card) /\ Len(s) = Len(early) + Len(last)
    BY <1>3, <1>10, <1>11, ConcatProperties
  <2>2. w \in Seq(Card) /\ Len(w) = Len(board) + Len(s)
    BY <1>5, <2>1, ConcatProperties
  <2>3. Len(board) \in Nat /\ Len(last) \in Nat
    BY <1>5, <1>11
  <2> QED
    BY <1>7, <2>1, <2>2, <2>3
<1>13. ASSUME NEW x \in 1..Len(w), x <= m
       PROVE  w[x] \in Range(board) \cup T
  <2>1. x \in 1..Len(board) + k
    <3>1. x \in Nat /\ x >= 1 /\ x <= Len(board) + (k + Len(last)) - 3
      BY <1>12, <1>13
    <3> PICK u, v \in Nat : u = Len(board) /\ v = Len(last)
      BY <1>12
    <3>2. x <= u + (k + v) - 3 /\ (v = 3 \/ v = 0)
      BY <1>11, <3>1
    <3>3. x \in 1..u + k
      BY ONLY <3>1, <3>2, u \in Nat, v \in Nat, k \in Nat
    <3> QED
      BY ONLY <3>3, u = Len(board)
  <2>2. CASE x <= Len(board)
    <3>1. w[x] = board[x] /\ x \in DOMAIN board
      BY <1>5, <1>12, <2>1, <2>2, ConcatProperties
    <3> QED
      BY <3>1 DEF Range
  <2>3. CASE ~(x <= Len(board))
    <3>1. PICK y \in 1..k : y = x - Len(board)
      BY <1>12, <2>1, <2>3
    <3>2. w[x] = s[y]
      BY <1>5, <1>12, <3>1, <2>1, <2>3, ConcatProperties
    <3>3. s[y] = early[y] /\ y \in DOMAIN early
      BY <1>3, <1>7, <1>10, <1>11, <3>1, ConcatProperties
    <3> QED
      BY <1>7, <3>2, <3>3 DEF Range
  <2> QED
    BY <2>2, <2>3
<1>14. Range(SubSeq(w, 1, m)) \subseteq Range(board) \cup T
  <2>1. SubSeq(w, 1, m) = [x \in 1..m |-> w[x]]
    BY <1>12
  <2>2. \A x \in 1..m : x \in 1..Len(w) /\ x <= m
    BY <1>12
  <2>3. \A x \in 1..m : w[x] \in Range(board) \cup T
    BY <1>13, <2>2
  <2> HIDE DEF w, m
  <2>4. ASSUME NEW c \in Range(SubSeq(w, 1, m))
        PROVE  c \in Range(board) \cup T
    <3>1. PICK x \in 1..m : c = w[x]
      BY <2>1, <2>4 DEF Range
    <3> QED
      BY <2>3, <3>1
  <2> QED
    BY <2>4
<1> QED
  BY <1>4, <1>14, FewerHoldNoSet

\* The board grows only when it has to (the loop of Set.removeSet).
THEOREM GrowsForSetsOnly == Spec => GrowsOnlyWithoutSets
<1> DEFINE A == Len(displayedCards') > Len(displayedCards) =>
                  noSets(Range(SubSeq(displayedCards', 1, Len(displayedCards') - 3)))
<1>1. IInv /\ [Next]_gameVars => [A]_gameVars
  <2> SUFFICES ASSUME IInv, NEW i \in DOMAIN displayedCards, CompleteTriple(i),
                      Len(displayedCards') > Len(displayedCards)
               PROVE  noSets(Range(SubSeq(displayedCards', 1, Len(displayedCards') - 3)))
    BY DEF Next, selectCard, PickCard, IInv, TypeOK
  <2>1. PICK a, b, c \in 1..Len(displayedCards) :
          /\ a = picked(i)[1] /\ b = picked(i)[2] /\ c = picked(i)[3]
          /\ a # b /\ a # c /\ b # c
    BY TripleType
  <2>2. Accounted(displayedCards, deck, numSets) /\ Len(displayedCards) \in Nat
    BY AccountedCounts DEF IInv
  <2>3. PICK o \in removeSet(a, b, c) : displayedCards' = o.board
    BY <2>1, <2>2 DEF CompleteTriple
  <2>4. PICK p \in IF found(a, b, c) THEN afterTaking(a, b, c)
                   ELSE {[board |-> displayedCards, pile |-> deck]} :
          \E s \in Refills(Range(p.board), p.pile) :
            o = [board |-> p.board \o s, pile |-> p.pile \ Range(s)]
    BY SMTT(30) DEF removeSet
  <2>5. PICK s \in Refills(Range(p.board), p.pile) :
          o = [board |-> p.board \o s, pile |-> p.pile \ Range(s)]
    BY <2>4
  <2> o.board = p.board \o s
    BY <2>5
  <2>6. PICK n \in Nat : /\ Accounted(p.board, p.pile, n)
                         /\ Len(p.board) \in Nat
                         /\ Len(p.board) <= Len(displayedCards)
    <3>1. CASE found(a, b, c)
      <4>1. p \in afterTaking(a, b, c)
        BY <2>4, <3>1
      <4>2. /\ Accounted(p.board, p.pile, numSets + 1)
            /\ \/ Len(p.board) = Len(displayedCards)
               \/ Len(p.board) = Len(displayedCards) - 3
        BY <2>1, <2>2, <3>1, <4>1, TakingAccounted
      <4>3. Len(p.board) \in Nat /\ numSets + 1 \in Nat
        BY <4>2, AccountedCounts
      <4> QED
        BY <2>2, <4>2, <4>3
    <3>2. CASE ~found(a, b, c)
      <4>1. p = [board |-> displayedCards, pile |-> deck]
        BY <2>4, <3>2
      <4>2. p.board = displayedCards /\ p.pile = deck /\ numSets \in Nat
        BY <2>2, <4>1, AccountedCounts
      <4> QED
        BY <2>2, <4>2
    <3> QED
      BY <3>1, <3>2
  <2>7. s # <<>>
    <3>1. ASSUME s = <<>> PROVE FALSE
      <4>1. p.board \o s = p.board
        BY <2>6, <3>1, ConcatEmptySeq DEF Accounted, Distinct
      <4> QED
        BY <2>2, <2>3, <2>5, <2>6, <4>1
    <3> QED
      BY <3>1
  <2> QED
    BY <2>3, <2>5, <2>6, <2>7, RefillGrows
<1> QED
  BY <1>1, Invariance, PTL DEF Spec, GrowsOnlyWithoutSets

-----------------------------------------------------------------------------
(* Cards that are taken and cards that stay *)

\* What removeSet takes away is the set that was found, and nothing else.
LEMMA RemoveSetTakes ==
  ASSUME IInv, NEW a \in 1..Len(displayedCards), NEW b \in 1..Len(displayedCards),
         NEW c \in 1..Len(displayedCards), a # b, a # c, b # c,
         NEW o \in removeSet(a, b, c)
  PROVE  /\ Board \ Range(o.board)
              = IF found(a, b, c)
                THEN {displayedCards[a], displayedCards[b], displayedCards[c]}
                ELSE {}
         /\ SameOrder(displayedCards, o.board)
<1> DEFINE d == displayedCards
           taken == {d[a], d[b], d[c]}
<1>1. /\ Accounted(d, deck, numSets) /\ d \in Distinct(Card) /\ d \in Seq(Card)
      /\ DOMAIN d = 1..Len(d) /\ IsInjective(d)
      /\ Range(d) \cap deck = {} /\ deck \subseteq Card
  BY DEF IInv, Accounted, Distinct
<1>2. SameOrder(d, d)
  BY <1>1, OrderWithItself
<1>3. PICK p \in IF found(a, b, c) THEN afterTaking(a, b, c)
                 ELSE {[board |-> d, pile |-> deck]} :
        \E s \in Refills(Range(p.board), p.pile) :
          o = [board |-> p.board \o s, pile |-> p.pile \ Range(s)]
  BY SMTT(30) DEF removeSet
<1>4. PICK s \in Refills(Range(p.board), p.pile) :
        o = [board |-> p.board \o s, pile |-> p.pile \ Range(s)]
  BY <1>3
<1>5. o.board = p.board \o s
  BY <1>4
<1>6. PICK n \in Nat, new \in SUBSET deck :
        /\ Accounted(p.board, p.pile, n)
        /\ Range(p.board) = (IF found(a, b, c) THEN Range(d) \ taken ELSE Range(d)) \cup new
        /\ p.pile \subseteq deck
        /\ SameOrder(d, p.board)
  <2>1. CASE found(a, b, c)
    <3>1. p \in afterTaking(a, b, c)
      BY <1>3, <2>1
    <3>2. Accounted(p.board, p.pile, numSets + 1)
      BY <1>1, <2>1, <3>1, TakingAccounted
    <3>3. numSets + 1 \in Nat
      BY <3>2, AccountedCounts
    <3>4. CASE Len(d) <= BoardSize /\ deck # {}
      <4>1. PICK t \in Draws(deck, 3) :
              p = [board |-> replaceThree(d, a, b, c, t), pile |-> deck \ Range(t)]
        BY <3>1, <3>4 DEF afterTaking
      <4>2. p.board = replaceThree(d, a, b, c, t) /\ p.pile \subseteq deck
        BY <4>1
      <4>3. Range(p.board) = (Range(d) \ taken) \cup Range(t)
        BY <1>1, <4>2, ReplaceThree, SMTT(30)
      <4>4. Range(t) \subseteq deck
        BY DrawsType
      <4>5. SameOrder(d, p.board)
        BY <1>1, <4>2, ReplaceKeepsOrder
      <4> QED
        BY <2>1, <3>2, <3>3, <4>2, <4>3, <4>4, <4>5
    <3>5. CASE ~(Len(d) <= BoardSize /\ deck # {})
      <4>1. p = [board |-> removeThree(d, a, b, c), pile |-> deck]
        BY <3>1, <3>5 DEF afterTaking
      <4>2. p.board = removeThree(d, a, b, c) /\ p.pile = deck
        BY <4>1
      <4> PICK new : new = {}
        OBVIOUS
      <4>3. Range(p.board) = Range(d) \ taken /\ SameOrder(d, p.board)
        BY <1>1, <4>2, RemoveThree
      <4>4. Range(p.board) = (Range(d) \ taken) \cup new /\ new \in SUBSET deck
        BY <4>3
      <4>5. p.pile \subseteq deck
        BY <4>2
      <4> QED
        BY <2>1, <3>2, <3>3, <4>3, <4>4, <4>5
    <3> QED
      BY <3>4, <3>5
  <2>2. CASE ~found(a, b, c)
    <3>1. p = [board |-> d, pile |-> deck]
      BY <1>3, <2>2
    <3>2. p.board = d /\ p.pile = deck /\ numSets \in Nat
      BY <1>1, <3>1, AccountedCounts
    <3> QED
      BY <1>1, <1>2, <2>2, <3>2
  <2> QED
    BY <2>1, <2>2
<1>7. IsFiniteSet(p.pile) /\ Cardinality(p.pile) % 3 = 0 /\ p.board \in Seq(Card)
  BY <1>6, AccountedCounts DEF Accounted, Distinct
<1>8. PICK m \in Nat : s \in Draws(p.pile, m)
  BY <1>7, RefillIsDraw
<1>9. s \in Seq(Card) /\ Range(s) \subseteq deck
  <2>1. s \in Seq(p.pile) /\ Range(s) \subseteq p.pile /\ p.pile \subseteq Card
    BY <1>1, <1>6, <1>8, DrawsType DEF Distinct
  <2> QED
    BY <1>6, <2>1, SeqMonotonic
<1>10. Range(o.board) = Range(p.board) \cup Range(s)
  BY <1>5, <1>7, <1>9, RangeConcatenation
<1>11. SameOrder(d, o.board)
  <2>1. Range(d) \cap Range(s) = {}
    BY <1>1, <1>9
  <2> QED
    BY <1>1, <1>5, <1>6, <1>7, <1>9, <2>1, AppendKeepsOrder
<1>12. taken \subseteq Range(d)
  BY <1>1 DEF Range
<1>13. Range(d) \ Range(o.board) = IF found(a, b, c) THEN taken ELSE {}
  <2>1. CASE found(a, b, c)
    <3>1. Range(o.board) = ((Range(d) \ taken) \cup new) \cup Range(s)
      BY <1>6, <1>10, <2>1
    <3> HIDE DEF taken
    <3> QED
      BY <1>1, <1>6, <1>9, <1>12, <2>1, <3>1
  <2>2. CASE ~found(a, b, c)
    <3>1. Range(o.board) = (Range(d) \cup new) \cup Range(s)
      BY <1>6, <1>10, <2>2
    <3> QED
      BY <2>2, <3>1
  <2> QED
    BY <2>1, <2>2
<1> QED
  BY <1>11, <1>13 DEF Board

\* What leaves the board is the set that was picked, and it is counted; every
\* other card stays, in the order it had (Set.removeSet).
THEOREM OnlyTheSetGoes == Spec => OthersStay
<1> DEFINE gone == Board \ Board'
           A == /\ gone # {} =>
                     /\ {displayedCards[i] : i \in Range(selectedCards)} \subseteq gone
                     /\ Cardinality(gone) = 3
                     /\ ~noSets(gone)
                     /\ numSets' = numSets + 1
                /\ SameOrder(displayedCards, displayedCards')
<1>1. ASSUME IInv, UNCHANGED displayedCards
      PROVE  A
  <2>1. SameOrder(displayedCards, displayedCards)
    BY <1>1, OrderWithItself DEF IInv, Accounted
  <2> QED
    BY <1>1, <2>1 DEF Board
<1>2. ASSUME IInv, NEW i \in DOMAIN displayedCards, CompleteTriple(i),
             ~(UNCHANGED displayedCards)
      PROVE  A
  <2>1. PICK a, b, c \in 1..Len(displayedCards) :
          /\ a = picked(i)[1] /\ b = picked(i)[2] /\ c = picked(i)[3]
          /\ a # b /\ a # c /\ b # c
          /\ Len(selectedCards) = 2
    BY <1>2, TripleType
  <2> DEFINE d == displayedCards
             taken == {d[a], d[b], d[c]}
  <2>2. ~removeSetTraps(a, b, c)
    BY <1>2, <2>1 DEF CompleteTriple
  <2>3. PICK o \in removeSet(a, b, c) : displayedCards' = o.board
    BY <1>2, <2>1, <2>2 DEF CompleteTriple
  <2>4. /\ gone = IF found(a, b, c) THEN taken ELSE {}
        /\ SameOrder(d, displayedCards')
    BY <1>2, <2>1, <2>3, RemoveSetTakes DEF Board
  <2>5. ASSUME gone # {}
        PROVE  /\ {d[q] : q \in Range(selectedCards)} \subseteq gone
               /\ Cardinality(gone) = 3
               /\ ~noSets(gone)
               /\ numSets' = numSets + 1
    <3>1. found(a, b, c) /\ gone = taken
      BY <2>4, <2>5
    <3>2. numSets' = numSets + 1
      BY <1>2, <2>1, <2>2, <3>1 DEF CompleteTriple
    <3>3. d[a] # d[b] /\ d[a] # d[c] /\ d[b] # d[c]
      BY <1>2, <2>1, SMTT(30) DEF IInv, Accounted, Distinct, IsInjective
    <3>4. Cardinality(taken) = 3
      <4> PICK x, y, z : x = d[a] /\ y = d[b] /\ z = d[c]
        OBVIOUS
      <4>1. Cardinality({x, y, z}) = 3
        <5>1. x # y /\ x # z /\ y # z
          BY <3>3
        <5> QED
          BY ONLY <5>1, ThreeElements
      <4> QED
        BY <4>1
    <3>5. ~noSets(taken)
      <4>1. d[b] \in taken \ {d[a]} /\ d[c] \in taken \ {d[a], d[b]} /\ d[a] \in taken
        BY <3>3
      <4> HIDE DEF taken
      <4> QED
        BY <3>1, <4>1 DEF noSets, found
    <3>6. \A q \in Range(selectedCards) : q = a \/ q = b
      <4>1. /\ selectedCards \in Seq(DOMAIN d) /\ DOMAIN selectedCards = 1..2
        BY <1>2, <2>1 DEF IInv, TypeOK
      <4>2. Len(picked(i)) = 3
        BY <1>2 DEF CompleteTriple
      <4>3. picked(i) = Append(selectedCards, i)
        <5>1. picked(i) # selectedCards
          BY <2>1, <4>2
        <5> QED
          BY <5>1 DEF picked
      <4>4. \A q \in 1..2 : selectedCards[q] = picked(i)[q]
        BY <2>1, <4>1, <4>3, AppendProperties, SMTT(30)
      <4>5. 1..2 = {1, 2}
        OBVIOUS
      <4> QED
        BY <2>1, <4>1, <4>4, <4>5 DEF Range
    <3>7. {d[q] : q \in Range(selectedCards)} \subseteq taken
      BY <3>6
    <3> QED
      BY <3>1, <3>2, <3>4, <3>5, <3>7
  <2> QED
    BY <2>4, <2>5
<1>3. IInv /\ [Next]_gameVars => [A]_gameVars
  BY <1>1, <1>2 DEF Next, selectCard, PickCard, gameVars
<1> QED
  BY <1>3, Invariance, PTL DEF Spec, OthersStay

=============================================================================
