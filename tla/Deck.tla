-------------------------------- MODULE Deck --------------------------------
(***************************************************************************)
(* The decks of Deck.swift as InfiniteSet uses them: objects that hold     *)
(* cards in order, reached through the two names deck and discardDeck.     *)
(* The shuffle is modelled swap by swap.  Nothing runs between its swaps;  *)
(* `firstUnshuffled` is its loop variable, and 0 when no shuffle runs.     *)
(***************************************************************************)
EXTENDS Integers, Sequences, FiniteSets, Functions, SequencesExt

CONSTANTS
  Cards,    \* the cards of one deck
  Objects   \* the storage for Deck objects; those without a name are freed

ASSUME DeckAssumption == IsFiniteSet(Cards) /\ IsFiniteSet(Objects) /\ Cardinality(Objects) >= 3

VARIABLES
  cards,            \* the array of each object
  deck,             \* the object the name deck stands for
  discardDeck,      \* the object the name discardDeck stands for
  out,              \* the cards drawn and not discarded: the board
  firstUnshuffled,  \* the position the running shuffle fills next
  top               \* the cards the running shuffle has placed; for properties

deckVars == <<cards, deck, discardDeck, out, firstUnshuffled, top>>

Idle == firstUnshuffled = 0

count == Len(cards[deck])

isEmpty == count = 0

-----------------------------------------------------------------------------

\* shuffle() has nothing to do for fewer than two cards.
ShuffleStarts(array) == firstUnshuffled' = (IF Len(array) > 1 THEN 1 ELSE 0) /\ top' = <<>>

\* Deck() and Deck(cards: []): all cards in some order, which is shuffled, and
\* an empty deck.
DeckInit ==
  /\ \E d, e \in Objects :
       /\ d # e
       /\ deck = d /\ discardDeck = e
       /\ cards = [o \in Objects |-> IF o = d THEN SetToSeq(Cards) ELSE <<>>]
  /\ out = {}
  /\ firstUnshuffled = IF Cardinality(Cards) > 1 THEN 1 ELSE 0
  /\ top = <<>>

\* Fault injection: the random number has no room for the card in place.
randomLeaving(unshuffledCount) == 1 .. (unshuffledCount - 1)

\* arc4random_uniform(unshuffledCount)
random(unshuffledCount) == 0 .. (unshuffledCount - 1)

swapped(array, i, j) == [array EXCEPT ![i] = array[j], ![j] = array[i]]

\* The array after one round of the loop that drew the random number d.
round(array, d) == swapped(array, firstUnshuffled, firstUnshuffled + d)

\* One round of the loop in shuffle(): every position but the last, with the
\* number of cards from there on.
shuffle ==
  /\ ~Idle
  /\ \E d \in random(count - firstUnshuffled + 1) :
       /\ cards' = [cards EXCEPT ![deck] = round(@, d)]
       /\ top' = Append(top, cards'[deck][firstUnshuffled])
  /\ firstUnshuffled' = IF firstUnshuffled = count - 1 THEN 0 ELSE firstUnshuffled + 1
  /\ UNCHANGED <<deck, discardDeck, out>>

\* drawCard, after a check that the deck is not empty.
drawCard ==
  /\ Idle /\ ~isEmpty
  /\ out' = out \cup {Head(cards[deck])}
  /\ cards' = [cards EXCEPT ![deck] = Tail(@)]
  /\ UNCHANGED <<deck, discardDeck, firstUnshuffled, top>>

\* discardDeck.addCard
addCard(c) ==
  /\ Idle
  /\ cards' = [cards EXCEPT ![discardDeck] = Append(@, c)]
  /\ out' = out \ {c}
  /\ UNCHANGED <<deck, discardDeck, firstUnshuffled, top>>

\* Fault injection: the discard deck stays the object that is now the deck.
newDiscardsShared == UNCHANGED <<discardDeck, cards>>

\* discardDeck = Deck(cards: []): a new object.
newDiscards ==
  \E o \in Objects \ {deck, discardDeck} :
    discardDeck' = o /\ cards' = [cards EXCEPT ![o] = <<>>]

\* deck = discardDeck; deck.shuffleDeck(); discardDeck = Deck(cards: []), when
\* the deck is empty.  The last statement is taken together with the first: the
\* shuffle in between does not look at discardDeck.
reshuffle ==
  /\ Idle /\ isEmpty
  /\ deck' = discardDeck
  /\ newDiscards
  /\ ShuffleStarts(cards[discardDeck])
  /\ UNCHANGED out

DeckNext ==
  \/ shuffle
  \/ drawCard
  \/ \E c \in out : addCard(c)
  \/ reshuffle

DeckSpec == DeckInit /\ [][DeckNext]_deckVars

-----------------------------------------------------------------------------
(* Properties *)

\* A card is in the deck, in the discard deck or on the board, and once: through
\* every swap of every shuffle, and though decks are objects that change names.
EveryCardOnce ==
  /\ IsInjective(cards[deck] \o cards[discardDeck])
  /\ Range(cards[deck] \o cards[discardDeck]) = Cards \ out

\* The shuffle is fair: each random number of a round puts a different card in
\* place, all cards not placed before can be put there, and a card in place
\* stays.  So with uniform random numbers all orders are equally likely.
EveryCardCanBeNext ==
  ~Idle =>
    /\ SubSeq(cards[deck], 1, firstUnshuffled - 1) = top
    /\ [d \in random(count - firstUnshuffled + 1) |-> round(cards[deck], d)[firstUnshuffled]]
         \in Bijection(random(count - firstUnshuffled + 1), Range(cards[deck]) \ Range(top))

P == INSTANCE Pile WITH pile <- Range(cards[deck]), spare <- Range(cards[discardDeck])

\* To the games the decks are piles: shuffles, object identity and the order of
\* the cards do not show.
ImplementsPile == P!PileSpec

=============================================================================
