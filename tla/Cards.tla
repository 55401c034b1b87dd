------------------------------- MODULE Cards -------------------------------
(***************************************************************************)
(* The cards of the game of Set and what can be asked of them: Card.swift, *)
(* the 81-card constructor of Deck.swift, and isSet / noSets of            *)
(* Game.swift.                                                             *)
(*                                                                         *)
(* A card is a function from its features (shape, shading, color, number)  *)
(* to one of three values.  The program compares features for equality     *)
(* only, so one set of three values serves for all the features.           *)
(***************************************************************************)
EXTENDS Integers, Sequences, FiniteSets, FiniteSetsExt, Functions

CONSTANTS
  Features,   \* the four attributes of struct Card
  Values      \* the three values each attribute takes

ASSUME FeaturesAssumption == IsFiniteSet(Features) /\ Features # {}

ASSUME ValuesAssumption ==
  \E x, y, z \in Values : x # y /\ x # z /\ y # z /\ Values = {x, y, z}

\* What `Deck()` builds: every combination of features, once.
Card == [Features -> Values]

-----------------------------------------------------------------------------

\* Fault injection: the first card is not compared with the third.
isSetNeighbours(card1, card2, card3) ==
  \A f \in Features :
    \/ card1[f] = card2[f] /\ card2[f] = card3[f]
    \/ card1[f] # card2[f] /\ card2[f] # card3[f]

\* Each feature is the same on the three cards or different on all three.
isSet(card1, card2, card3) ==
  \A f \in Features :
    \/ card1[f] = card2[f] /\ card2[f] = card3[f]
    \/ card1[f] # card2[f] /\ card1[f] # card3[f] /\ card2[f] # card3[f]

\* No three of these cards are a set.  The program runs over the positions
\* i < j < k of displayedCards; positions hold distinct cards, and isSet does
\* not depend on the order of its arguments.
noSets(cards) ==
  \A a \in cards : \A b \in cards \ {a} : \A c \in cards \ {a, b} : ~isSet(a, b, c)

-----------------------------------------------------------------------------

\* The ways of taking n cards off a shuffled pile, first card first.  A pile
\* is the set of its cards: after a shuffle nothing is known of their order.
Draws(pile, n) == Injection(1..n, pile)

=============================================================================
