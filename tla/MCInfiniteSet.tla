---------------------------- MODULE MCInfiniteSet ----------------------------
(***************************************************************************)
(* Practice games of nine cards with three on the board, followed for two  *)
(* sets, and one followed on from there: boards without a set come up and  *)
(* are refilled, from the discard deck in the end.                         *)
(*                                                                         *)
(* Nine cards are the points of a plane over three values, and its affine  *)
(* maps relabel cards and preserve isSet.  They take any three cards that  *)
(* are a set to any others in any order, and any three that are not to any *)
(* others: two first deals stand for all of them.                          *)
(***************************************************************************)
EXTENDS InfiniteSet

\* A set and a triple that is not one.
ASet  == << <<0,0>>, <<0,1>>, <<0,2>> >>
NoSet == << <<0,0>>, <<0,1>>, <<1,0>> >>

Dealt ==
  /\ displayedCards \in {ASet, NoSet}
  /\ deck = Card \ Range(displayedCards)
  /\ selectedCards = <<>>
  /\ numSets = 0
  /\ discardDeck = {}

\* Two sets were taken, the deck is empty, and the third lies on the board
\* with two of its cards picked: all nine cards will be shuffled and dealt
\* from, once to replace the set and once more if that gives no set.
ThirdSet ==
  /\ displayedCards = ASet
  /\ deck = {}
  /\ selectedCards = <<1, 2>>
  /\ numSets = 2
  /\ discardDeck = Card \ Range(ASet)

DealtInit == (Dealt \/ ThirdSet) /\ trapped = FALSE

\* Of the third sets only that one is followed: it has 51,912 outcomes.
DealtNext == (numSets < 2 \/ ThirdSet) /\ Next

DealtSpec == DealtInit /\ [][DealtNext]_vars

=============================================================================
