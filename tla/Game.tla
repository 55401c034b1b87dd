-------------------------------- MODULE Game --------------------------------
(***************************************************************************)
(* The base class Game of Game.swift: the state every mode shares, the     *)
(* deal, and the part of selectCard that only collects positions.  The     *)
(* subclasses ClassicSet (Set.swift) and InfiniteSet (InfiniteSet.swift)   *)
(* extend this module and supply removeSet.                                *)
(*                                                                         *)
(* Positions are 1-based here and 0-based in the program.  `trapped` is    *)
(* the Swift runtime stopping the process: a range whose upper bound is    *)
(* below its lower bound, or removeFirst on an empty array.                *)
(***************************************************************************)
EXTENDS Cards, SequencesExt

CONSTANT BoardSize   \* the number of cards dealt at first: 12 in the program

ASSUME BoardSizeAssumption ==
  /\ BoardSize \in Nat
  /\ BoardSize >= 3
  /\ BoardSize % 3 = 0
  /\ BoardSize <= Cardinality(Card)

VARIABLES
  deck,            \* the cards not dealt yet, shuffled
  displayedCards,  \* the cards on the board, by position
  selectedCards,   \* the positions picked so far, at most two at rest
  numSets,         \* the sets found
  trapped          \* the process was stopped by a runtime check

gameVars == <<deck, displayedCards, selectedCards, numSets, trapped>>

Board == Range(displayedCards)

-----------------------------------------------------------------------------

\* Game.init: shuffle the deck, deal BoardSize cards.
GameInit ==
  /\ displayedCards \in Draws(Card, BoardSize)
  /\ deck = Card \ Range(displayedCards)
  /\ selectedCards = <<>>
  /\ numSets = 0
  /\ trapped = FALSE

\* Fault injection: a card tapped twice is picked twice.
pickedAgain(i) == Append(selectedCards, i)

\* The positions picked once position i is tapped.
picked(i) ==
  IF Contains(selectedCards, i) THEN selectedCards ELSE Append(selectedCards, i)

\* A tap that does not complete a triple: selectCard returns false.
PickCard(i) ==
  /\ Len(picked(i)) < 3
  /\ selectedCards' = picked(i)
  /\ UNCHANGED <<deck, displayedCards, numSets, trapped>>

-----------------------------------------------------------------------------

\* Fault injection: the removal order is the order of the taps.
removeInTapOrder(board, i, j, k) == RemoveAt(RemoveAt(RemoveAt(board, i), j), k)

\* The board without positions i, j and k: sort them, remove the largest first.
removeThree(board, i, j, k) ==
  LET hi == Max({i, j, k})
      lo == Min({i, j, k})
      mid == i + j + k - hi - lo
  IN  RemoveAt(RemoveAt(RemoveAt(board, hi), mid), lo)

\* The board with positions i, j and k dealt anew.
replaceThree(board, i, j, k, s) ==
  [board EXCEPT ![i] = s[1], ![j] = s[2], ![k] = s[3]]

-----------------------------------------------------------------------------

\* For properties: the cards on both boards come in the same order on both.
SameOrder(b, c) ==
  \A p \in DOMAIN b, x \in DOMAIN c : b[p] = c[x] =>
    \A q \in p + 1..Len(b), y \in 1..x : b[q] # c[y]

=============================================================================
