----------------------------- MODULE GameRound -----------------------------
(***************************************************************************)
(* What GameViewController sees of one game of class Set: whether a tap    *)
(* completed a triple (the result of selectCard), numSets, and gameOver.   *)
(* The cards are left out.  ClassicSet implements this module; GameScreen  *)
(* is built on it.                                                         *)
(***************************************************************************)
EXTENDS Integers

CONSTANT AllSets   \* a third of the cards of the deck: 27 in the program

ASSUME AllSetsAssumption == AllSets \in Nat \ {0}

VARIABLES
  picks,  \* how many cards of a triple are picked
  sets,   \* numSets
  phase   \* the game is "open", "over", or "stopped" by the runtime

roundVars == <<picks, sets, phase>>

Phases == {"open", "over", "stopped"}

RoundInit ==
  /\ picks = 0
  /\ sets = 0
  /\ phase = "open"

\* selectCard returns false: one of the first two cards, or one picked before.
PickOne ==
  /\ phase # "stopped"
  /\ \/ picks < 2 /\ picks' = picks + 1
     \/ picks > 0 /\ UNCHANGED picks
  /\ UNCHANGED <<sets, phase>>

\* selectCard returns true, and the three cards are not a set.  It does not
\* happen to the last three cards, which are one.
WrongTriple ==
  /\ picks = 2
  /\ \/ phase = "over"
     \/ phase = "open" /\ sets < AllSets - 1
  /\ picks' = 0
  /\ UNCHANGED <<sets, phase>>

\* selectCard returns true, and a set was taken.  The game may be over now,
\* with six cards or more that hold no set.
RightTriple ==
  /\ picks = 2
  /\ phase = "open" /\ sets < AllSets - 1
  /\ picks' = 0
  /\ sets' = sets + 1
  /\ \/ phase' = "open"
     \/ phase' = "over" /\ sets' <= AllSets - 2

\* selectCard does not return: the last three cards were taken, and noSets
\* cannot be asked about an empty board.
LastTriple ==
  /\ picks = 2
  /\ phase = "open" /\ sets = AllSets - 1
  /\ phase' = "stopped"
  /\ UNCHANGED <<picks, sets>>

Tap == PickOne \/ WrongTriple \/ RightTriple \/ LastTriple

RoundSpec == RoundInit /\ [][Tap]_roundVars

=============================================================================
