----------------------------- MODULE MCEndgame -----------------------------
(***************************************************************************)
(* The end of a game with 27 cards, six of them dealt at first.  A whole   *)
(* game of this size is out of reach, and games of nine cards always clear *)
(* the board; this run starts late in a game instead, with four sets       *)
(* taken, and plays every way of ending it.                                *)
(*                                                                         *)
(* A game reaches the position like this.  The deal is the first set of    *)
(* Taken and the first three cards of StartBoard.  Each of the four sets   *)
(* is taken in turn: the three cards that replace the first set are the    *)
(* second, and so on; those that replace the fourth are the next three of  *)
(* StartBoard.  The six cards hold no set, so the round of the last three  *)
(* is dealt, and leaves nine cards on the board and six in the deck.       *)
(***************************************************************************)
EXTENDS ClassicSet

\* The sets taken before the run starts, in the order they were taken.
Taken ==
  << << <<0,0,0>>, <<0,1,0>>, <<0,2,0>> >>, << <<0,0,1>>, <<1,0,1>>, <<2,0,1>> >>,
     << <<0,1,1>>, <<1,1,0>>, <<2,1,2>> >>, << <<0,1,2>>, <<1,2,2>>, <<2,0,2>> >> >>

\* The board, up to the order of its positions.
StartBoard ==
  << <<0,2,2>>, <<1,0,0>>, <<1,0,2>>, <<1,2,1>>, <<2,0,0>>, <<2,1,0>>,
     <<2,1,1>>, <<2,2,0>>, <<2,2,1>> >>

\* What makes the story above a play of the game.
ASSUME StartIsReachable ==
  /\ \A n \in DOMAIN Taken : isSet(Taken[n][1], Taken[n][2], Taken[n][3])
  /\ IsInjective(FlattenSeq(Taken) \o StartBoard)
  /\ noSets(Range(SubSeq(StartBoard, 1, 6)))
  /\ ~noSets(Range(StartBoard))

StartInit ==
  /\ displayedCards = StartBoard
  /\ deck = Card \ Range(FlattenSeq(Taken) \o StartBoard)
  /\ selectedCards = <<>>
  /\ numSets = Len(Taken)
  /\ trapped = FALSE

StartSpec == StartInit /\ [][Next]_gameVars

=============================================================================
