----------------------------- MODULE ClassicSet -----------------------------
(***************************************************************************)
(* One game of the normal mode: class Set of Set.swift, driven by the taps *)
(* GameViewController forwards to selectCard.  A game ends when the deck   *)
(* is empty and the board holds no set.                                    *)
(***************************************************************************)
EXTENDS Game

\* The three positions hold a set.
found(i, j, k) == isSet(displayedCards[i], displayedCards[j], displayedCards[k])

\* Fault injection: a board of exactly BoardSize cards is not dealt to.
afterTakingOffByOne(i, j, k) ==
  IF Len(displayedCards) < BoardSize /\ deck # {}
  THEN {[board |-> replaceThree(displayedCards, i, j, k, s), pile |-> deck \ Range(s)] :
         s \in Draws(deck, 3)}
  ELSE {[board |-> removeThree(displayedCards, i, j, k), pile |-> deck]}

\* Fault injection: drawCard looks at the first card and leaves it in the deck.
afterTakingPeeking(i, j, k) ==
  IF Len(displayedCards) <= BoardSize /\ deck # {}
  THEN {[board |-> replaceThree(displayedCards, i, j, k, s), pile |-> deck] :
         s \in Draws(deck, 3)}
  ELSE {[board |-> removeThree(displayedCards, i, j, k), pile |-> deck]}

\* Board and deck once a set was taken, before the board is refilled.  At
\* BoardSize or fewer cards the three are replaced while the deck lasts;
\* otherwise they are only removed.
afterTaking(i, j, k) ==
  IF Len(displayedCards) <= BoardSize /\ deck # {}
  THEN {[board |-> replaceThree(displayedCards, i, j, k, s), pile |-> deck \ Range(s)] :
         s \in Draws(deck, 3)}
  ELSE {[board |-> removeThree(displayedCards, i, j, k), pile |-> deck]}

(***************************************************************************)
(* `while noSets()`: rounds of three cards are appended to the board until *)
(* it holds a set or the pile is empty.  A refill is the sequence of the   *)
(* cards appended: the rounds that left the board without a set, then the  *)
(* one that ended the loop.                                                *)
(***************************************************************************)
FruitlessRounds(board, pile) ==
  UNION {Draws(S, Cardinality(S)) :
          S \in {T \in SUBSET pile : /\ Cardinality(T) % 3 = 0
                                     /\ noSets(board \cup T)}}

LastRound(board, pile) ==
  IF Cardinality(pile) < 3
  THEN Draws(pile, Cardinality(pile))
  ELSE {s \in Draws(pile, 3) : ~noSets(board \cup Range(s))}

\* Fault injection: a do-while loop, which deals a round before it looks.
RefillsBeforeLooking(board, pile) ==
  UNION {{early \o last : last \in LastRound(board \cup Range(early), pile \ Range(early))} :
          early \in FruitlessRounds(board, pile) \cup {<<>>}}

Refills(board, pile) ==
  IF ~noSets(board)
  THEN {<<>>}
  ELSE UNION {{early \o last : last \in LastRound(board \cup Range(early), pile \ Range(early))} :
               early \in FruitlessRounds(board, pile)}

\* removeSet stops the process: it draws a card the deck does not have, or it
\* empties the board, and noSets() then forms the range 0 ..< count - 2.
removeSetTraps(i, j, k) ==
  /\ found(i, j, k)
  /\ \/ Len(displayedCards) <= BoardSize /\ Cardinality(deck) \in 1..2
     \/ \E o \in afterTaking(i, j, k) : Len(o.board) < 2

\* Fault injection: removeSet without its closing while loop.
removeSetWithoutRefill(i, j, k) ==
  IF found(i, j, k)
  THEN afterTaking(i, j, k)
  ELSE {[board |-> displayedCards, pile |-> deck]}

\* The boards and decks removeSet can leave: take the set, if it is one, then
\* refill the board.
removeSet(i, j, k) ==
  UNION {{[board |-> o.board \o s, pile |-> o.pile \ Range(s)] :
            s \in Refills(Range(o.board), o.pile)} :
          o \in IF found(i, j, k)
                THEN afterTaking(i, j, k)
                ELSE {[board |-> displayedCards, pile |-> deck]}}

\* The tap that completes a triple: selectCard calls removeSet, empties the
\* selection and returns true.
CompleteTriple(i) ==
  /\ Len(picked(i)) = 3
  /\ LET p == picked(i)
     IN  IF removeSetTraps(p[1], p[2], p[3])
         THEN /\ trapped' = TRUE
              /\ UNCHANGED <<deck, displayedCards, selectedCards, numSets>>
         ELSE /\ \E o \in removeSet(p[1], p[2], p[3]) :
                   displayedCards' = o.board /\ deck' = o.pile
              /\ numSets' = numSets + (IF found(p[1], p[2], p[3]) THEN 1 ELSE 0)
              /\ selectedCards' = <<>>
              /\ UNCHANGED trapped

selectCard(i) == ~trapped /\ (PickCard(i) \/ CompleteTriple(i))

\* Fault injection: the game is over as soon as the deck is empty.
gameOverOnceDealt == deck = {}

\* The test GameViewController makes after every triple.
gameOver == deck = {} /\ noSets(Board)

Next == \E i \in DOMAIN displayedCards : selectCard(i)

Spec == GameInit /\ [][Next]_gameVars

-----------------------------------------------------------------------------
(* Properties *)

\* Every variable has its type, and the picks are distinct positions of the
\* board: selectedCards stores positions, which removeSet dereferences after
\* the board may have shrunk.
TypeOK ==
  /\ deck \in SUBSET Card
  /\ displayedCards \in Seq(Card)
  /\ selectedCards \in Seq(DOMAIN displayedCards)
  /\ Len(selectedCards) <= 2
  /\ IsInjective(selectedCards)
  /\ numSets \in Nat
  /\ trapped \in BOOLEAN

\* No card is lost, duplicated or dealt twice: the board holds distinct cards,
\* none of them still in the deck, and each set found accounts for exactly
\* three of the cards that are on neither (Set.removeSet).
CardsAccounted ==
  /\ IsInjective(displayedCards)
  /\ Board \cap deck = {}
  /\ Cardinality(deck) + Len(displayedCards) + 3 * numSets = Cardinality(Card)

\* When three cards are left, they are a set: whatever was played, the sets
\* taken away leave every feature evenly spread over its values, modulo three.
LastThreeAreASet ==
  (deck = {} /\ Len(displayedCards) = 3) =>
    isSet(displayedCards[1], displayedCards[2], displayedCards[3])

\* The runtime stops removeSet in one case only: the set being taken is made
\* of the last three cards.  In particular drawCard, whose comment asks for a
\* non-empty deck, always has one, though removeSet asks once for three draws.
TrapsOnlyOnLastSet ==
  trapped => /\ deck = {}
             /\ Len(displayedCards) = 3
             /\ 3 * (numSets + 1) = Cardinality(Card)

\* A game that is over leaves at least six cards on the board, so a finished
\* game never has every set, nor every set but one.
OverLeavesSix == gameOver => Len(displayedCards) >= 6

\* removeSet's comment: after a triple was played, right or wrong, the board
\* holds a set or there is no card left to add.
PlayableAfterTriple ==
  [][(Len(selectedCards) = 2 /\ selectedCards' = <<>>) =>
       (~noSets(Board)' \/ deck' = {})]_gameVars

\* The board grows only when it has to: the cards in front of the last round
\* dealt had no set among them.
GrowsOnlyWithoutSets ==
  [][Len(displayedCards') > Len(displayedCards) =>
       noSets(Range(SubSeq(displayedCards', 1, Len(displayedCards') - 3)))]_gameVars

\* What leaves the board is the set that was picked, whole, and it is counted;
\* every other card stays and keeps its place among the others, through the
\* removal of positions one by one and the dealing of new cards (removeSet).
OthersStay ==
  [][LET gone == Board \ Board'
     IN  /\ gone # {} =>
              /\ {displayedCards[i] : i \in Range(selectedCards)} \subseteq gone
              /\ Cardinality(gone) = 3
              /\ ~noSets(gone)
              /\ numSets' = numSets + 1
         /\ SameOrder(displayedCards, displayedCards')]_gameVars

\* A game that is over stays over: no further tap changes board, deck or score.
OverIsFinal ==
  [][gameOver => gameOver' /\ UNCHANGED <<deck, displayedCards, numSets, trapped>>]_gameVars

\* What the documentation says of a game whose cards are all taken: it comes to
\* an end, "once the deck runs out and no more SETs can be made".  The process
\* is not stopped instead.
RunsToItsEnd == ~trapped

-----------------------------------------------------------------------------
(* The game as its controller sees it *)

Round == INSTANCE GameRound WITH
  AllSets <- Cardinality(Card) \div 3,
  picks   <- Len(selectedCards),
  sets    <- numSets,
  phase   <- IF trapped THEN "stopped" ELSE IF gameOver THEN "over" ELSE "open"

\* Taps change what the controller sees only in the ways GameRound allows: a
\* wrong triple never ends a game, nothing happens after its end, it never ends
\* with fewer than six cards left, and only the last set stops the process.
TapsImplementRound == [][Round!Tap]_(Round!roundVars)

\* Class Set implements GameRound, from the first deal on.
ImplementsRound == Round!RoundSpec

=============================================================================
