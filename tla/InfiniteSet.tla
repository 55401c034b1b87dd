---------------------------- MODULE InfiniteSet ----------------------------
(***************************************************************************)
(* One game of the practice mode: class InfiniteSet of InfiniteSet.swift,  *)
(* driven by the taps of PracticeViewController.  Cards taken go to a      *)
(* discard deck, which is shuffled and becomes the deck when the deck runs *)
(* out: the game has no end.                                               *)
(***************************************************************************)
EXTENDS Game

CONSTANT MaxSets   \* bound: the sets one game is followed for

ASSUME MaxSetsAssumption == MaxSets \in Nat

VARIABLE discardDeck   \* the cards of the sets taken, until they are shuffled in

vars == <<gameVars, discardDeck>>

Init == GameInit /\ discardDeck = {}

-----------------------------------------------------------------------------

\* The three positions hold a set.
found(i, j, k) == isSet(displayedCards[i], displayedCards[j], displayedCards[k])

taken(i, j, k) == {displayedCards[i], displayedCards[j], displayedCards[k]}

(***************************************************************************)
(* Cards drawn one by one from a pile that the spare cards replace,        *)
(* shuffled, once it is empty: the order of the draws, and what the two    *)
(* piles are afterwards.                                                   *)
(***************************************************************************)
pileFirst(pile, s) == \A n \in DOMAIN s : n <= Cardinality(pile) => s[n] \in pile

pileAfter(pile, spare, s) ==
  IF Len(s) > Cardinality(pile)
  THEN (pile \cup spare) \ Range(s)
  ELSE pile \ Range(s)

\* Fault injection: cards are dealt from the discard deck where it lies.
spareAfterDealing(pile, spare, s) == spare \ Range(s)

spareAfter(pile, spare, s) == IF Len(s) > Cardinality(pile) THEN {} ELSE spare

-----------------------------------------------------------------------------

\* Fault injection: a board of exactly BoardSize cards is not dealt to.
afterTakingOffByOne(i, j, k) ==
  LET spare == discardDeck \cup taken(i, j, k)
  IN  IF Len(displayedCards) < BoardSize
      THEN {[board |-> replaceThree(displayedCards, i, j, k, s),
             pile  |-> pileAfter(deck, spare, s),
             spare |-> spareAfter(deck, spare, s)] :
             s \in IF deck = {} THEN Draws(spare, 3) ELSE Draws(deck, 3)}
      ELSE {[board |-> removeThree(displayedCards, i, j, k), pile |-> deck, spare |-> spare]}

\* Board, deck and discard deck once a set was taken, before the board is
\* refilled: at BoardSize or fewer cards the three are replaced, otherwise
\* they are only removed.  Both ways they are discarded first, so they are
\* among the cards shuffled in when the deck is empty.
afterTaking(i, j, k) ==
  LET spare == discardDeck \cup taken(i, j, k)
  IN  IF Len(displayedCards) <= BoardSize
      THEN {[board |-> replaceThree(displayedCards, i, j, k, s),
             pile  |-> pileAfter(deck, spare, s),
             spare |-> spareAfter(deck, spare, s)] :
             s \in IF deck = {} THEN Draws(spare, 3) ELSE Draws(deck, 3)}
      ELSE {[board |-> removeThree(displayedCards, i, j, k), pile |-> deck, spare |-> spare]}

\* Board and decks when the closing while loop is reached.
beforeRefill(i, j, k) ==
  IF found(i, j, k)
  THEN afterTaking(i, j, k)
  ELSE {[board |-> displayedCards, pile |-> deck, spare |-> discardDeck]}

\* The cards of whole rounds that leave the board without a set.
FruitlessRounds(o) ==
  UNION {{s \in Draws(S, Cardinality(S)) : pileFirst(o.pile, s)} :
          S \in {T \in SUBSET (o.pile \cup o.spare) : /\ Cardinality(T) % 3 = 0
                                                      /\ noSets(Range(o.board) \cup T)}}

\* Fault injection: removeSet without its closing while loop.
RefillsNone(o) == {<<>>}

\* The refills of `while noSets()`: fruitless rounds, then one that puts a set
\* on the board.
Refills(o) ==
  IF ~noSets(Range(o.board))
  THEN {<<>>}
  ELSE {s \in UNION {{early \o last : last \in Draws((o.pile \cup o.spare) \ Range(early), 3)} :
                      early \in FruitlessRounds(o)} :
         pileFirst(o.pile, s) /\ ~noSets(Range(o.board) \cup Range(s))}

\* removeSet stops the process: it replaces three cards from a deck of one or
\* two, noSets() is asked about fewer than two cards, or the while loop draws a
\* card when deck and discard deck are empty.
removeSetTraps(i, j, k) ==
  \/ found(i, j, k) /\ Len(displayedCards) <= BoardSize /\ Cardinality(deck) \in 1..2
  \/ \E o \in beforeRefill(i, j, k) : Len(o.board) < 2
  \/ \E o \in beforeRefill(i, j, k) : \E early \in FruitlessRounds(o) :
       Cardinality((o.pile \cup o.spare) \ Range(early)) < 3

\* removeSet: the cards are taken, if they are a set, and the board refilled.
removeSet(i, j, k) ==
  /\ \E o \in beforeRefill(i, j, k) : \E s \in Refills(o) :
       /\ displayedCards' = o.board \o s
       /\ deck' = pileAfter(o.pile, o.spare, s)
       /\ discardDeck' = spareAfter(o.pile, o.spare, s)
  /\ numSets' = numSets + (IF found(i, j, k) THEN 1 ELSE 0)

\* The tap that completes a triple: selectCard calls removeSet, empties the
\* selection and returns true.
CompleteTriple(i) ==
  /\ Len(picked(i)) = 3
  /\ LET p == picked(i)
     IN  IF removeSetTraps(p[1], p[2], p[3])
         THEN /\ trapped' = TRUE
              /\ UNCHANGED <<deck, discardDeck, displayedCards, selectedCards, numSets>>
         ELSE /\ removeSet(p[1], p[2], p[3])
              /\ selectedCards' = <<>>
              /\ UNCHANGED trapped

selectCard(i) ==
  /\ ~trapped /\ numSets < MaxSets
  /\ \/ PickCard(i) /\ UNCHANGED discardDeck
     \/ CompleteTriple(i)

Next == \E i \in DOMAIN displayedCards : selectCard(i)

Spec == Init /\ [][Next]_vars

-----------------------------------------------------------------------------
(* Properties *)

\* Every card is in one place, the board, the deck or the discard deck, and
\* only once, through any number of reshuffles (InfiniteSet.removeSet).
EveryCardInOnePlace ==
  /\ IsInjective(displayedCards)
  /\ Board \cup deck \cup discardDeck = Card
  /\ Board \cap deck = {}
  /\ Board \cap discardDeck = {}
  /\ deck \cap discardDeck = {}

\* The practice mode is never stopped: drawCard, whose comment asks for a deck
\* that is not empty, always has a card, though removeSet draws three after one
\* check and its loop draws until the board holds a set.
NeverTraps == ~trapped

\* However a triple was played, the next board holds a set.
AlwaysPlayable == [][selectedCards' = <<>> /\ selectedCards # <<>> => ~noSets(Board)']_vars

\* A discarded card comes back only when the deck has run out: every card that
\* was in the deck was dealt, and the whole discard deck is shuffled in.
DeckBeforeDiscards ==
  [][~(discardDeck \subseteq discardDeck') => deck \subseteq Board' /\ discardDeck' = {}]_vars

=============================================================================
