-------------------------------- MODULE Pile --------------------------------
(***************************************************************************)
(* What the games count on when they draw cards: a pile is a set of cards, *)
(* and the next card drawn may be any of them.  Module Deck implements it. *)
(***************************************************************************)
CONSTANT Cards   \* the cards of one deck

VARIABLES
  pile,   \* the cards to draw from
  spare,  \* the cards put aside
  out     \* the cards on the board

pileVars == <<pile, spare, out>>

PileInit == pile = Cards /\ spare = {} /\ out = {}

Draw == \E c \in pile :
  /\ pile' = pile \ {c}
  /\ out' = out \cup {c}
  /\ UNCHANGED spare

PutAside == \E c \in out :
  /\ spare' = spare \cup {c}
  /\ out' = out \ {c}
  /\ UNCHANGED pile

Restock ==
  /\ pile = {}
  /\ pile' = spare
  /\ spare' = {}
  /\ UNCHANGED out

PileNext == Draw \/ PutAside \/ Restock

PileSpec == PileInit /\ [][PileNext]_pileVars

=============================================================================
