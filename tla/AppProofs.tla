----------------------------- MODULE AppProofs ------------------------------
(***************************************************************************)
(* The properties of three parts of the app that share no state, each with *)
(* an inductive invariant of its own: Deck, for every set of cards and     *)
(* every number of objects; GameScreen, for every number of sets in a deck *)
(* and every full score; and Leaderboard, for every set of scores and any  *)
(* number of entries.                                                      *)
(*                                                                         *)
(* DeckInv speaks of the two arrays one by one: each has no card twice,    *)
(* they share none, and a shuffle that runs stays inside the array of the  *)
(* deck.  For the shuffle, Placed adds that the cards it has placed are    *)
(* those in front of the first one not shuffled.                           *)
(*                                                                         *)
(* ScreenInv, of GameScreen, adds two facts to the properties: the timer   *)
(* of a game that is over does not run, and the entries of the game on the *)
(* screen have the score that game would get now.                          *)
(*                                                                         *)
(* IInv, of Leaderboard, says which moment of the database the list and    *)
(* each waiting event stand for: the moments never go backward from the    *)
(* list through the queue, the newest of them is the present, and the list *)
(* is upside down exactly while one block to turn it round waits, unless   *)
(* an event overtook such a block.  The table never has more rows than the *)
(* list, and when no reload waits each of its cells is what the list has.  *)
(***************************************************************************)
EXTENDS Deck, GameScreen, Leaderboard, FiniteSetTheorems, SequenceTheorems, TLAPS

(***************************************************************************)
(* Deck                                                                    *)
(***************************************************************************)

Array == Seq(Cards)

DeckInv ==
  /\ cards \in [Objects -> Array]
  /\ deck \in Objects /\ discardDeck \in Objects /\ deck # discardDeck
  /\ out \in SUBSET Cards
  /\ firstUnshuffled \in Nat /\ (~Idle => firstUnshuffled < count)
  /\ IsInjective(cards[deck]) /\ IsInjective(cards[discardDeck])
  /\ Range(cards[deck]) \cap Range(cards[discardDeck]) = {}
  /\ Range(cards[deck]) \cup Range(cards[discardDeck]) = Cards \ out

-----------------------------------------------------------------------------
(* Arrays of cards *)

\* A step of the shuffle exchanges two cards: no card is lost or doubled.
LEMMA SwappedArray ==
  ASSUME NEW a \in Array, NEW i \in 1 .. Len(a), NEW j \in 1 .. Len(a)
  PROVE  /\ swapped(a, i, j) \in Array /\ Len(swapped(a, i, j)) = Len(a)
         /\ Range(swapped(a, i, j)) = Range(a)
         /\ IsInjective(a) => IsInjective(swapped(a, i, j))
<1> DEFINE b == swapped(a, i, j)
           D == 1 .. Len(a)
<1>1. a \in [D -> Cards] /\ DOMAIN a = D /\ Len(a) \in Nat
  BY DEF Array
<1>2. /\ b \in [D -> Cards] /\ DOMAIN b = D
      /\ b[i] = a[j] /\ b[j] = a[i] /\ \A x \in D \ {i, j} : b[x] = a[x]
  <2> HIDE DEF D
  <2>1. i \in D /\ j \in D
    BY DEF D
  <2> QED
    BY <1>1, <2>1 DEF swapped
<1>3. b \in Array /\ Len(b) = Len(a)
  BY <1>1, <1>2 DEF Array
<1>4. Range(b) = Range(a)
  <2> HIDE DEF b, D
  <2>1. i \in D /\ j \in D
    BY DEF D
  <2>2. ASSUME NEW x \in D PROVE \E y \in D : b[x] = a[y]
    BY <1>2, <2>1
  <2>3. ASSUME NEW x \in D PROVE \E y \in D : a[x] = b[y]
    BY <1>2, <2>1
  <2>4. Range(b) \subseteq Range(a)
    BY <1>1, <1>2, <2>2 DEF Range
  <2>5. Range(a) \subseteq Range(b)
    BY <1>1, <1>2, <2>3 DEF Range
  <2> QED
    BY <2>4, <2>5
<1>5. IsInjective(a) => IsInjective(b)
  <2> HIDE DEF b, D
  <2>1. i \in D /\ j \in D
    BY DEF D
  <2> QED
    BY <1>1, <1>2, <2>1 DEF IsInjective
<1> QED
  BY <1>3, <1>4, <1>5

\* Drawing takes the first card and no other (Deck.drawCard).
LEMMA TailArray ==
  ASSUME NEW a \in Array, IsInjective(a), Len(a) # 0
  PROVE  /\ Tail(a) \in Array /\ Head(a) \in Cards /\ IsInjective(Tail(a))
         /\ Head(a) \in Range(a) /\ Range(Tail(a)) = Range(a) \ {Head(a)}
<1> DEFINE t == Tail(a)
           n == Len(a)
<1>1. /\ a \in [1 .. n -> Cards] /\ DOMAIN a = 1 .. n /\ n \in Nat /\ n >= 1
      /\ a # <<>>
  BY DEF Array
<1>2. t \in Array /\ Len(t) = n - 1 /\ \A x \in 1 .. n - 1 : t[x] = a[x + 1]
  BY <1>1, HeadTailProperties DEF Array
<1>3. Head(a) = a[1]
  BY <1>1
<1>4. DOMAIN t = 1 .. n - 1
  BY <1>2 DEF Array
<1> HIDE DEF t, n
<1>5. \A x \in 1 .. n - 1 : x + 1 \in 1 .. n /\ x + 1 # 1
  BY <1>1
<1>6. \A x \in 1 .. n : x # 1 => x - 1 \in 1 .. n - 1 /\ (x - 1) + 1 = x
  BY <1>1
<1>7. IsInjective(t)
  BY <1>1, <1>2, <1>4, <1>5 DEF IsInjective
<1>8. Range(t) = Range(a) \ {a[1]}
  <2>1. ASSUME NEW x \in 1 .. n - 1 PROVE t[x] \in Range(a) \ {a[1]}
    <3>1. t[x] = a[x + 1] /\ x + 1 \in 1 .. n /\ 1 \in 1 .. n /\ x + 1 # 1
      BY <1>1, <1>2, <1>5
    <3> QED
      BY <1>1, <3>1 DEF Range, IsInjective
  <2>2. ASSUME NEW x \in 1 .. n, x # 1 PROVE a[x] \in Range(t)
    <3>1. x - 1 \in 1 .. n - 1 /\ t[x - 1] = a[x]
      BY <1>2, <1>6, <2>2
    <3> QED
      BY <1>4, <3>1 DEF Range
  <2>3. Range(t) \subseteq Range(a) \ {a[1]}
    BY <1>4, <2>1 DEF Range
  <2>4. Range(a) \ {a[1]} \subseteq Range(t)
    BY <1>1, <2>2 DEF Range
  <2> QED
    BY <2>3, <2>4
<1>9. a[1] \in Range(a) /\ a[1] \in Cards
  BY <1>1 DEF Range
<1> QED
  BY <1>2, <1>3, <1>7, <1>8, <1>9 DEF t

\* Adding a card that is not there (Deck.addCard).
LEMMA AppendArray ==
  ASSUME NEW a \in Array, IsInjective(a), NEW c \in Cards, c \notin Range(a)
  PROVE  /\ Append(a, c) \in Array /\ IsInjective(Append(a, c))
         /\ Range(Append(a, c)) = Range(a) \cup {c}
<1> DEFINE b == Append(a, c)
           n == Len(a)
<1>1. a \in [1 .. n -> Cards] /\ DOMAIN a = 1 .. n /\ n \in Nat
  BY DEF Array
<1>2. /\ b \in Array /\ Len(b) = n + 1
      /\ \A x \in 1 .. n : b[x] = a[x]
      /\ b[n + 1] = c
  BY AppendProperties DEF Array
<1>3. DOMAIN b = 1 .. n + 1
  BY <1>2 DEF Array
<1> HIDE DEF b, n
<1>4. \A x \in 1 .. n + 1 : x \in 1 .. n \/ x = n + 1
  BY <1>1
<1>5. (\A x \in 1 .. n : x \in 1 .. n + 1) /\ n + 1 \in 1 .. n + 1
  BY <1>1
<1>6. \A x \in 1 .. n : a[x] # c
  BY <1>1 DEF Range
<1>7. IsInjective(b)
  BY <1>1, <1>2, <1>3, <1>4, <1>6 DEF IsInjective
<1>8. Range(b) = Range(a) \cup {c}
  <2>1. Range(b) \subseteq Range(a) \cup {c}
    BY <1>1, <1>2, <1>3, <1>4 DEF Range
  <2>2. Range(a) \cup {c} \subseteq Range(b)
    BY <1>1, <1>2, <1>3, <1>5 DEF Range
  <2> QED
    BY <2>1, <2>2
<1> QED
  BY <1>2, <1>7, <1>8 DEF b

\* Two arrays without a common card, one behind the other.
LEMMA ConcatArrays ==
  ASSUME NEW a \in Array, NEW b \in Array, IsInjective(a), IsInjective(b),
         Range(a) \cap Range(b) = {}
  PROVE  IsInjective(a \o b) /\ Range(a \o b) = Range(a) \cup Range(b)
<1> DEFINE c == a \o b
           m == Len(a)
           n == Len(b)
<1>1. /\ DOMAIN a = 1 .. m /\ DOMAIN b = 1 .. n /\ m \in Nat /\ n \in Nat
  BY DEF Array
<1>2. /\ c \in Array /\ Len(c) = m + n
      /\ \A x \in 1 .. m + n : c[x] = IF x <= m THEN a[x] ELSE b[x - m]
  BY ConcatProperties DEF Array
<1>3. DOMAIN c = 1 .. m + n
  BY <1>2 DEF Array
<1>4. Range(c) = Range(a) \cup Range(b)
  BY RangeConcatenation DEF Array
<1> HIDE DEF c, m, n
<1>5. \A x \in 1 .. m, y \in 1 .. n : a[x] # b[y]
  BY <1>1 DEF Range
<1>6. ASSUME NEW x \in 1 .. m + n, NEW y \in 1 .. m + n, c[x] = c[y]
      PROVE  x = y
  <2>1. /\ c[x] = IF x <= m THEN a[x] ELSE b[x - m]
        /\ c[y] = IF y <= m THEN a[y] ELSE b[y - m]
    BY <1>2
  <2>2. /\ x <= m => x \in 1 .. m
        /\ ~(x <= m) => x - m \in 1 .. n
        /\ y <= m => y \in 1 .. m
        /\ ~(y <= m) => y - m \in 1 .. n
    BY <1>1
  <2>3. CASE x <= m /\ y <= m
    BY <1>1, <1>6, <2>1, <2>2, <2>3 DEF IsInjective
  <2>4. CASE ~(x <= m) /\ ~(y <= m)
    <3> DEFINE v == x - m
               w == y - m
    <3>1. v \in 1 .. n /\ w \in 1 .. n /\ b[v] = b[w]
      BY <1>6, <2>1, <2>2, <2>4
    <3> HIDE DEF v, w
    <3>2. v = w
      BY <1>1, <3>1 DEF IsInjective
    <3>3. x - m = y - m
      BY <3>2 DEF v, w
    <3> QED
      BY <1>1, <3>3
  <2>5. CASE x <= m /\ ~(y <= m)
    BY <1>5, <1>6, <2>1, <2>2, <2>5
  <2>6. CASE ~(x <= m) /\ y <= m
    BY <1>5, <1>6, <2>1, <2>2, <2>6
  <2> QED
    BY <2>3, <2>4, <2>5, <2>6
<1>7. IsInjective(c)
  BY <1>3, <1>6 DEF IsInjective
<1> QED
  BY <1>4, <1>7 DEF c

-----------------------------------------------------------------------------
(* The invariant holds at first and is kept *)

\* The invariant holds when Deck() has listed its cards.
LEMMA InitDeckInv == DeckInit => DeckInv /\ P!PileInit
<1> SUFFICES ASSUME DeckInit PROVE DeckInv /\ P!PileInit
  OBVIOUS
<1> DEFINE all == SetToSeq(Cards)
           n == Cardinality(Cards)
<1>1. n \in Nat /\ all \in [1 .. n -> Cards] /\ IsInjective(all) /\ Range(all) = Cards
  <2>1. n \in Nat /\ \E f : f \in Bijection(1 .. n, Cards)
    BY DeckAssumption, FS_CardinalityType DEF ExistsBijection
  <2>2. \E f \in [1 .. n -> Cards] : IsInjective(f)
    BY <2>1 DEF Bijection, Injection
  <2>3. all \in [1 .. n -> Cards] /\ IsInjective(all)
    BY <2>2 DEF SetToSeq
  <2>4. all \in Injection(1 .. n, Cards)
    BY <2>3 DEF Injection
  <2>5. IsFiniteSet(1 .. n) /\ Cardinality(1 .. n) = n
    BY <2>1, FS_Interval
  <2>6. all \in Bijection(1 .. n, Range(all))
    BY <2>3 DEF Bijection, Injection, Surjection, Range, IsInjective
  <2>7. Cardinality(Range(all)) = n /\ Range(all) \subseteq Cards
    BY <2>3, <2>5, <2>6, FS_Bijection DEF ExistsBijection, Range
  <2>8. Range(all) = Cards
    BY <2>7, DeckAssumption, FS_Subset
  <2> QED
    BY <2>1, <2>3, <2>8
<1>2. all \in Array /\ Len(all) = n
  BY <1>1 DEF Array
<1> HIDE DEF all
<1>3. /\ deck \in Objects /\ discardDeck \in Objects /\ deck # discardDeck
      /\ cards = [o \in Objects |-> IF o = deck THEN all ELSE <<>>]
      /\ out = {} /\ firstUnshuffled = IF n > 1 THEN 1 ELSE 0
  BY DEF DeckInit, all
<1>4. <<>> \in Array /\ IsInjective(<<>>) /\ Range(<<>>) = {}
  BY EmptySeq DEF Array, IsInjective, Range
<1>5. cards[deck] = all /\ cards[discardDeck] = <<>> /\ cards \in [Objects -> Array]
  BY <1>2, <1>3, <1>4
<1>6. firstUnshuffled \in Nat /\ (~Idle => firstUnshuffled < count)
  BY <1>1, <1>2, <1>3, <1>5 DEF Idle, count
<1>7. DeckInv
  BY <1>1, <1>3, <1>4, <1>5, <1>6 DEF DeckInv
<1>8. P!PileInit
  BY <1>1, <1>3, <1>4, <1>5 DEF P!PileInit
<1> QED
  BY <1>7, <1>8

\* A round of the shuffle.
LEMMA ShuffleKeeps ==
  ASSUME DeckInv, shuffle
  PROVE  DeckInv' /\ UNCHANGED P!pileVars
<1> DEFINE a == cards[deck]
           f == firstUnshuffled
           n == Len(a)
<1>1. /\ cards \in [Objects -> Array] /\ deck \in Objects /\ discardDeck \in Objects
      /\ deck # discardDeck /\ a \in Array /\ IsInjective(a)
  BY DEF DeckInv
<1>2. n \in Nat /\ f \in Nat /\ f # 0 /\ f < n
  BY <1>1 DEF DeckInv, shuffle, Idle, count, Array
<1>3. PICK d \in random(n - f + 1) : cards' = [cards EXCEPT ![deck] = round(a, d)]
  BY <1>1 DEF shuffle, count
<1>4. /\ UNCHANGED <<deck, discardDeck, out>>
      /\ f' = IF f = n - 1 THEN 0 ELSE f + 1
  BY DEF shuffle, count
<1>5. f \in 1 .. n /\ f + d \in 1 .. n
  BY <1>2, <1>3 DEF random
<1> DEFINE b == round(a, d)
<1>6. b \in Array /\ Len(b) = n /\ Range(b) = Range(a) /\ IsInjective(b)
  <2> HIDE DEF a
  <2> QED
    BY <1>1, <1>5, SwappedArray DEF round
<1> HIDE DEF b
<1>7. /\ cards' \in [Objects -> Array]
      /\ cards'[deck'] = b /\ cards'[discardDeck'] = cards[discardDeck]
  BY <1>1, <1>3, <1>4, <1>6 DEF b
<1>8. f' \in Nat /\ (f' # 0 => f' < Len(cards'[deck']))
  BY <1>2, <1>4, <1>6, <1>7
<1>9. DeckInv'
  BY <1>1, <1>4, <1>6, <1>7, <1>8 DEF DeckInv, Idle, count
<1>10. UNCHANGED P!pileVars
  BY <1>4, <1>6, <1>7 DEF P!pileVars
<1> QED
  BY <1>9, <1>10

\* Drawing the first card is drawing some card of the pile.
LEMMA DrawKeeps ==
  ASSUME DeckInv, drawCard
  PROVE  DeckInv' /\ P!Draw
<1> DEFINE a == cards[deck]
           c == Head(a)
<1>1. /\ cards \in [Objects -> Array] /\ deck \in Objects /\ discardDeck \in Objects
      /\ deck # discardDeck /\ a \in Array /\ IsInjective(a)
  BY DEF DeckInv
<1>2. /\ firstUnshuffled = 0 /\ Len(a) # 0
      /\ out' = out \cup {c} /\ cards' = [cards EXCEPT ![deck] = Tail(a)]
      /\ UNCHANGED <<deck, discardDeck, firstUnshuffled>>
  BY <1>1 DEF drawCard, Idle, isEmpty, count
<1>3. /\ Tail(a) \in Array /\ c \in Cards /\ IsInjective(Tail(a))
      /\ c \in Range(a) /\ Range(Tail(a)) = Range(a) \ {c}
  <2> HIDE DEF a
  <2> QED
    BY <1>1, <1>2, TailArray
<1>4. /\ cards' \in [Objects -> Array]
      /\ cards'[deck'] = Tail(a) /\ cards'[discardDeck'] = cards[discardDeck]
  BY <1>1, <1>2, <1>3
<1>5. /\ Range(cards'[deck']) = Range(a) \ {c}
      /\ Range(cards'[discardDeck']) = Range(cards[discardDeck])
  BY <1>3, <1>4
<1>6. /\ Range(cards'[deck']) \cap Range(cards'[discardDeck']) = {}
      /\ Range(cards'[deck']) \cup Range(cards'[discardDeck']) = Cards \ out'
      /\ out' \in SUBSET Cards
  <2>1. /\ Range(a) \cap Range(cards[discardDeck]) = {}
        /\ Range(a) \cup Range(cards[discardDeck]) = Cards \ out
        /\ out \in SUBSET Cards
    BY DEF DeckInv
  <2> HIDE DEF a, c
  <2> QED
    BY <1>2, <1>3, <1>5, <2>1
<1>7. IsInjective(cards'[deck']) /\ IsInjective(cards'[discardDeck'])
  BY <1>3, <1>4 DEF DeckInv
<1>8. DeckInv'
  BY <1>1, <1>2, <1>4, <1>6, <1>7 DEF DeckInv, Idle
<1>9. P!Draw
  BY <1>2, <1>3, <1>5 DEF P!Draw
<1> QED
  BY <1>8, <1>9

\* Adding a card to the discard deck is putting it aside.
LEMMA AddKeeps ==
  ASSUME DeckInv, NEW c \in out, addCard(c)
  PROVE  DeckInv' /\ P!PutAside
<1> DEFINE a == cards[discardDeck]
<1>1. /\ cards \in [Objects -> Array] /\ deck \in Objects /\ discardDeck \in Objects
      /\ deck # discardDeck /\ a \in Array /\ IsInjective(a)
      /\ Range(cards[deck]) \cap Range(a) = {}
      /\ Range(cards[deck]) \cup Range(a) = Cards \ out
      /\ out \in SUBSET Cards
  BY DEF DeckInv
<1>2. /\ firstUnshuffled = 0
      /\ out' = out \ {c} /\ cards' = [cards EXCEPT ![discardDeck] = Append(a, c)]
      /\ UNCHANGED <<deck, discardDeck, firstUnshuffled>>
  BY <1>1 DEF addCard, Idle
<1>3. c \in Cards /\ c \notin Range(a)
  BY <1>1
<1>4. /\ Append(a, c) \in Array /\ IsInjective(Append(a, c))
      /\ Range(Append(a, c)) = Range(a) \cup {c}
  <2> HIDE DEF a
  <2> QED
    BY <1>1, <1>3, AppendArray
<1>5. /\ cards' \in [Objects -> Array]
      /\ cards'[deck'] = cards[deck] /\ cards'[discardDeck'] = Append(a, c)
  BY <1>1, <1>2, <1>4
<1>6. /\ Range(cards'[deck']) = Range(cards[deck])
      /\ Range(cards'[discardDeck']) = Range(a) \cup {c}
  BY <1>4, <1>5
<1>7. /\ Range(cards'[deck']) \cap Range(cards'[discardDeck']) = {}
      /\ Range(cards'[deck']) \cup Range(cards'[discardDeck']) = Cards \ out'
      /\ out' \in SUBSET Cards
  BY <1>1, <1>2, <1>3, <1>6
<1>8. IsInjective(cards'[deck']) /\ IsInjective(cards'[discardDeck'])
  BY <1>4, <1>5 DEF DeckInv
<1>9. DeckInv'
  BY <1>1, <1>2, <1>5, <1>7, <1>8 DEF DeckInv, Idle
<1>10. P!PutAside
  BY <1>2, <1>6 DEF P!PutAside
<1> QED
  BY <1>9, <1>10

\* The discard deck becomes the deck, under the other name, and a new object the
\* discard deck.
LEMMA ReshuffleKeeps ==
  ASSUME DeckInv, reshuffle
  PROVE  DeckInv' /\ P!Restock
<1> DEFINE a == cards[discardDeck]
<1>1. /\ cards \in [Objects -> Array] /\ deck \in Objects /\ discardDeck \in Objects
      /\ a \in Array /\ IsInjective(a)
      /\ cards[deck] \in Array
      /\ Range(cards[deck]) \cup Range(a) = Cards \ out
      /\ out \in SUBSET Cards
  BY DEF DeckInv
<1>2. /\ Len(cards[deck]) = 0 /\ deck' = discardDeck /\ out' = out
      /\ firstUnshuffled' = (IF Len(a) > 1 THEN 1 ELSE 0)
  BY DEF reshuffle, isEmpty, count, ShuffleStarts
<1>3. PICK o \in Objects \ {deck, discardDeck} :
        discardDeck' = o /\ cards' = [cards EXCEPT ![o] = <<>>]
  BY DEF reshuffle, newDiscards
<1>4. <<>> \in Array /\ IsInjective(<<>>) /\ Range(<<>>) = {}
  BY EmptySeq DEF Array, IsInjective, Range
<1>5. Range(cards[deck]) = {}
  <2>1. cards[deck] = <<>>
    BY <1>1, <1>2, EmptySeq DEF Array
  <2> QED
    BY <1>4, <2>1
<1>6. /\ cards' \in [Objects -> Array]
      /\ cards'[deck'] = a /\ cards'[discardDeck'] = <<>>
  BY <1>1, <1>2, <1>3, <1>4
<1>7. /\ firstUnshuffled' \in Nat
      /\ firstUnshuffled' # 0 => firstUnshuffled' < Len(cards'[deck'])
  <2>1. Len(a) \in Nat
    BY <1>1 DEF Array
  <2> QED
    BY <1>2, <1>6, <2>1
<1>8. DeckInv'
  BY <1>1, <1>2, <1>3, <1>4, <1>5, <1>6, <1>7 DEF DeckInv, Idle, count
<1>9. P!Restock
  BY <1>2, <1>4, <1>5, <1>6 DEF P!Restock
<1> QED
  BY <1>8, <1>9

\* Every step keeps the invariant and is a step of Pile or changes no pile.
LEMMA NextKeeps == DeckInv /\ [DeckNext]_deckVars => DeckInv' /\ [P!PileNext]_P!pileVars
<1> SUFFICES ASSUME DeckInv, [DeckNext]_deckVars
             PROVE  DeckInv' /\ (P!PileNext \/ UNCHANGED P!pileVars)
  OBVIOUS
<1>1. CASE shuffle
  BY <1>1, ShuffleKeeps
<1>2. CASE drawCard
  BY <1>2, DrawKeeps DEF P!PileNext
<1>3. ASSUME NEW c \in out, addCard(c)
      PROVE  DeckInv' /\ P!PileNext
  BY <1>3, AddKeeps DEF P!PileNext
<1>4. CASE reshuffle
  BY <1>4, ReshuffleKeeps DEF P!PileNext
<1>5. CASE UNCHANGED deckVars
  BY <1>5 DEF deckVars, DeckInv, Idle, count, P!pileVars
<1> QED
  BY <1>1, <1>2, <1>3, <1>4, <1>5 DEF DeckNext

\* The inductive invariant holds in every state of the decks.
THEOREM DeckInvariance == DeckSpec => []DeckInv
<1> QED
  BY InitDeckInv, NextKeeps, PTL DEF DeckSpec

-----------------------------------------------------------------------------
(* The properties *)

\* No swap of a shuffle and no change of names loses or doubles a card
\* (Deck.swift, InfiniteSet.removeSet).
THEOREM CardsStayOnce == DeckSpec => []EveryCardOnce
<1>1. DeckInv => EveryCardOnce
  <2> SUFFICES ASSUME DeckInv PROVE EveryCardOnce
    OBVIOUS
  <2> DEFINE a == cards[deck]
             b == cards[discardDeck]
  <2>1. /\ a \in Array /\ b \in Array /\ IsInjective(a) /\ IsInjective(b)
        /\ Range(a) \cap Range(b) = {} /\ Range(a) \cup Range(b) = Cards \ out
    BY DEF DeckInv
  <2> HIDE DEF a, b
  <2>2. IsInjective(a \o b) /\ Range(a \o b) = Cards \ out
    BY <2>1, ConcatArrays
  <2> QED
    BY <2>2 DEF EveryCardOnce, a, b
<1> QED
  BY <1>1, DeckInvariance, PTL

\* To the games the decks are piles: shuffles, names and the order of the cards
\* do not show (Deck.swift as InfiniteSet.removeSet uses it).
THEOREM DeckIsPile == DeckSpec => ImplementsPile
<1> QED
  BY InitDeckInv, NextKeeps, DeckInvariance, PTL DEF DeckSpec, ImplementsPile, P!PileSpec

-----------------------------------------------------------------------------
(* The shuffle *)

\* The cards a running shuffle has placed are in front and stay there.
Placed == ~Idle => top = SubSeq(cards[deck], 1, firstUnshuffled - 1)

\* The first cards of an array, as a sequence.
LEMMA FirstCards ==
  ASSUME NEW a \in Array, NEW m \in Nat, m <= Len(a)
  PROVE  /\ SubSeq(a, 1, m) \in Array /\ Len(SubSeq(a, 1, m)) = m
         /\ \A x \in 1 .. m : SubSeq(a, 1, m)[x] = a[x]
         /\ Range(SubSeq(a, 1, m)) = {a[x] : x \in 1 .. m}
<1> DEFINE s == SubSeq(a, 1, m)
<1>1. Len(a) \in Nat /\ \A x \in 1 .. Len(a) : a[x] \in Cards
  BY DEF Array
<1>2. s = [x \in 1 .. m |-> a[x]]
  BY <1>1
<1>3. \A x \in 1 .. m : a[x] \in Cards
  BY <1>1
<1> HIDE DEF s
<1>4. s \in [1 .. m -> Cards]
  BY <1>2, <1>3
<1>5. s \in Array /\ Len(s) = m /\ DOMAIN s = 1 .. m
  BY <1>4 DEF Array
<1>6. Range(s) = {a[x] : x \in 1 .. m}
  BY <1>2, <1>5 DEF Range
<1> QED
  BY <1>2, <1>5, <1>6 DEF s

LEMMA PlacedAtFirst == DeckInit => Placed
<1> SUFFICES ASSUME DeckInit, firstUnshuffled # 0
             PROVE  top = SubSeq(cards[deck], 1, firstUnshuffled - 1)
  BY DEF Placed, Idle
<1>1. firstUnshuffled = 1 /\ top = <<>>
  BY DEF DeckInit
<1>2. SubSeq(cards[deck], 1, 0) = <<>>
  BY SubSeqEmpty
<1> QED
  BY <1>1, <1>2

\* A round of the shuffle places one more card.
LEMMA ShufflePlaces ==
  ASSUME DeckInv, Placed, shuffle
  PROVE  Placed'
<1> DEFINE a == cards[deck]
           f == firstUnshuffled
           n == Len(a)
<1>1. /\ cards \in [Objects -> Array] /\ deck \in Objects /\ a \in Array
  BY DEF DeckInv
<1>2. n \in Nat /\ f \in Nat /\ f # 0 /\ f < n /\ top = SubSeq(a, 1, f - 1)
  BY <1>1 DEF DeckInv, shuffle, Idle, count, Array, Placed
<1>3. PICK d \in random(n - f + 1) :
        /\ cards' = [cards EXCEPT ![deck] = round(a, d)]
        /\ top' = Append(top, cards'[deck][f])
  BY <1>1 DEF shuffle, count
<1>4. deck' = deck /\ f' = IF f = n - 1 THEN 0 ELSE f + 1
  BY DEF shuffle, count
<1>5. f \in 1 .. n /\ f + d \in 1 .. n /\ d \in Nat /\ f - 1 \in Nat
  BY <1>2, <1>3 DEF random
<1> DEFINE b == round(a, d)
<1>6. b \in Array /\ Len(b) = n
  <2> HIDE DEF a
  <2> QED
    BY <1>1, <1>5, SwappedArray DEF round
<1>7. \A x \in 1 .. f - 1 : b[x] = a[x]
  <2>1. DOMAIN a = 1 .. n
    BY <1>1 DEF Array
  <2>2. \A x \in 1 .. f - 1 : x \in 1 .. n /\ x # f /\ x # f + d
    BY <1>2, <1>5
  <2> HIDE DEF a, n, f
  <2> QED
    BY <1>5, <2>1, <2>2 DEF round, swapped, f
<1> HIDE DEF b
<1>8. cards'[deck'] = b
  BY <1>1, <1>3, <1>4, <1>6 DEF b
<1>9. top' = Append(SubSeq(a, 1, f - 1), b[f])
  BY <1>2, <1>3, <1>4, <1>8
<1> HIDE DEF a, n
<1>10. Append(SubSeq(a, 1, f - 1), b[f]) = SubSeq(b, 1, f)
  <2> HIDE DEF f
  <2> DEFINE s == SubSeq(a, 1, f - 1)
             t == SubSeq(b, 1, f)
  <2>1. s \in Array /\ Len(s) = f - 1 /\ \A x \in 1 .. f - 1 : s[x] = a[x]
    <3>1. f - 1 \in Nat /\ f - 1 <= Len(a)
      BY <1>2, <1>5 DEF n
    <3> QED
      BY ONLY <1>1, <3>1, FirstCards
  <2>2. t \in Array /\ Len(t) = f /\ \A x \in 1 .. f : t[x] = b[x]
    <3>1. f \in Nat /\ f <= Len(b)
      BY <1>2, <1>6
    <3> QED
      BY ONLY <1>6, <3>1, FirstCards
  <2> HIDE DEF s, t
  <2>3. b[f] \in Cards
    BY <1>2, <1>5, <1>6 DEF Array
  <2>4. /\ Append(s, b[f]) \in Array /\ Len(Append(s, b[f])) = f
        /\ \A x \in 1 .. f - 1 : Append(s, b[f])[x] = s[x]
        /\ Append(s, b[f])[f] = b[f]
    BY <1>2, <2>1, <2>3, AppendProperties DEF Array
  <2>5. \A x \in 1 .. f : x \in 1 .. f - 1 \/ x = f
    BY <1>2
  <2>6. \A x \in 1 .. f : Append(s, b[f])[x] = t[x]
    BY <1>7, <2>1, <2>2, <2>4, <2>5
  <2> QED
    BY <2>2, <2>4, <2>6, SeqEqual DEF Array, s, t
<1>11. f' # 0 => f' - 1 = f
  BY <1>2, <1>4
<1> QED
  BY <1>8, <1>9, <1>10, <1>11 DEF Placed, Idle

\* No other operation runs in the middle of a shuffle, and a new one has placed
\* no card.
LEMMA PlacedStays == DeckInv /\ Placed /\ [DeckNext]_deckVars => Placed'
<1> SUFFICES ASSUME DeckInv, Placed, [DeckNext]_deckVars
             PROVE  Placed'
  OBVIOUS
<1>1. CASE shuffle
  BY <1>1, ShufflePlaces
<1>2. CASE drawCard \/ \E c \in out : addCard(c)
  BY <1>2 DEF drawCard, addCard, Placed, Idle
<1>3. CASE reshuffle
  <2>1. firstUnshuffled' # 0 => firstUnshuffled' = 1 /\ top' = <<>>
    BY <1>3 DEF reshuffle, ShuffleStarts
  <2>2. SubSeq(cards[deck], 1, 0)' = <<>>
    BY SubSeqEmpty
  <2>3. firstUnshuffled' # 0 => top' = SubSeq(cards'[deck'], 1, firstUnshuffled' - 1)
    BY <2>1, <2>2
  <2> QED
    BY <2>3 DEF Placed, Idle
<1>4. CASE UNCHANGED deckVars
  BY <1>4 DEF deckVars, Placed, Idle
<1> QED
  BY <1>1, <1>2, <1>3, <1>4 DEF DeckNext

\* What a round that drew the random number d puts in place.
LEMMA RoundPlaces ==
  ASSUME NEW a \in Array, firstUnshuffled \in 1 .. Len(a),
         NEW d \in random(Len(a) - firstUnshuffled + 1)
  PROVE  /\ firstUnshuffled + d \in firstUnshuffled .. Len(a)
         /\ round(a, d)[firstUnshuffled] = a[firstUnshuffled + d]
<1>1. /\ d \in Nat /\ firstUnshuffled \in Nat /\ Len(a) \in Nat
      /\ firstUnshuffled + d \in firstUnshuffled .. Len(a)
  BY DEF random, Array
<1>2. DOMAIN a = 1 .. Len(a)
  BY DEF Array
<1>3. CASE d = 0
  <2>1. firstUnshuffled + d = firstUnshuffled
    BY <1>1, <1>3
  <2> QED
    BY <1>1, <1>2, <2>1 DEF round, swapped
<1>4. CASE d # 0
  <2>1. firstUnshuffled + d # firstUnshuffled
    BY <1>1, <1>4
  <2> QED
    BY <1>1, <1>2, <2>1 DEF round, swapped
<1> QED
  BY <1>1, <1>3, <1>4

\* The shuffle is fair: each random number of a round puts a different card in
\* place, and all cards not placed before can be put there (Deck.shuffle).
THEOREM ShuffleIsFair == DeckSpec => []EveryCardCanBeNext
<1>1. DeckInv /\ Placed => EveryCardCanBeNext
  <2> SUFFICES ASSUME DeckInv, Placed, firstUnshuffled # 0
               PROVE  EveryCardCanBeNext
    BY DEF EveryCardCanBeNext, Idle
  <2> DEFINE a == cards[deck]
             f == firstUnshuffled
             n == Len(a)
             R == random(n - f + 1)
             put == [d \in R |-> round(a, d)[f]]
             Left == Range(a) \ Range(top)
  <2>1. a \in Array /\ IsInjective(a)
    BY DEF DeckInv
  <2>2. /\ f \in Nat /\ f < n /\ n \in Nat /\ DOMAIN a = 1 .. n
        /\ top = SubSeq(a, 1, f - 1)
    BY <2>1 DEF DeckInv, Placed, Idle, count, Array
  <2>3. Range(top) = {a[x] : x \in 1 .. f - 1}
    <3> HIDE DEF a
    <3>1. f - 1 \in Nat /\ f - 1 <= Len(a)
      BY <2>2
    <3> QED
      BY <2>1, <2>2, <3>1, FirstCards
  <2>4. \A d \in R : f + d \in f .. n /\ put[d] = a[f + d] /\ d \in Nat
    <3> SUFFICES ASSUME NEW d \in R
                 PROVE  f + d \in f .. n /\ put[d] = a[f + d] /\ d \in Nat
      OBVIOUS
    <3>1. f \in 1 .. n /\ d \in Nat
      BY <2>2 DEF random
    <3>2. put[d] = round(a, d)[f]
      OBVIOUS
    <3> HIDE DEF a
    <3>3. f + d \in f .. n /\ round(a, d)[f] = a[f + d]
      BY <2>1, <3>1, RoundPlaces
    <3> QED
      BY <3>1, <3>2, <3>3
  <2>5. \A x \in f .. n : x \in 1 .. n /\ x - f \in R /\ f + (x - f) = x /\ x \notin 1 .. f - 1
    <3> SUFFICES ASSUME NEW x \in f .. n
                 PROVE  x \in 1 .. n /\ x - f \in R /\ f + (x - f) = x /\ x \notin 1 .. f - 1
      OBVIOUS
    <3> HIDE DEF f, n
    <3>1. x \in Int /\ f <= x /\ x <= n /\ f >= 1
      BY <2>2 DEF f, n
    <3>2. x - f \in 0 .. ((n - f + 1) - 1)
      BY <2>2, <3>1
    <3> QED
      BY <2>2, <3>1, <3>2 DEF random
  <2>6. \A x \in 1 .. n : x \in f .. n \/ x \in 1 .. f - 1
    BY <2>2
  <2>7. \A x \in 1 .. f - 1 : x \in 1 .. n
    BY <2>2
  <2>8. DOMAIN put = R
    OBVIOUS
  <2>9. put = [d \in R |-> put[d]]
    OBVIOUS
  <2> HIDE DEF put, a, n, R
  <2>10. \A x \in f .. n : a[x] \in Left
    BY <2>1, <2>2, <2>3, <2>5, <2>7 DEF Range, IsInjective
  <2>11. put \in [R -> Left]
    BY <2>4, <2>8, <2>9, <2>10
  <2>12. IsInjective(put)
    <3> SUFFICES ASSUME NEW d \in R, NEW e \in R, put[d] = put[e]
                 PROVE  d = e
      BY <2>8 DEF IsInjective
    <3>1. a[f + d] = a[f + e] /\ f + d \in 1 .. n /\ f + e \in 1 .. n
      BY <2>4, <2>5
    <3>2. f + d = f + e
      BY <2>1, <2>2, <3>1 DEF IsInjective
    <3> QED
      BY <2>2, <2>4, <3>2
  <2>13. \A t \in Left : \E d \in R : put[d] = t
    <3> SUFFICES ASSUME NEW t \in Left
                 PROVE  \E d \in R : put[d] = t
      OBVIOUS
    <3>1. PICK x \in 1 .. n : t = a[x]
      BY <2>2 DEF Range
    <3>2. x \in f .. n
      BY <2>3, <2>6, <3>1
    <3>3. x - f \in R /\ put[x - f] = t
      BY <2>4, <2>5, <3>1, <3>2
    <3> QED
      BY <3>3
  <2>14. put \in Bijection(R, Left)
    BY <2>11, <2>12, <2>13 DEF Bijection, Injection, Surjection
  <2> QED
    BY <2>2, <2>14 DEF EveryCardCanBeNext, count, put, a, n, R
<1> QED
  BY <1>1, PlacedAtFirst, PlacedStays, DeckInvariance, PTL DEF DeckSpec

(***************************************************************************)
(* GameScreen                                                              *)
(***************************************************************************)

ScreenType ==
  /\ picks \in Nat /\ sets \in Nat /\ phase \in Phases
  /\ game \in Nat /\ elapsed \in Nat /\ seconds \in Nat /\ timer \in BOOLEAN
  /\ alert \in Nat \cup {NoAlert}
  /\ leaders \in Seq([game : Nat, score : Nat])

\* A game that is over left six cards or more, and its timer is stopped.
OverIsTimed == phase = "over" => sets <= AllSets - 2 /\ ~timer

\* The score a game can end with.
FinalScores == 0 .. (FullScore * (AllSets - 2)) \div AllSets

\* Entries are those of games up to the one on the screen, which has entries
\* only once it is over.
EntriesAreOfGames ==
  \A n \in DOMAIN leaders :
    /\ leaders[n].game <= game
    /\ leaders[n].game = game => phase = "over" /\ leaders[n].score = Score(seconds, sets)

ScreenInv ==
  /\ ScreenType /\ OverIsTimed /\ EntriesAreOfGames
  /\ LabelsAreCurrent /\ TimerKeepsTime /\ AlertScoreIsCurrent
  /\ EntriesOfAGameAgree /\ EntriesInRange

-----------------------------------------------------------------------------
(* Arithmetic of calcScore *)

\* Division by a positive number keeps the order.
LEMMA QuotientsInOrder ==
  \A x, y \in Nat, a \in Nat \ {0} :
    x <= y => x \div a \in Nat /\ y \div a \in Nat /\ x \div a <= y \div a
<1>1. \A x, y \in Nat, a \in Nat \ {0} : x <= y => x \div a <= y \div a
  BY SMTT(30)
<1> QED
  BY <1>1

\* A product of natural numbers grows with its factors.
LEMMA ProductsInOrder ==
  ASSUME NEW m \in Nat, NEW n \in Nat, NEW u \in Nat, NEW v \in Nat, m <= u, n <= v
  PROVE  m * n \in Nat /\ u * v \in Nat /\ m * n <= u * v
<1>1. m * n <= u * n
  OBVIOUS
<1>2. u * n <= u * v
  OBVIOUS
<1>3. m * n \in Nat /\ u * n \in Nat /\ u * v \in Nat
  OBVIOUS
<1> DEFINE mn == m * n
           un == u * n
           uv == u * v
<1>4. mn <= un /\ un <= uv /\ mn \in Nat /\ un \in Nat /\ uv \in Nat
  BY <1>1, <1>2, <1>3
<1> HIDE DEF mn, un, uv
<1>5. mn <= uv
  BY <1>4
<1> QED
  BY <1>3, <1>5 DEF mn, uv

\* The score of a game that left two sets or more is in range (Set.calcScore).
LEMMA ScoreInRange ==
  ASSUME NEW s \in Nat, NEW n \in Nat, n <= AllSets - 2
  PROVE  Score(s, n) \in FinalScores
<1> DEFINE a == AllSets
           y == FullScore * (a - 2)
<1>1. a \in Nat \ {0} /\ FullScore \in Nat /\ a - 2 \in Nat
  BY AllSetsAssumption, ScreenAssumption
<1>2. y \in Nat
  BY <1>1
<1>3. CASE s >= FullScore
  <2>1. y \div a \in Nat
    BY <1>1, <1>2, QuotientsInOrder
  <2>2. Score(s, n) = 0
    BY <1>3 DEF Score
  <2> QED
    BY <2>1, <2>2 DEF FinalScores
<1>4. CASE ~(s >= FullScore)
  <2> DEFINE x == (FullScore - s) * n
  <2>1. FullScore - s \in Nat /\ FullScore - s <= FullScore
    BY <1>1, <1>4
  <2>2. x \in Nat /\ x <= y
    BY <1>1, <2>1, ProductsInOrder
  <2>3. x \div a \in Nat /\ y \div a \in Nat /\ x \div a <= y \div a
    <3> HIDE DEF x, y, a
    <3> QED
      BY <1>1, <1>2, <2>2, QuotientsInOrder
  <2>4. Score(s, n) = x \div a
    BY <1>4 DEF Score
  <2>5. FinalScores = 0 .. y \div a
    BY DEF FinalScores
  <2> HIDE DEF x, y, a
  <2> QED
    BY <2>3, <2>4, <2>5
<1> QED
  BY <1>3, <1>4

-----------------------------------------------------------------------------
(* The invariant holds at first and is kept *)

\* The invariant holds when the screen appears for the first time.
LEMMA InitScreenInv == ScreenInit => ScreenInv
<1> SUFFICES ASSUME ScreenInit PROVE ScreenInv
  OBVIOUS
<1> USE DEF ScreenInit, RoundInit, NoAlert
<1>1. ScreenType
  BY EmptySeq DEF ScreenType, Phases
<1>2. DOMAIN leaders = {}
  OBVIOUS
<1>3. OverIsTimed /\ LabelsAreCurrent /\ TimerKeepsTime /\ AlertScoreIsCurrent
  BY DEF OverIsTimed, LabelsAreCurrent, TimerKeepsTime, AlertScoreIsCurrent
<1>4. EntriesAreOfGames /\ EntriesOfAGameAgree /\ EntriesInRange
  BY <1>2 DEF EntriesAreOfGames, EntriesOfAGameAgree, EntriesInRange
<1> QED
  BY <1>1, <1>3, <1>4 DEF ScreenInv

\* Picking one of the first two cards (selectCard returns false).
LEMMA CollectKeepsScreenInv ==
  ASSUME ScreenInv, Collect
  PROVE  ScreenInv'
<1>1. UNCHANGED <<sets, phase, screenVars>> /\ picks' \in Nat
  BY DEF Collect, PickOne, ScreenInv, ScreenType
<1>2. ScreenType'
  BY <1>1 DEF ScreenInv, ScreenType, screenVars
<1> QED
  BY <1>1, <1>2 DEF ScreenInv, OverIsTimed, EntriesAreOfGames, LabelsAreCurrent,
     TimerKeepsTime,
                    AlertScoreIsCurrent, EntriesOfAGameAgree, EntriesInRange,
                    screenVars, Score

\* A completed triple: the label follows the game, and if the game is over the
\* timer stops and the alert has the score of that moment (didSelectItemAt).
LEMMA CompleteKeepsScreenInv ==
  ASSUME ScreenInv, alert = NoAlert, Complete
  PROVE  ScreenInv'
<1>1. /\ ScreenType /\ OverIsTimed /\ EntriesAreOfGames /\ LabelsAreCurrent
      /\ TimerKeepsTime /\ EntriesOfAGameAgree /\ EntriesInRange
  BY DEF ScreenInv
<1>2. /\ picks' = 0 /\ setsLabel' = sets'
      /\ UNCHANGED <<game, elapsed, seconds, timeLabel, leaders>>
  BY DEF Complete, WrongTriple, RightTriple, UpdateLabel
<1>3. AllSets \in Nat \ {0}
  BY AllSetsAssumption
<1>4. /\ sets' \in Nat
      /\ \/ phase = "over" /\ phase' = "over" /\ sets' = sets
         \/ phase = "open" /\ phase' = "open"
         \/ phase = "open" /\ phase' = "over" /\ sets' <= AllSets - 2
  BY <1>1, <1>3 DEF Complete, WrongTriple, RightTriple, ScreenType
<1>5. \/ phase' = "over" /\ timer' = FALSE /\ alert' = Score(seconds, sets')
      \/ phase' # "over" /\ timer' = timer /\ alert' = NoAlert
  BY DEF Complete, AfterTriple
<1>6. phase' = "over" => sets' <= AllSets - 2
  BY <1>1, <1>4 DEF OverIsTimed
<1>7. phase' = "over" => alert' \in Nat
  <2>1. FinalScores \subseteq Nat
    BY DEF FinalScores
  <2> QED
    BY <1>1, <1>4, <1>5, <1>6, <2>1, ScoreInRange DEF ScreenType
<1>8. ScreenType'
  BY <1>1, <1>2, <1>4, <1>5, <1>7 DEF ScreenType, Phases
<1>9. OverIsTimed'
  BY <1>5, <1>6 DEF OverIsTimed
<1>10. EntriesAreOfGames'
  <2> SUFFICES ASSUME NEW n \in DOMAIN leaders
               PROVE  /\ leaders[n].game <= game
                      /\ leaders[n].game = game =>
                           phase' = "over" /\ leaders[n].score = Score(seconds, sets')
    BY <1>2 DEF EntriesAreOfGames, Score
  <2>1. /\ leaders[n].game <= game
        /\ leaders[n].game = game => phase = "over" /\ leaders[n].score = Score(seconds, sets)
    BY <1>1 DEF EntriesAreOfGames
  <2>2. phase = "over" => phase' = "over" /\ sets' = sets
    BY <1>4
  <2> QED
    BY <2>1, <2>2
<1>11. LabelsAreCurrent'
  BY <1>1, <1>2 DEF LabelsAreCurrent
<1>12. TimerKeepsTime'
  BY <1>1, <1>2, <1>4, <1>5 DEF TimerKeepsTime
<1>13. AlertScoreIsCurrent'
  BY <1>2, <1>5 DEF AlertScoreIsCurrent, NoAlert, Score
<1>14. EntriesOfAGameAgree' /\ EntriesInRange'
  BY <1>1, <1>2 DEF EntriesOfAGameAgree, EntriesInRange
<1> QED
  BY <1>8, <1>9, <1>10, <1>11, <1>12, <1>13, <1>14 DEF ScreenInv

\* The process is stopped inside selectCard.
LEMMA StopKeepsScreenInv ==
  ASSUME ScreenInv, Stop
  PROVE  ScreenInv'
<1>1. /\ UNCHANGED <<picks, sets, screenVars>>
      /\ phase = "open" /\ phase' = "stopped"
  BY DEF Stop, LastTriple
<1>2. ScreenType'
  BY <1>1 DEF ScreenInv, ScreenType, screenVars, Phases
<1> QED
  BY <1>1, <1>2 DEF ScreenInv, OverIsTimed, EntriesAreOfGames, LabelsAreCurrent,
     TimerKeepsTime,
                    AlertScoreIsCurrent, EntriesOfAGameAgree, EntriesInRange,
                    screenVars, Score

\* OK in the alert: the entry has the score of the game on the screen, as every
\* earlier entry of that game does (addLeader).
LEMMA AddLeaderKeepsScreenInv ==
  ASSUME ScreenInv, addLeader
  PROVE  ScreenInv'
<1>1. /\ ScreenType /\ OverIsTimed /\ EntriesAreOfGames /\ LabelsAreCurrent
      /\ TimerKeepsTime /\ AlertScoreIsCurrent /\ EntriesOfAGameAgree /\ EntriesInRange
  BY DEF ScreenInv
<1> DEFINE e == [game |-> game, score |-> alert]
<1>2. /\ alert # NoAlert /\ leaders' = Append(leaders, e) /\ alert' = NoAlert
      /\ UNCHANGED <<picks, sets, phase, game, elapsed, seconds, timer, setsLabel, timeLabel>>
  BY DEF addLeader, roundVars
<1>3. phase = "over" /\ alert = Score(seconds, sets) /\ sets <= AllSets - 2
  BY <1>1, <1>2 DEF AlertScoreIsCurrent, OverIsTimed
<1>4. alert \in FinalScores
  BY <1>1, <1>3, ScoreInRange DEF ScreenType
<1>5. e \in [game : Nat, score : Nat] /\ leaders \in Seq([game : Nat, score : Nat])
  BY <1>1, <1>2 DEF ScreenType
<1>6. /\ leaders' \in Seq([game : Nat, score : Nat])
      /\ \A n \in DOMAIN leaders' : \/ n \in DOMAIN leaders /\ leaders'[n] = leaders[n]
                                    \/ leaders'[n] = e
  <2> HIDE DEF e
  <2>1. /\ leaders' \in Seq([game : Nat, score : Nat])
        /\ Len(leaders') = Len(leaders) + 1
        /\ \A n \in 1 .. Len(leaders) : leaders'[n] = leaders[n]
        /\ leaders'[Len(leaders) + 1] = e
    BY <1>2, <1>5, AppendProperties
  <2>2. DOMAIN leaders' = 1 .. Len(leaders) + 1 /\ DOMAIN leaders = 1 .. Len(leaders)
        /\ Len(leaders) \in Nat
    BY <1>5, <2>1
  <2>3. \A n \in 1 .. Len(leaders) + 1 : n \in 1 .. Len(leaders) \/ n = Len(leaders) + 1
    BY <2>2
  <2> QED
    BY <2>1, <2>2, <2>3
<1>7. e.game = game /\ e.score = alert
  OBVIOUS
<1> HIDE DEF e
<1>8. ScreenType'
  BY <1>1, <1>2, <1>6 DEF ScreenType
<1>9. EntriesAreOfGames'
  <2> SUFFICES ASSUME NEW n \in DOMAIN leaders'
               PROVE  /\ leaders'[n].game <= game
                      /\ leaders'[n].game = game =>
                           phase = "over" /\ leaders'[n].score = Score(seconds, sets)
    BY <1>2 DEF EntriesAreOfGames, Score
  <2>1. CASE n \in DOMAIN leaders /\ leaders'[n] = leaders[n]
    BY <1>1, <2>1 DEF EntriesAreOfGames
  <2>2. CASE leaders'[n] = e
    BY <1>1, <1>3, <1>7, <2>2 DEF ScreenType
  <2> QED
    BY <1>6, <2>1, <2>2
<1>10. EntriesOfAGameAgree'
  <2>1. \A n \in DOMAIN leaders : leaders[n].game = game => leaders[n].score = alert
    BY <1>1, <1>3 DEF EntriesAreOfGames
  <2> SUFFICES ASSUME NEW m \in DOMAIN leaders', NEW n \in DOMAIN leaders',
                      leaders'[m].game = leaders'[n].game
               PROVE  leaders'[m].score = leaders'[n].score
    BY DEF EntriesOfAGameAgree
  <2> QED
    BY <1>1, <1>6, <1>7, <2>1 DEF EntriesOfAGameAgree
<1>11. EntriesInRange'
  BY <1>1, <1>4, <1>6, <1>7 DEF EntriesInRange, FinalScores
<1> QED
  BY <1>1, <1>2, <1>8, <1>9, <1>10, <1>11
     DEF ScreenInv, OverIsTimed, LabelsAreCurrent, TimerKeepsTime, AlertScoreIsCurrent

\* A new game on the screen: the clock starts anew, and no entry is its yet
\* (newGame, and viewDidLoad, which also starts the timer).
LEMMA NewGameKeepsScreenInv ==
  ASSUME ScreenInv, newGame \/ viewDidLoad
  PROVE  ScreenInv'
<1>1. /\ ScreenType /\ EntriesAreOfGames /\ TimerKeepsTime
      /\ EntriesOfAGameAgree /\ EntriesInRange
  BY DEF ScreenInv
<1>2. /\ picks' = 0 /\ sets' = 0 /\ phase' = "open" /\ game' = game + 1
      /\ elapsed' = 0 /\ seconds' = 0 /\ setsLabel' = 0
      /\ timer' \in BOOLEAN /\ alert' = NoAlert /\ leaders' = leaders
  BY <1>1 DEF newGame, viewDidLoad, FreshScreen, NewClock, ScreenType
<1>3. ScreenType'
  BY <1>1, <1>2 DEF ScreenType, Phases
<1>4. EntriesAreOfGames'
  <2> SUFFICES ASSUME NEW n \in DOMAIN leaders
               PROVE  leaders[n].game <= game + 1 /\ leaders[n].game # game + 1
    BY <1>2 DEF EntriesAreOfGames
  <2>1. leaders[n].game \in Nat /\ game \in Nat
    <3> DEFINE E == [game : Nat, score : Nat]
    <3>1. leaders \in Seq(E) /\ game \in Nat
      BY <1>1 DEF ScreenType
    <3>2. \A e \in E : e.game \in Nat
      OBVIOUS
    <3> HIDE DEF E
    <3>3. leaders[n] \in E
      BY <3>1
    <3> QED
      BY <3>1, <3>2, <3>3
  <2>2. leaders[n].game <= game
    BY <1>1 DEF EntriesAreOfGames
  <2> QED
    BY <2>1, <2>2
<1>5. OverIsTimed' /\ LabelsAreCurrent' /\ TimerKeepsTime' /\ AlertScoreIsCurrent'
  BY <1>2 DEF OverIsTimed, LabelsAreCurrent, TimerKeepsTime, AlertScoreIsCurrent
<1>6. EntriesOfAGameAgree' /\ EntriesInRange'
  BY <1>1, <1>2 DEF EntriesOfAGameAgree, EntriesInRange
<1> QED
  BY <1>3, <1>4, <1>5, <1>6 DEF ScreenInv

\* A second passes: the clock of a game that is over stands (updateTimer).
LEMMA SecondKeepsScreenInv ==
  ASSUME ScreenInv, Second
  PROVE  ScreenInv'
<1>1. /\ ScreenType /\ OverIsTimed /\ EntriesAreOfGames /\ LabelsAreCurrent
      /\ TimerKeepsTime /\ AlertScoreIsCurrent /\ EntriesOfAGameAgree /\ EntriesInRange
  BY DEF ScreenInv
<1>2. UNCHANGED <<picks, sets, phase, game, timer, setsLabel, alert, leaders>>
  BY DEF Second, roundVars
<1>3. phase = "open" /\ elapsed' = elapsed + 1
  BY <1>1 DEF Second, ScreenType, Phases, OverIsTimed
<1>4. \/ timer /\ seconds' = seconds + 1 /\ timeLabel' = seconds'
      \/ ~timer /\ seconds' = seconds /\ timeLabel' = timeLabel
  BY DEF Second, tick
<1>5. alert = NoAlert
  BY <1>1, <1>3 DEF AlertScoreIsCurrent
<1>6. ScreenType'
  BY <1>1, <1>2, <1>3, <1>4 DEF ScreenType
<1>7. OverIsTimed'
  BY <1>1, <1>2 DEF OverIsTimed
<1>8. EntriesAreOfGames'
  BY <1>1, <1>2, <1>3 DEF EntriesAreOfGames
<1>9. LabelsAreCurrent'
  BY <1>1, <1>2, <1>4 DEF LabelsAreCurrent
<1>10. TimerKeepsTime'
  BY <1>1, <1>2, <1>3, <1>4 DEF TimerKeepsTime, ScreenType
<1>11. AlertScoreIsCurrent'
  BY <1>2, <1>5 DEF AlertScoreIsCurrent
<1>12. EntriesOfAGameAgree' /\ EntriesInRange'
  BY <1>1, <1>2 DEF EntriesOfAGameAgree, EntriesInRange
<1> QED
  BY <1>6, <1>7, <1>8, <1>9, <1>10, <1>11, <1>12 DEF ScreenInv

\* Every step of the screen keeps the invariant.
LEMMA NextKeepsScreenInv == ScreenInv /\ [ScreenNext]_gameScreenVars => ScreenInv'
<1> SUFFICES ASSUME ScreenInv, [ScreenNext]_gameScreenVars PROVE ScreenInv'
  OBVIOUS
<1>1. CASE didSelectItem
  BY <1>1, CollectKeepsScreenInv, CompleteKeepsScreenInv, StopKeepsScreenInv
     DEF didSelectItem
<1>2. CASE addLeader
  BY <1>2, AddLeaderKeepsScreenInv
<1>3. CASE newGame \/ viewDidLoad
  BY <1>3, NewGameKeepsScreenInv
<1>4. CASE Second
  BY <1>4, SecondKeepsScreenInv
<1>5. CASE UNCHANGED gameScreenVars
  <2>1. ScreenType'
    BY <1>5 DEF ScreenInv, ScreenType, gameScreenVars, roundVars, screenVars
  <2> QED
    BY <1>5, <2>1 DEF ScreenInv, OverIsTimed, EntriesAreOfGames, LabelsAreCurrent,
       TimerKeepsTime,
                      AlertScoreIsCurrent, EntriesOfAGameAgree, EntriesInRange,
                      gameScreenVars,
                      roundVars, screenVars, Score
<1> QED
  BY <1>1, <1>2, <1>3, <1>4, <1>5 DEF ScreenNext

\* The inductive invariant holds in every state of the screen.
THEOREM ScreenInvariance == ScreenSpec => []ScreenInv
<1> QED
  BY InitScreenInv, NextKeepsScreenInv, PTL DEF ScreenSpec

-----------------------------------------------------------------------------
(* The properties *)

\* The labels show the game on the screen, whatever taps, ticks and new games
\* came before (GameViewController.didSelectItemAt, newGame, updateTimer).
THEOREM LabelsFollow == ScreenSpec => []LabelsAreCurrent
<1>1. ScreenInv => LabelsAreCurrent
  BY DEF ScreenInv
<1> QED
  BY <1>1, ScreenInvariance, PTL

\* A valid timer times the game on the screen only (GameViewController.newGame,
\* viewDidLoad).
THEOREM TimerIsOfTheGame == ScreenSpec => []TimerKeepsTime
<1>1. ScreenInv => TimerKeepsTime
  BY DEF ScreenInv
<1> QED
  BY <1>1, ScreenInvariance, PTL

\* The score the closure of an alert kept is the score of the game on the
\* screen when OK is tapped (GameViewController.didSelectItemAt).
THEOREM AlertScoreStays == ScreenSpec => []AlertScoreIsCurrent
<1>1. ScreenInv => AlertScoreIsCurrent
  BY DEF ScreenInv
<1> QED
  BY <1>1, ScreenInvariance, PTL

\* However often a game that is over asks for a name, its entries agree
\* (GameViewController.addLeader).
THEOREM EntriesAgree == ScreenSpec => []EntriesOfAGameAgree
<1>1. ScreenInv => EntriesOfAGameAgree
  BY DEF ScreenInv
<1> QED
  BY <1>1, ScreenInvariance, PTL

\* No entry is negative, and none reaches the full score (Set.calcScore).
THEOREM ScoresInRange == ScreenSpec => []EntriesInRange
<1>1. ScreenInv => EntriesInRange
  BY DEF ScreenInv
<1> QED
  BY <1>1, ScreenInvariance, PTL

(***************************************************************************)
(* Leaderboard                                                             *)
(***************************************************************************)

-----------------------------------------------------------------------------
(* The order of the query *)

\* Entries with scores, no two under the same key.
Keyed(E) ==
  /\ IsFiniteSet(E)
  /\ \A e \in E : e.key \in Nat /\ e.score \in Nat
  /\ \A e, f \in E : e.key = f.key => e = f

\* Before puts any two entries in one order or the other.
LEMMA BeforeIsOrder ==
  ASSUME NEW E, Keyed(E)
  PROVE  /\ \A a \in E : ~Before(a, a)
         /\ \A a, b \in E : a # b => Before(a, b) \/ Before(b, a)
         /\ \A a, b \in E : Before(a, b) => ~Before(b, a)
         /\ \A a, b, c \in E : Before(a, b) /\ Before(b, c) => Before(a, c)
<1>1. \A a, b \in E : /\ a.key \in Nat /\ b.key \in Nat
                      /\ a.score \in Nat /\ b.score \in Nat
                      /\ a # b => a.key # b.key
  BY DEF Keyed
<1>2. \A a, b \in E : a # b => Before(a, b) \/ Before(b, a)
  BY <1>1 DEF Before
<1>3. \A a, b \in E : Before(a, b) => ~Before(b, a)
  BY <1>1 DEF Before
<1>4. \A a, b, c \in E : Before(a, b) /\ Before(b, c) => Before(a, c)
  BY <1>1 DEF Before
<1> QED
  BY <1>2, <1>3, <1>4

\* The place of an entry: one more than the entries before it.
place(E, e) == Cardinality({x \in E : Before(x, e)}) + 1

\* Each place from the first to the last has one entry.
LEMMA Places ==
  ASSUME NEW E, Keyed(E)
  PROVE  /\ Cardinality(E) \in Nat
         /\ \A e \in E : place(E, e) \in 1..Cardinality(E)
         /\ \A a, b \in E : Before(a, b) => place(E, a) < place(E, b)
         /\ \A i \in 1..Cardinality(E) : \E e \in E : place(E, e) = i
<1> DEFINE n == Cardinality(E)
           earlier(e) == {x \in E : Before(x, e)}
<1>1. IsFiniteSet(E) /\ n \in Nat
  BY FS_CardinalityType DEF Keyed
<1>2. ASSUME NEW e \in E
      PROVE  Cardinality(earlier(e)) \in Nat /\ Cardinality(earlier(e)) < n
  <2>1. earlier(e) \in SUBSET E /\ e \notin earlier(e)
    BY BeforeIsOrder
  <2>2. /\ IsFiniteSet(earlier(e)) /\ Cardinality(earlier(e)) <= n
        /\ n = Cardinality(earlier(e)) => E = earlier(e)
    BY <1>1, <2>1, FS_Subset
  <2>3. Cardinality(earlier(e)) \in Nat
    BY <2>2, FS_CardinalityType
  <2> QED
    BY <1>1, <2>1, <2>2, <2>3
<1>3. ASSUME NEW a \in E, NEW b \in E, Before(a, b)
      PROVE  Cardinality(earlier(a)) < Cardinality(earlier(b))
  <2>1. earlier(a) \in SUBSET earlier(b) /\ a \in earlier(b) /\ a \notin earlier(a)
    BY <1>3, BeforeIsOrder
  <2>2. IsFiniteSet(earlier(b))
    <3>1. earlier(b) \in SUBSET E
      OBVIOUS
    <3> QED
      BY <1>1, <3>1, FS_Subset
  <2>3. /\ Cardinality(earlier(a)) <= Cardinality(earlier(b))
        /\ Cardinality(earlier(b)) = Cardinality(earlier(a)) => earlier(b) = earlier(a)
    BY <2>1, <2>2, FS_Subset
  <2> QED
    BY <1>2, <2>1, <2>3
<1>4. \A e \in E : place(E, e) = Cardinality(earlier(e)) + 1
  BY DEF place
<1> HIDE DEF earlier
<1>5. \A e \in E : place(E, e) \in 1..n
  BY <1>1, <1>2, <1>4
<1>6. \A a, b \in E : Before(a, b) => place(E, a) < place(E, b)
  BY <1>2, <1>3, <1>4
<1>7. \A i \in 1..n : \E e \in E : place(E, e) = i
  <2> DEFINE p == [e \in E |-> place(E, e)]
             I == 1..n
  <2>1. p \in [E -> I] /\ \A e \in E : p[e] = place(E, e)
    BY <1>5
  <2>2. \A a, b \in E : p[a] = p[b] => a = b
    <3>1. \A a, b \in E : a # b => place(E, a) < place(E, b) \/ place(E,
    b) < place(E, a)
      BY <1>6, BeforeIsOrder
    <3>2. \A a \in E : place(E, a) \in Int
      BY <1>5
    <3> QED
      BY <2>1, <3>1, <3>2
  <2>3. IsFiniteSet(I) /\ Cardinality(I) = n
    BY <1>1, FS_Interval
  <2> HIDE DEF p, I
  <2>4. p \in Injection(E, I)
    BY <2>1, <2>2 DEF Injection, IsInjective
  <2>5. p \in Surjection(E, I)
    BY <2>3, <2>4, FS_Injection
  <2>6. \A i \in I : \E e \in E : p[e] = i
    BY <2>5 DEF Surjection
  <2> QED
    BY <2>1, <2>6 DEF I
<1> QED
  BY <1>1, <1>5, <1>6, <1>7

\* The entries can be put in order, so Ordered is that order.
LEMMA OrderExists ==
  ASSUME NEW E, Keyed(E)
  PROVE  /\ Ordered(E) \in [1..Cardinality(E) -> E]
         /\ \A i, j \in 1..Cardinality(E) : i < j => Before(Ordered(E)[i], Ordered(E)[j])
<1> DEFINE n == Cardinality(E)
           s == [i \in 1..n |-> CHOOSE e \in E : place(E, e) = i]
<1>1. \A i \in 1..n : s[i] \in E /\ place(E, s[i]) = i
  BY Places
<1>2. s \in [1..n -> E] /\ DOMAIN s = 1..n
  BY <1>1
<1>3. ASSUME NEW i \in 1..n, NEW j \in 1..n, i < j
      PROVE  Before(s[i], s[j])
  <2>1. s[i] \in E /\ s[j] \in E /\ place(E, s[i]) = i /\ place(E, s[j]) = j
    BY <1>1
  <2> HIDE DEF s
  <2>2. s[i] # s[j]
    BY <1>3, <2>1
  <2>3. ~Before(s[j], s[i])
    BY <1>3, <2>1, Places
  <2> QED
    BY <2>1, <2>2, <2>3, BeforeIsOrder
<1>4. \E t \in [1..n -> E] : \A i, j \in DOMAIN t : i < j => Before(t[i], t[j])
  <2> HIDE DEF s
  <2> QED
    BY <1>2, <1>3
<1> QED
  BY <1>4 DEF Ordered

\* The list of some entries: all of them, none twice.
LEMMA OrderedList ==
  ASSUME NEW E, Keyed(E)
  PROVE  /\ Ordered(E) \in Seq(E) /\ Len(Ordered(E)) = Cardinality(E)
         /\ Range(Ordered(E)) = E
<1> DEFINE n == Cardinality(E)
           s == Ordered(E)
           D == 1..n
<1>1. n \in Nat /\ IsFiniteSet(E) /\ IsFiniteSet(D) /\ Cardinality(D) = n
  BY FS_CardinalityType, FS_Interval DEF Keyed
<1>2. /\ s \in [D -> E]
      /\ \A i, j \in D : i < j => Before(s[i], s[j])
  BY OrderExists
<1>3. \A i, j \in D : s[i] = s[j] => i = j
  <2>1. \A i, j \in D : i # j => i < j \/ j < i
    BY <1>1
  <2> HIDE DEF D, s
  <2>2. \A i \in D : ~Before(s[i], s[i])
    BY <1>2, BeforeIsOrder
  <2> QED
    BY <1>2, <2>1, <2>2
<1>4. Range(s) = E
  <2> HIDE DEF D, s
  <2>1. s \in Injection(D, E)
    BY <1>2, <1>3 DEF Injection, IsInjective
  <2>2. s \in Surjection(D, E)
    BY <1>1, <2>1, FS_Injection
  <2> QED
    BY <1>2, <2>2 DEF Surjection, Range
<1>5. s \in Seq(E) /\ Len(s) = n
  BY <1>1, <1>2
<1> QED
  BY <1>4, <1>5

\* A list turned round twice is as it was.
LEMMA ReverseList ==
  ASSUME NEW E, NEW s \in Seq(E)
  PROVE  /\ Reverse(s) \in Seq(E) /\ Len(Reverse(s)) = Len(s)
         /\ Range(Reverse(s)) = Range(s)
         /\ Reverse(Reverse(s)) = s
<1> DEFINE D == 1..Len(s)
           r == Reverse(s)
<1>1. s \in [D -> E] /\ Len(s) \in Nat /\ DOMAIN s = D
  OBVIOUS
<1>2. \A i \in D : Len(s) - i + 1 \in D /\ Len(s) - (Len(s) - i + 1) + 1 = i
  BY <1>1
<1>3. r = [i \in D |-> s[Len(s) - i + 1]]
  BY DEF Reverse
<1>4. r \in [D -> E]
  BY <1>1, <1>2, <1>3
<1>5. r \in Seq(E) /\ Len(r) = Len(s) /\ DOMAIN r = D
  BY <1>1, <1>4
<1>6. Range(r) = Range(s)
  <2>1. \A i \in D : \E j \in D : r[i] = s[j]
    BY <1>2, <1>3
  <2>2. \A i \in D : \E j \in D : s[i] = r[j]
    <3>1. \A i \in D : r[Len(s) - i + 1] = s[i]
      BY <1>2, <1>3
    <3> QED
      BY <1>2, <3>1
  <2>3. DOMAIN r = D /\ DOMAIN s = D
    BY <1>1, <1>5
  <2> HIDE DEF D, r
  <2>4. Range(r) \subseteq Range(s)
    BY <2>1, <2>3 DEF Range
  <2>5. Range(s) \subseteq Range(r)
    BY <2>2, <2>3 DEF Range
  <2> QED
    BY <2>4, <2>5
<1>7. Reverse(r) = s
  <2>1. Reverse(r) = [i \in D |-> r[Len(s) - i + 1]]
    BY <1>5 DEF Reverse
  <2>2. \A i \in D : r[Len(s) - i + 1] = s[i]
    BY <1>2, <1>3
  <2>3. s = [i \in D |-> s[i]]
    BY <1>1
  <2> HIDE DEF D, r
  <2> QED
    BY <2>1, <2>2, <2>3
<1> QED
  BY <1>5, <1>6, <1>7

-----------------------------------------------------------------------------
(* Moments of the database *)

\* The first n entries of d, which is what it once held.
First(d, n) == {e \in d : e.key <= n}

\* Entries get the keys 1, 2, ...
Stored(d) ==
  /\ Keyed(d)
  /\ \A e \in d : e.key \in 1..Cardinality(d)
  /\ \A k \in 1..Cardinality(d) : \E e \in d : e.key = k

\* The first n entries are n.
LEMMA FirstCount ==
  ASSUME NEW d, Stored(d), NEW n \in 0..Cardinality(d)
  PROVE  /\ Keyed(First(d, n)) /\ Cardinality(First(d, n)) = n
         /\ n = Cardinality(d) => First(d, n) = d
         /\ n = 0 => First(d, n) = {}
<1> DEFINE F == First(d, n)
           I == 1..n
           f == [e \in F |-> e.key]
<1>1. IsFiniteSet(d) /\ Cardinality(d) \in Nat /\ F \in SUBSET d
  BY FS_CardinalityType DEF Stored, Keyed, First
<1>2. Keyed(F)
  BY <1>1, FS_Subset DEF Keyed, Stored
<1>3. \A e \in F : e.key \in I
  BY <1>1 DEF Stored, First
<1>4. \A k \in I : \E e \in F : e.key = k
  BY <1>1 DEF Stored, First
<1>5. IsFiniteSet(I) /\ Cardinality(I) = n
  BY <1>1, FS_Interval
<1>6. f \in [F -> I] /\ \A e \in F : f[e] = e.key
  BY <1>3
<1>7. Cardinality(F) = n
  <2> HIDE DEF F, I, f
  <2>1. f \in Injection(F, I)
    BY <1>2, <1>6 DEF Injection, IsInjective, Keyed
  <2>2. f \in Surjection(F, I)
    BY <1>4, <1>6 DEF Surjection
  <2>3. IsFiniteSet(F)
    BY <1>2 DEF Keyed
  <2> QED
    BY <1>5, <2>1, <2>2, <2>3, FS_Injection
<1>8. n = Cardinality(d) => F = d
  BY <1>1 DEF First, Stored
<1>9. n = 0 => F = {}
  BY <1>1 DEF First, Stored
<1> QED
  BY <1>2, <1>7, <1>8, <1>9

\* The lists of that moment: in the order of the query, or turned round.
Straight(d, n) == Ordered(First(d, n))
Lists(d, n) == {Straight(d, n), Reverse(Straight(d, n))}

LEMMA ListFacts ==
  ASSUME NEW d, Stored(d), NEW n \in 0..Cardinality(d), NEW l \in Lists(d, n)
  PROVE  /\ l \in Seq(d) /\ Len(l) = n /\ Range(l) = First(d, n)
         /\ Reverse(l) \in Lists(d, n)
<1> DEFINE s == Straight(d, n)
           F == First(d, n)
<1>1. s \in Seq(F) /\ Len(s) = n /\ Range(s) = F
  BY FirstCount, OrderedList DEF Straight
<1>2. /\ Reverse(s) \in Seq(F) /\ Len(Reverse(s)) = n /\ Range(Reverse(s)) = F
      /\ Reverse(Reverse(s)) = s
  <2> HIDE DEF s, F
  <2> QED
    BY <1>1, ReverseList
<1>3. F \subseteq d
  BY DEF First
<1>4. l = s \/ l = Reverse(s)
  BY DEF Lists
<1>5. l \in Seq(d)
  <2>1. l \in Seq(F)
    BY <1>1, <1>2, <1>4
  <2> HIDE DEF s, F
  <2> QED
    BY <1>3, <2>1
<1>6. Reverse(l) \in Lists(d, n)
  BY <1>2, <1>4 DEF Lists
<1> QED
  BY <1>1, <1>2, <1>4, <1>5, <1>6

\* A later entry changes no earlier moment.
LEMMA StoreOne ==
  ASSUME NEW d, Stored(d), NEW e, e.key = Cardinality(d) + 1, e.score \in Nat
  PROVE  /\ Stored(d \cup {e}) /\ Cardinality(d \cup {e}) = Cardinality(d) + 1
         /\ \A n \in 0..Cardinality(d) : First(d \cup {e}, n) = First(d, n)
<1> DEFINE c == Cardinality(d)
           g == d \cup {e}
<1>1. IsFiniteSet(d) /\ c \in Nat
  BY FS_CardinalityType DEF Stored, Keyed
<1>2. \A x \in d : x.key \in 1..c
  BY DEF Stored
<1>3. e \notin d
  BY <1>1, <1>2
<1>4. IsFiniteSet(g) /\ Cardinality(g) = c + 1
  BY <1>1, <1>3, FS_AddElement
<1>5. \A x \in g : x \in d \/ x = e
  OBVIOUS
<1>6. /\ \A x \in g : x.key \in 1..c + 1
      /\ \A x \in g : x.key \in Nat /\ x.score \in Nat
  BY <1>1, <1>2 DEF Stored, Keyed
<1>7. \A x, y \in g : x.key = y.key => x = y
  <2>1. \A x \in d : x.key # e.key
    <3>1. e.key = c + 1
      OBVIOUS
    <3> HIDE DEF c
    <3> QED
      BY <1>1, <1>2, <3>1
  <2>2. \A x, y \in d : x.key = y.key => x = y
    BY DEF Stored, Keyed
  <2> QED
    BY <1>5, <2>1, <2>2
<1>8. \A k \in 1..c + 1 : \E x \in g : x.key = k
  <2>1. \A k \in 1..c + 1 : k \in 1..c \/ k = c + 1
    BY <1>1
  <2>2. \A k \in 1..c : \E x \in d : x.key = k
    BY DEF Stored
  <2> QED
    BY <2>1, <2>2
<1>9. Stored(g)
  <2> HIDE DEF g
  <2> QED
    BY <1>4, <1>6, <1>7, <1>8 DEF Stored, Keyed
<1>10. \A n \in 0..c : First(g, n) = First(d, n)
  BY <1>1 DEF First
<1> QED
  BY <1>4, <1>9, <1>10

-----------------------------------------------------------------------------
(* The inductive invariant *)

\* The moment an event is from.
moment(b) == Cardinality(b.entries)

IsValue(i) == i \in 1..Len(mainQueue) /\ mainQueue[i].kind = "value"
IsReload(i) == i \in 1..Len(mainQueue) /\ mainQueue[i].kind = "reload"

\* Every block of the queue is one of the two; an event has all the entries of
\* its moment.
Blocks ==
  /\ mainQueue \in Seq([kind : {"value", "reload"}, entries : SUBSET db])
  /\ \A i \in 1..Len(mainQueue) : IsReload(i) => mainQueue[i] = Reload
  /\ \A i \in 1..Len(mainQueue) : IsValue(i) =>
       /\ moment(mainQueue[i]) \in Len(leaderList)..Cardinality(db)
       /\ mainQueue[i] = Value(First(db, moment(mainQueue[i])))

\* Events come in their order.
InOrder ==
  \A i, j \in 1..Len(mainQueue) : IsValue(i) /\ IsValue(j) /\ i < j =>
    moment(mainQueue[i]) <= moment(mainQueue[j])

\* The list is of one moment, and has something for every row.
Listed ==
  /\ Len(leaderList) \in 0..Cardinality(db) /\ leaderList \in Lists(db, Len(leaderList))
  /\ rows \in 0..Len(leaderList)

\* The table is what the list has.
Fresh == rows = Len(leaderList) /\ \A row \in DOMAIN cells : cells[row] = leaderList[row]

\* The present is in the list or comes with an event.
UpToDate ==
  observing => \/ Len(leaderList) = Cardinality(db)
               \/ \E i \in 1..Len(mainQueue) : IsValue(i) /\ mainQueue[i].entries = db

\* Which way the list is turned, and when the table follows it.
Turns ==
  /\ (\A i \in 1..Len(mainQueue) : ~IsReload(i)) => Fresh
  /\ ~overtaken =>
       /\ \A i, j \in 1..Len(mainQueue) : IsReload(i) /\ IsReload(j) => i = j
       /\ leaderList = IF \E i \in 1..Len(mainQueue) : IsReload(i)
                       THEN Straight(db, Len(leaderList))
                       ELSE Reverse(Straight(db, Len(leaderList)))

IInv ==
  /\ Stored(db) /\ {observing, overtaken} \subseteq BOOLEAN
  /\ Blocks /\ InOrder /\ Listed /\ UpToDate /\ Turns

-----------------------------------------------------------------------------
(* The queue *)

\* A served block leaves the others one place further on.
LEMMA Served ==
  ASSUME NEW S, NEW q \in Seq(S), q # <<>>
  PROVE  /\ Tail(q) \in Seq(S) /\ Len(Tail(q)) = Len(q) - 1 /\ Len(q) \in Nat
         /\ \A i \in 1..Len(Tail(q)) : i + 1 \in 2..Len(q) /\ Tail(q)[i] = q[i + 1]
         /\ \A i \in 2..Len(q) : i - 1 \in 1..Len(Tail(q)) /\ Tail(q)[i - 1] = q[i]
         /\ 1 \in 1..Len(q) /\ Head(q) = q[1]
  OBVIOUS

\* A block enters the queue at its end.
LEMMA Queued ==
  ASSUME NEW S, NEW q \in Seq(S), NEW b \in S
  PROVE  /\ Append(q, b) \in Seq(S) /\ Len(Append(q, b)) = Len(q) + 1 /\ Len(q) \in Nat
         /\ \A i \in 1..Len(q) : i \in 1..Len(q) + 1 /\ Append(q, b)[i] = q[i]
         /\ Append(q, b)[Len(q) + 1] = b
         /\ q \o <<b>> = Append(q, b)
  OBVIOUS

\* At the start there is nothing to show.
LEMMA InitIInv == Init => IInv
<1> SUFFICES ASSUME Init
             PROVE  IInv
  OBVIOUS
<1>1. db = {} /\ mainQueue = <<>> /\ leaderList = <<>> /\ rows = 0 /\ cells = <<>>
  BY DEF Init
<1>2. Cardinality({}) = 0 /\ IsFiniteSet({})
  BY FS_EmptySet
<1>3. Stored(db)
  BY <1>1, <1>2 DEF Stored, Keyed
<1>4. \A l \in Lists(db, 0) : l = <<>>
  BY <1>1, <1>2, <1>3, ListFacts
<1>5. Straight(db, 0) = <<>> /\ Reverse(Straight(db, 0)) = <<>>
  BY <1>4 DEF Lists
<1>6. <<>> \in Lists(db, 0)
  BY <1>5 DEF Lists
<1>7. Listed
  BY <1>1, <1>2, <1>6 DEF Listed
<1>8. Blocks /\ InOrder
  BY <1>1 DEF Blocks, InOrder, IsValue, IsReload
<1>9. UpToDate
  BY DEF UpToDate, Init
<1>10. Turns
  BY <1>1, <1>5 DEF Turns, IsReload, Fresh
<1> QED
  BY <1>3, <1>7, <1>8, <1>9, <1>10 DEF IInv, Init

-----------------------------------------------------------------------------
(* Storing an entry and announcing it *)

\* The database g holds what d held, under the same keys, and maybe more.
Grows(d, g) ==
  /\ Stored(g) /\ d \subseteq g
  /\ Cardinality(d) \in Nat /\ Cardinality(g) \in Nat /\ Cardinality(d) <= Cardinality(g)
  /\ \A n \in 0..Cardinality(d) :
       First(g, n) = First(d, n) /\ Straight(g, n) = Straight(d, n) /\ Lists(g, n) = Lists(d, n)

LEMMA GrowsByNone ==
  ASSUME NEW d, Stored(d)
  PROVE  Grows(d, d)
BY FS_CardinalityType DEF Grows, Stored, Keyed

LEMMA GrowsByOne ==
  ASSUME NEW d, Stored(d), NEW e, e.key = Cardinality(d) + 1, e.score \in Nat
  PROVE  Grows(d, d \cup {e})
<1> DEFINE g == d \cup {e}
<1>1. Cardinality(d) \in Nat
  BY FS_CardinalityType DEF Stored, Keyed
<1>2. Stored(g) /\ Cardinality(g) = Cardinality(d) + 1
  BY StoreOne
<1>3. \A n \in 0..Cardinality(d) : First(g, n) = First(d, n)
  BY StoreOne
<1>4. d \subseteq g
  OBVIOUS
<1> HIDE DEF g
<1>5. \A n \in 0..Cardinality(d) : Straight(g, n) = Straight(d, n)
  BY <1>3 DEF Straight
<1>6. \A n \in 0..Cardinality(d) : Lists(g, n) = Lists(d, n)
  BY <1>5 DEF Lists
<1>7. Grows(d, g)
  <2>1. Cardinality(g) \in Nat /\ Cardinality(d) <= Cardinality(g)
    BY <1>1, <1>2
  <2> QED
    BY <1>1, <1>2, <1>3, <1>4, <1>5, <1>6, <2>1 DEF Grows
<1> QED
  BY <1>7 DEF g

\* The list is of the moment it was of.
LEMMA StoredKeepsLists ==
  ASSUME IInv, Grows(db, db'), UNCHANGED <<leaderList, rows>>
  PROVE  Listed'
BY DEF IInv, Listed, Grows

\* So is every event that waits.
LEMMA StoredKeepsBlocks ==
  ASSUME IInv, Grows(db, db')
  PROVE  /\ mainQueue \in Seq([kind : {"value", "reload"}, entries : SUBSET (db')])
         /\ \A i \in 1..Len(mainQueue) : IsValue(i) =>
              /\ moment(mainQueue[i]) \in Len(leaderList)..Cardinality(db')
              /\ moment(mainQueue[i]) <= Cardinality(db)
              /\ mainQueue[i] = Value(First(db', moment(mainQueue[i])))
<1> DEFINE B == [kind : {"value", "reload"}, entries : SUBSET db]
           B1 == [kind : {"value", "reload"}, entries : SUBSET (db')]
<1>1. mainQueue \in Seq(B)
  BY DEF IInv, Blocks
<1>2. B \subseteq B1
  BY DEF Grows
<1>3. mainQueue \in Seq(B1)
  <2> HIDE DEF B, B1
  <2> QED
    BY <1>1, <1>2
<1>4. Len(leaderList) \in Nat
  BY DEF IInv, Listed, Grows
<1>5. ASSUME NEW i \in 1..Len(mainQueue), IsValue(i)
      PROVE  /\ moment(mainQueue[i]) \in Len(leaderList)..Cardinality(db')
             /\ moment(mainQueue[i]) <= Cardinality(db)
             /\ mainQueue[i] = Value(First(db', moment(mainQueue[i])))
  <2> DEFINE m == moment(mainQueue[i])
  <2>1. m \in Len(leaderList)..Cardinality(db) /\ mainQueue[i] = Value(First(db, m))
    BY <1>5 DEF IInv, Blocks
  <2> HIDE DEF m
  <2>2. First(db', m) = First(db, m) /\ m \in Len(leaderList)..Cardinality(db') /\ m <= Cardinality(db)
    BY <1>4, <2>1 DEF Grows
  <2> QED
    BY <2>1, <2>2 DEF m
<1> QED
  BY <1>3, <1>5

\* An entry stored before the query is answered is announced to nobody.
LEMMA StoredSilently ==
  ASSUME IInv, Grows(db, db'), ~observing,
         UNCHANGED <<observing, mainQueue, leaderList, tableVars, overtaken>>
  PROVE  IInv'
<1>1. Listed'
  BY StoredKeepsLists DEF tableVars
<1>2. /\ \A i : IsValue(i)' <=> IsValue(i)
      /\ \A i : IsReload(i)' <=> IsReload(i)
  BY DEF IsValue, IsReload
<1>3. \A i \in 1..Len(mainQueue) : moment(mainQueue[i])' = moment(mainQueue[i])
  BY DEF moment
<1>4. Blocks'
  <2>1. \A i \in 1..Len(mainQueue) : IsReload(i) => mainQueue[i] = Reload
    BY DEF IInv, Blocks
  <2> QED
    BY <1>2, <1>3, <2>1, StoredKeepsBlocks DEF Blocks
<1>5. InOrder'
  BY <1>2, <1>3 DEF IInv, InOrder
<1>6. UpToDate'
  BY DEF UpToDate
<1>7. Turns'
  <2>1. Straight(db', Len(leaderList)) = Straight(db, Len(leaderList))
    BY DEF IInv, Listed, Grows
  <2> QED
    BY <1>2, <2>1 DEF IInv, Turns, Fresh, tableVars
<1> QED
  BY <1>1, <1>4, <1>5, <1>6, <1>7 DEF IInv, Grows

\* The event of the newest moment comes last.
LEMMA StoredAndAnnounced ==
  ASSUME IInv, Grows(db, db'), observing' \in BOOLEAN,
         mainQueue' = Append(mainQueue, Value(db')),
         UNCHANGED <<leaderList, tableVars, overtaken>>
  PROVE  IInv'
<1> DEFINE B1 == [kind : {"value", "reload"}, entries : SUBSET (db')]
<1>1. Value(db') \in B1
  BY DEF Value
<1>2. mainQueue \in Seq(B1)
  BY StoredKeepsBlocks
<1> PICK last \in Nat : last = Len(mainQueue) + 1
  BY <1>2
<1>3. /\ mainQueue' \in Seq(B1) /\ Len(mainQueue') = last /\ Len(mainQueue) \in Nat
      /\ \A i \in 1..Len(mainQueue) : i \in 1..last /\ mainQueue'[i] = mainQueue[i]
      /\ mainQueue'[last] = Value(db')
  <2> HIDE DEF B1
  <2> QED
    BY <1>1, <1>2, Queued
<1>4. \A i \in 1..last : i \in 1..Len(mainQueue) \/ i = last
  BY <1>3
<1>5. last \in 1..last /\ \A i \in 1..Len(mainQueue) : i < last
  BY <1>3
<1>6. \A i : IsValue(i)' <=> IsValue(i) \/ i = last
  BY <1>3, <1>4, <1>5 DEF IsValue, Value
<1>7. \A i : IsReload(i)' <=> IsReload(i)
  BY <1>3, <1>4, <1>5 DEF IsReload, Value
<1>8. \A i \in 1..Len(mainQueue) : mainQueue'[i] = mainQueue[i]
                                   /\ moment(mainQueue[i])' = moment(mainQueue[i])
  BY <1>3 DEF moment
<1>9. moment(mainQueue[last])' = Cardinality(db')
  BY <1>3 DEF moment, Value
<1>10. /\ Cardinality(db') \in Len(leaderList)..Cardinality(db')
       /\ Value(db') = Value(First(db', Cardinality(db')))
  <2>1. First(db', Cardinality(db')) = db'
    BY FirstCount DEF Grows
  <2>2. Len(leaderList) \in 0..Cardinality(db)
    BY DEF IInv, Listed
  <2> QED
    BY <2>1, <2>2 DEF Grows
<1>11. Blocks'
  <2>1. \A i \in 1..last : IsReload(i)' => mainQueue'[i] = Reload
    BY <1>7, <1>8 DEF IInv, Blocks, IsReload
  <2>2. \A i \in 1..last : IsValue(i)' =>
          /\ moment(mainQueue[i])' \in Len(leaderList)..Cardinality(db')
          /\ mainQueue'[i] = Value(First(db', moment(mainQueue[i])'))
    BY <1>3, <1>4, <1>6, <1>8, <1>9, <1>10, StoredKeepsBlocks DEF IsValue
  <2> QED
    BY <1>3, <2>1, <2>2 DEF Blocks
<1>12. InOrder'
  <2> SUFFICES ASSUME NEW i \in 1..last, NEW j \in 1..last, IsValue(i)',
  IsValue(j)', i < j
               PROVE  moment(mainQueue[i])' <= moment(mainQueue[j])'
    BY <1>3 DEF InOrder
  <2>1. i \in 1..Len(mainQueue)
    BY <1>3, <1>4
  <2>2. IsValue(i)
    BY <1>5, <1>6, <2>1, <1>3 DEF IsValue
  <2>3. CASE j = last
    <3>1. moment(mainQueue[i]) \in Len(leaderList)..Cardinality(db')
      BY <2>1, <2>2, StoredKeepsBlocks
    <3> QED
      BY <1>8, <1>9, <1>10, <2>1, <2>3, <3>1
  <2>4. CASE j # last
    <3>1. IsValue(j) /\ j \in 1..Len(mainQueue)
      BY <1>6, <2>4 DEF IsValue
    <3> QED
      BY <1>8, <2>1, <2>2, <3>1 DEF IInv, InOrder
  <2> QED
    BY <2>3, <2>4
<1>13. UpToDate'
  <2>1. IsValue(last)' /\ mainQueue'[last].entries = db'
    BY <1>3, <1>6 DEF Value
  <2> QED
    BY <1>3, <1>5, <2>1 DEF UpToDate
<1>14. Turns'
  <2>1. Straight(db', Len(leaderList)) = Straight(db, Len(leaderList))
    BY DEF IInv, Listed, Grows
  <2>2. \A i \in 1..last : IsReload(i) => i \in 1..Len(mainQueue)
    BY DEF IsReload
  <2>3. /\ (\E i \in 1..last : IsReload(i)') <=> (\E i \in 1..Len(mainQueue) : IsReload(i))
        /\ (\A i \in 1..last : ~IsReload(i)') <=> (\A i \in 1..Len(mainQueue) : ~IsReload(i))
    BY <1>3, <1>7, <2>2
  <2>4. Turns
    BY DEF IInv
  <2>5. (\A i \in 1..last : ~IsReload(i)') => Fresh'
    BY <2>3, <2>4 DEF Turns, Fresh, tableVars
  <2>6. ~overtaken => \A i, j \in 1..last : IsReload(i)' /\ IsReload(j)' => i = j
    BY <1>7, <2>2, <2>4 DEF Turns
  <2>7. ~overtaken => leaderList' = IF \E i \in 1..last : IsReload(i)'
                                    THEN Straight(db', Len(leaderList))
                                    ELSE Reverse(Straight(db', Len(leaderList)))
    BY <2>1, <2>3, <2>4 DEF Turns
  <2> QED
    BY <1>3, <2>5, <2>6, <2>7 DEF Turns
<1>15. Listed'
  BY StoredKeepsLists DEF tableVars
<1>16. Stored(db') /\ {observing', overtaken'} \subseteq BOOLEAN
  BY DEF IInv, Grows
<1> QED
  BY <1>11, <1>12, <1>13, <1>14, <1>15, <1>16 DEF IInv

\* The query is answered.
LEMMA ObserveKeepsIInv == IInv /\ observe => IInv'
<1> SUFFICES ASSUME IInv, observe
             PROVE  IInv'
  OBVIOUS
<1>1. Grows(db, db')
  BY GrowsByNone DEF observe, IInv
<1> QED
  BY <1>1, StoredAndAnnounced DEF observe

\* An entry is stored.
LEMMA SetValueKeepsIInv ==
  ASSUME IInv, NEW score \in Scores, setValue(score)
  PROVE  IInv'
<1> DEFINE e == [key |-> childByAutoId, score |-> score]
<1>1. e.key = Cardinality(db) + 1 /\ e.score \in Nat
  BY LeaderboardAssumption DEF childByAutoId
<1>2. db' = db \cup {e}
  BY DEF setValue
<1> HIDE DEF e
<1>3. Grows(db, db')
  BY <1>1, <1>2, GrowsByOne DEF IInv
<1>4. observing' = observing /\ observing \in BOOLEAN /\ UNCHANGED <<leaderList, tableVars, overtaken>>
  BY DEF setValue, IInv
<1>5. CASE observing
  BY <1>3, <1>4, <1>5, StoredAndAnnounced DEF setValue
<1>6. CASE ~observing
  BY <1>3, <1>4, <1>6, StoredSilently DEF setValue
<1> QED
  BY <1>5, <1>6

-----------------------------------------------------------------------------
(* Serving a block *)

\* The first block is served, and the database and the list's moment stay.
LEMMA ServedKeeps ==
  ASSUME IInv, mainQueue # <<>>, mainQueue' = Tail(mainQueue),
         UNCHANGED <<db, observing>>, Len(leaderList') = Len(leaderList),
         mainQueue[1].kind = "reload" \/ mainQueue[1].entries = {}
  PROVE  /\ Blocks' /\ InOrder' /\ UpToDate'
         /\ Len(mainQueue) \in Nat /\ 1 \in 1..Len(mainQueue)
         /\ \A i \in 1..Len(mainQueue') : i + 1 \in 2..Len(mainQueue) /\ (IsReload(i)' <=> IsReload(i + 1))
         /\ \A i \in 2..Len(mainQueue) : i - 1 \in 1..Len(mainQueue') /\ (IsReload(i - 1)' <=> IsReload(i))
<1> DEFINE B == [kind : {"value", "reload"}, entries : SUBSET db]
<1>1. mainQueue \in Seq(B)
  BY DEF IInv, Blocks
<1>2. /\ mainQueue' \in Seq(B) /\ Len(mainQueue') = Len(mainQueue) - 1 /\ Len(mainQueue) \in Nat
      /\ \A i \in 1..Len(mainQueue') : i + 1 \in 2..Len(mainQueue) /\ mainQueue'[i] = mainQueue[i + 1]
      /\ \A i \in 2..Len(mainQueue) : i - 1 \in 1..Len(mainQueue') /\ mainQueue'[i - 1] = mainQueue[i]
      /\ 1 \in 1..Len(mainQueue)
  <2> HIDE DEF B
  <2> QED
    BY <1>1, Served
<1>3. \A i \in 1..Len(mainQueue') : /\ i + 1 \in 1..Len(mainQueue)
                                    /\ IsReload(i)' <=> IsReload(i + 1)
                                    /\ IsValue(i)' <=> IsValue(i + 1)
                                    /\ moment(mainQueue[i])' = moment(mainQueue[i + 1])
  BY <1>2 DEF IsReload, IsValue, moment
<1>4. \A i \in 2..Len(mainQueue) : /\ i - 1 \in 1..Len(mainQueue')
                                   /\ IsReload(i - 1)' <=> IsReload(i)
                                   /\ IsValue(i - 1)' <=> IsValue(i)
  BY <1>2 DEF IsReload, IsValue
<1>5. Blocks'
  <2>1. \A i \in 1..Len(mainQueue') : IsReload(i)' => mainQueue'[i] = Reload
    BY <1>2, <1>3 DEF IInv, Blocks
  <2>2. \A i \in 1..Len(mainQueue') : IsValue(i)' =>
          /\ moment(mainQueue[i])' \in Len(leaderList')..Cardinality(db')
          /\ mainQueue'[i] = Value(First(db', moment(mainQueue[i])'))
    BY <1>2, <1>3 DEF IInv, Blocks
  <2>3. mainQueue' \in Seq([kind : {"value", "reload"}, entries : SUBSET (db')])
    BY <1>2
  <2> QED
    BY <2>1, <2>2, <2>3 DEF Blocks
<1>6. InOrder'
  <2> SUFFICES ASSUME NEW i \in 1..Len(mainQueue'), NEW j \in 1..Len(mainQueue'),
                      IsValue(i)', IsValue(j)', i < j
               PROVE  moment(mainQueue[i])' <= moment(mainQueue[j])'
    BY DEF InOrder
  <2>1. /\ IsValue(i + 1) /\ IsValue(j + 1) /\ i + 1 < j + 1
        /\ i + 1 \in 1..Len(mainQueue) /\ j + 1 \in 1..Len(mainQueue)
    BY <1>3
  <2>2. moment(mainQueue[i + 1]) <= moment(mainQueue[j + 1])
    BY <2>1 DEF IInv, InOrder
  <2> QED
    BY <1>3, <2>2
<1>7. UpToDate'
  <2> SUFFICES ASSUME observing, Len(leaderList) # Cardinality(db)
               PROVE  \E k \in 1..Len(mainQueue') : IsValue(k)' /\ mainQueue'[k].entries = db
    BY DEF UpToDate
  <2>1. PICK i \in 1..Len(mainQueue) : IsValue(i) /\ mainQueue[i].entries = db
    BY DEF IInv, UpToDate
  <2>2. i # 1
    <3>1. db # {}
      <4>1. Len(leaderList) \in 0..Cardinality(db)
        BY DEF IInv, Listed
      <4>2. Cardinality({}) = 0
        BY FS_EmptySet
      <4>3. Cardinality(db) # 0
        <5> HIDE DEF B
        <5> QED
          BY <4>1
      <4> QED
        BY ONLY <4>2, <4>3
    <3> QED
      BY <2>1, <3>1 DEF IsValue
  <2>3. i \in 2..Len(mainQueue)
    BY <1>2, <2>2
  <2> QED
    BY <1>2, <1>4, <2>1, <2>3
<1> QED
  BY <1>2, <1>3, <1>4, <1>5, <1>6, <1>7

\* The list is turned round and the table reloaded.
LEMMA ReloadKeepsIInv == IInv /\ reload => IInv'
<1> SUFFICES ASSUME IInv, reload
             PROVE  IInv'
  OBVIOUS
<1>1. /\ leaderList' = Reverse(leaderList) /\ rows' = Len(leaderList') /\ cells' = <<>>
      /\ mainQueue # <<>> /\ Head(mainQueue).kind = "reload" /\ mainQueue' = Tail(mainQueue)
      /\ UNCHANGED <<db, observing, overtaken>>
  BY DEF reload, turned, numberOfRowsInSection
<1>2. /\ Len(leaderList) \in 0..Cardinality(db) /\ leaderList \in Lists(db, Len(leaderList))
      /\ Stored(db)
  BY DEF IInv, Listed
<1>3. leaderList' \in Lists(db, Len(leaderList))
  BY <1>1, <1>2, ListFacts
<1>4. Len(leaderList') = Len(leaderList)
  BY <1>2, <1>3, ListFacts
<1>5. Head(mainQueue) = mainQueue[1]
  BY <1>1 DEF IInv, Blocks
<1>6. /\ Blocks' /\ InOrder' /\ UpToDate'
      /\ Len(mainQueue) \in Nat /\ 1 \in 1..Len(mainQueue)
      /\ \A i \in 1..Len(mainQueue') : i + 1 \in 2..Len(mainQueue) /\ (IsReload(i)' <=> IsReload(i + 1))
  BY <1>1, <1>4, <1>5, ServedKeeps
<1>7. Listed'
  <2>1. Len(leaderList) \in 0..Cardinality(db) /\ Len(leaderList) \in 0..Len(leaderList)
    <3>1. Cardinality(db) \in Nat
      BY <1>2, FS_CardinalityType DEF Stored, Keyed
    <3> QED
      BY <1>2, <3>1
  <2> QED
    BY <1>1, <1>3, <1>4, <2>1 DEF Listed
<1>8. Turns'
  <2>1. IsReload(1)
    BY <1>1, <1>5, <1>6 DEF IsReload
  <2>2. ASSUME ~overtaken
        PROVE  /\ \A i \in 1..Len(mainQueue') : ~IsReload(i)'
               /\ leaderList' = Reverse(Straight(db, Len(leaderList)))
    <3>1. \A i, j \in 1..Len(mainQueue) : IsReload(i) /\ IsReload(j) => i = j
      BY <2>2 DEF IInv, Turns
    <3>2. leaderList = Straight(db, Len(leaderList))
      BY <1>6, <2>1, <2>2 DEF IInv, Turns
    <3>3. \A i \in 2..Len(mainQueue) : i \in 1..Len(mainQueue) /\ i # 1
      BY <1>6
    <3>4. \A i \in 2..Len(mainQueue) : ~IsReload(i)
      BY <1>6, <2>1, <3>1, <3>3
    <3> QED
      BY <1>1, <1>6, <3>2, <3>4
  <2>3. Fresh'
    BY <1>1 DEF Fresh
  <2> QED
    BY <1>1, <1>4, <2>2, <2>3 DEF Turns
<1> QED
  BY <1>1, <1>2, <1>6, <1>7, <1>8 DEF IInv

\* The callback finds an empty database, and does nothing.
LEMMA EmptyEventKeepsIInv == IInv /\ valueEvent /\ Head(mainQueue).entries = {} => IInv'
<1> SUFFICES ASSUME IInv, valueEvent, Head(mainQueue).entries = {}
             PROVE  IInv'
  OBVIOUS
<1>1. /\ mainQueue # <<>> /\ Head(mainQueue).kind = "value" /\ mainQueue' = Tail(mainQueue)
      /\ UNCHANGED <<db, observing, leaderList, rows, cells, overtaken>>
  BY DEF valueEvent, tableVars
<1>2. Head(mainQueue) = mainQueue[1]
  BY <1>1 DEF IInv, Blocks
<1>3. /\ Blocks' /\ InOrder' /\ UpToDate'
      /\ Len(mainQueue) \in Nat /\ 1 \in 1..Len(mainQueue)
      /\ \A i \in 1..Len(mainQueue') : i + 1 \in 2..Len(mainQueue) /\ (IsReload(i)' <=> IsReload(i + 1))
      /\ \A i \in 2..Len(mainQueue) : i - 1 \in 1..Len(mainQueue') /\ (IsReload(i - 1)' <=> IsReload(i))
  BY <1>1, <1>2, ServedKeeps
<1>4. Listed'
  BY <1>1 DEF IInv, Listed
<1>5. Turns'
  <2>1. ~IsReload(1)
    BY <1>1, <1>2 DEF IsReload
  <2>2. \A i \in 1..Len(mainQueue) : IsReload(i) => i \in 2..Len(mainQueue)
    BY <1>3, <2>1
  <2>3. \A i \in 1..Len(mainQueue') : i + 1 \in 1..Len(mainQueue)
    BY <1>3
  <2>4. (\E i \in 1..Len(mainQueue') : IsReload(i)') <=> (\E i \in 1..Len(mainQueue) : IsReload(i))
    BY <1>3, <2>2, <2>3
  <2>5. Turns
    BY DEF IInv
  <2>6. (\A i \in 1..Len(mainQueue') : ~IsReload(i)') => Fresh'
    BY <1>1, <2>4, <2>5 DEF Turns, Fresh
  <2>7. ~overtaken => \A i, j \in 1..Len(mainQueue') : IsReload(i)' /\ IsReload(j)' => i = j
    <3> SUFFICES ASSUME ~overtaken, NEW i \in 1..Len(mainQueue'),
    NEW j \in 1..Len(mainQueue'),
                        IsReload(i)', IsReload(j)'
                 PROVE  i = j
      OBVIOUS
    <3>1. i + 1 = j + 1
      BY <1>3, <2>3, <2>5 DEF Turns
    <3> QED
      BY <3>1
  <2>8. ~overtaken => leaderList = IF \E i \in 1..Len(mainQueue') : IsReload(i)'
                                   THEN Straight(db, Len(leaderList))
                                   ELSE Reverse(Straight(db, Len(leaderList)))
    BY <2>4, <2>5 DEF Turns
  <2> QED
    BY <1>1, <2>6, <2>7, <2>8 DEF Turns
<1> QED
  BY <1>1, <1>3, <1>4, <1>5 DEF IInv

\* The callback refills the list and leaves a block to turn it round.
LEMMA FillEventKeepsIInv == IInv /\ valueEvent /\ Head(mainQueue).entries # {} => IInv'
<1> SUFFICES ASSUME IInv, valueEvent, Head(mainQueue).entries # {}
             PROVE  IInv'
  OBVIOUS
<1> DEFINE B == [kind : {"value", "reload"}, entries : SUBSET db]
           rest == Tail(mainQueue)
<1> PICK n : n = moment(mainQueue[1])
  OBVIOUS
<1>1. /\ mainQueue # <<>> /\ Head(mainQueue).kind = "value"
      /\ leaderList' = Ordered(Head(mainQueue).entries)
      /\ mainQueue' = rest \o <<Reload>>
      /\ overtaken' = Contains(rest, Reload)
      /\ UNCHANGED <<db, observing, rows, cells>>
  BY DEF valueEvent, filled, blocksLeft, tableVars
<1>2. mainQueue \in Seq(B)
  BY DEF IInv, Blocks
<1>3. /\ rest \in Seq(B) /\ Len(rest) = Len(mainQueue) - 1 /\ Len(mainQueue) \in Nat
      /\ \A i \in 1..Len(rest) : i + 1 \in 2..Len(mainQueue) /\ rest[i] = mainQueue[i + 1]
      /\ \A i \in 2..Len(mainQueue) : i - 1 \in 1..Len(rest) /\ rest[i - 1] = mainQueue[i]
      /\ 1 \in 1..Len(mainQueue) /\ Head(mainQueue) = mainQueue[1]
  <2> HIDE DEF B
  <2> QED
    BY <1>1, <1>2, Served
<1> PICK last \in Nat : last = Len(rest) + 1
  <2>1. Len(rest) \in Nat
    <3> HIDE DEF rest
    <3> QED
      BY <1>3
  <2> HIDE DEF rest
  <2> QED
    BY <2>1
<1>4. Reload \in B
  BY DEF Reload
<1>5. /\ mainQueue' \in Seq(B) /\ Len(mainQueue') = last /\ Len(rest) \in Nat
      /\ \A i \in 1..Len(rest) : i \in 1..last /\ mainQueue'[i] = rest[i]
      /\ mainQueue'[last] = Reload
  <2> HIDE DEF B, rest
  <2> QED
    BY <1>1, <1>3, <1>4, Queued
<1>6. IsValue(1)
  BY <1>1, <1>3 DEF IsValue
<1>7. /\ Len(leaderList) \in 0..Cardinality(db) /\ rows \in 0..Len(leaderList)
      /\ Stored(db) /\ Cardinality(db) \in Nat
  BY FS_CardinalityType DEF IInv, Listed, Stored, Keyed
<1>8. n \in Len(leaderList)..Cardinality(db) /\ mainQueue[1] = Value(First(db, n))
  BY <1>3, <1>6 DEF IInv, Blocks
<1>9. leaderList' = Straight(db, n)
  BY <1>1, <1>3, <1>8 DEF Straight, Value
<1>10. n \in 0..Cardinality(db) /\ Straight(db, n) \in Lists(db, n)
  BY <1>7, <1>8 DEF Lists
<1>11. Len(leaderList') = n
  <2> QED
    BY <1>7, <1>9, <1>10, ListFacts
<1>12. Listed'
  <2>1. n \in 0..Cardinality(db) /\ rows \in 0..n
    BY <1>7, <1>8
  <2> QED
    BY <1>1, <1>7, <1>9, <1>10, <1>11, <2>1 DEF Listed
<1>13. \A i \in 1..last : i \in 1..Len(rest) \/ i = last
  BY <1>5
<1>14. \A i \in 1..Len(rest) : /\ i + 1 \in 1..Len(mainQueue) /\ 1 < i + 1
                               /\ mainQueue'[i] = mainQueue[i + 1]
                               /\ IsReload(i)' <=> IsReload(i + 1)
                               /\ IsValue(i)' <=> IsValue(i + 1)
                               /\ moment(mainQueue[i])' = moment(mainQueue[i + 1])
  <2>1. \A i \in 1..Len(rest) : /\ i + 1 \in 1..Len(mainQueue) /\ 1 < i + 1 /\ i \in 1..Len(mainQueue')
                                /\ mainQueue'[i] = mainQueue[i + 1]
    BY <1>3, <1>5
  <2> HIDE DEF rest
  <2> QED
    BY <2>1 DEF IsReload, IsValue, moment
<1>15. \A i : IsValue(i)' => i \in 1..Len(rest)
  BY <1>5, <1>13 DEF IsValue, Reload
<1>16. \A i \in 1..Len(rest) : IsValue(i)' =>
         /\ moment(mainQueue[i + 1]) \in n..Cardinality(db)
         /\ mainQueue[i + 1] = Value(First(db, moment(mainQueue[i + 1])))
  <2> SUFFICES ASSUME NEW i \in 1..Len(rest), IsValue(i)'
               PROVE  /\ moment(mainQueue[i + 1]) \in n..Cardinality(db)
                      /\ mainQueue[i + 1] = Value(First(db, moment(mainQueue[i + 1])))
    OBVIOUS
  <2>1. IsValue(i + 1) /\ i + 1 \in 1..Len(mainQueue) /\ 1 < i + 1
    BY <1>14
  <2>2. n <= moment(mainQueue[i + 1])
    BY <1>3, <1>6, <2>1 DEF IInv, InOrder
  <2>3. /\ moment(mainQueue[i + 1]) \in Len(leaderList)..Cardinality(db)
        /\ mainQueue[i + 1] = Value(First(db, moment(mainQueue[i + 1])))
    BY <2>1 DEF IInv, Blocks
  <2> QED
    BY <1>7, <1>10, <2>2, <2>3
<1>17. Blocks'
  <2>1. \A i \in 1..last : IsReload(i)' => mainQueue'[i] = Reload
    <3>1. \A i \in 1..Len(rest) : IsReload(i)' => mainQueue'[i] = Reload
      BY <1>14 DEF IInv, Blocks
    <3> QED
      BY <1>5, <1>13, <3>1
  <2>2. \A i \in 1..last : IsValue(i)' =>
          /\ moment(mainQueue[i])' \in n..Cardinality(db)
          /\ mainQueue'[i] = Value(First(db, moment(mainQueue[i])'))
    <3> HIDE DEF rest
    <3> QED
      BY <1>14, <1>15, <1>16
  <2>3. mainQueue' \in Seq([kind : {"value", "reload"}, entries : SUBSET (db')])
    BY <1>1, <1>5
  <2> HIDE DEF rest, B
  <2> QED
    BY <1>1, <1>5, <1>11, <2>1, <2>2, <2>3 DEF Blocks
<1>18. InOrder'
  <2> SUFFICES ASSUME NEW i \in 1..last, NEW j \in 1..last, IsValue(i)',
  IsValue(j)', i < j
               PROVE  moment(mainQueue[i])' <= moment(mainQueue[j])'
    BY <1>5 DEF InOrder
  <2>1. i \in 1..Len(rest) /\ j \in 1..Len(rest)
    BY <1>15
  <2>2. IsValue(i + 1) /\ IsValue(j + 1) /\ i + 1 < j + 1
    BY <1>14, <2>1
  <2>3. moment(mainQueue[i + 1]) <= moment(mainQueue[j + 1])
    BY <1>14, <2>1, <2>2 DEF IInv, InOrder
  <2> QED
    BY <1>14, <2>1, <2>3
<1>19. UpToDate'
  <2> SUFFICES ASSUME observing, n # Cardinality(db)
               PROVE  \E k \in 1..last : IsValue(k)' /\ mainQueue'[k].entries = db
    <3> HIDE DEF rest, B
    <3> QED
      BY <1>1, <1>5, <1>11 DEF UpToDate
  <2>1. Len(leaderList) # Cardinality(db)
    BY <1>7, <1>8
  <2>2. PICK i \in 1..Len(mainQueue) : IsValue(i) /\ mainQueue[i].entries = db
    BY <2>1 DEF IInv, UpToDate
  <2>3. i # 1
    BY <2>2 DEF moment
  <2>4. i - 1 \in 1..Len(rest) /\ (i - 1) + 1 = i
    <3>1. i \in 2..Len(mainQueue)
      BY <1>3, <2>3
    <3> QED
      BY <1>3, <3>1
  <2>5. IsValue(i - 1)' /\ mainQueue'[i - 1] = mainQueue[i]
    BY <1>14, <2>2, <2>4
  <2> QED
    BY <1>5, <2>2, <2>4, <2>5
<1>20. Turns'
  <2>1. IsReload(last)'
    BY <1>5 DEF IsReload, Reload
  <2>2. ASSUME ~overtaken'
        PROVE  \A i \in 1..Len(rest) : ~IsReload(i)'
    <3>1. \A i \in 1..Len(rest) : rest[i] # Reload
      BY <1>1, <2>2 DEF Contains
    <3>2. \A i \in 1..Len(rest) : IsReload(i + 1) => mainQueue[i + 1] = Reload
      BY <1>14 DEF IInv, Blocks
    <3> QED
      BY <1>3, <1>14, <3>1, <3>2
  <2>3. last \in 1..last /\ Len(mainQueue') = last
    BY <1>5
  <2>4. ~overtaken' => \A i, j \in 1..last : IsReload(i)' /\ IsReload(j)' => i = j
    BY <1>13, <2>2
  <2>5. leaderList' = Straight(db', Len(leaderList'))
    BY <1>1, <1>9, <1>11
  <2> HIDE DEF rest
  <2> QED
    BY <2>1, <2>3, <2>4, <2>5 DEF Turns
<1>21. overtaken' \in BOOLEAN
  BY <1>1 DEF Contains
<1>22. Stored(db') /\ {observing', overtaken'} \subseteq BOOLEAN
  BY <1>1, <1>21 DEF IInv
<1> QED
  BY <1>12, <1>17, <1>18, <1>19, <1>20, <1>22 DEF IInv

\* A step that changes nothing.
LEMMA StutterKeepsIInv == IInv /\ UNCHANGED vars => IInv'
<1> SUFFICES ASSUME IInv, UNCHANGED vars
             PROVE  IInv'
  OBVIOUS
<1>1. UNCHANGED <<db, observing, mainQueue, leaderList, rows, cells, overtaken>>
  BY DEF vars, tableVars
<1>2. /\ \A i : IsValue(i)' <=> IsValue(i)
      /\ \A i : IsReload(i)' <=> IsReload(i)
      /\ \A i : moment(mainQueue[i])' = moment(mainQueue[i])
  BY <1>1 DEF IsValue, IsReload, moment
<1>3. Blocks'
  BY <1>1, <1>2 DEF IInv, Blocks
<1>4. InOrder'
  BY <1>1, <1>2 DEF IInv, InOrder
<1>5. Listed' /\ UpToDate'
  BY <1>1, <1>2 DEF IInv, Listed, UpToDate
<1>6. Turns'
  BY <1>1, <1>2 DEF IInv, Turns, Fresh
<1> QED
  BY <1>1, <1>3, <1>4, <1>5, <1>6 DEF IInv

\* A row is drawn: its cell is what the list has now.
LEMMA CellKeepsIInv ==
  ASSUME IInv, NEW row \in 1..MaxEntries, cellForRowAt(row)
  PROVE  IInv'
<1>1. /\ cells' = [r \in DOMAIN cells \cup {row} |-> IF r = row THEN leaderList[row] ELSE cells[r]]
      /\ UNCHANGED <<db, observing, mainQueue, leaderList, rows, overtaken>>
  BY DEF cellForRowAt
<1>2. /\ \A i : IsValue(i)' <=> IsValue(i)
      /\ \A i : IsReload(i)' <=> IsReload(i)
      /\ \A i : moment(mainQueue[i])' = moment(mainQueue[i])
  BY <1>1 DEF IsValue, IsReload, moment
<1>3. Blocks'
  BY <1>1, <1>2 DEF IInv, Blocks
<1>4. InOrder'
  BY <1>1, <1>2 DEF IInv, InOrder
<1>5. Listed' /\ UpToDate'
  BY <1>1, <1>2 DEF IInv, Listed, UpToDate
<1>6. Turns'
  <2>1. Fresh => Fresh'
    BY <1>1 DEF Fresh
  <2> QED
    BY <1>1, <1>2, <2>1 DEF IInv, Turns
<1> QED
  BY <1>1, <1>3, <1>4, <1>5, <1>6 DEF IInv

LEMMA NextKeepsIInv == IInv /\ [Next]_vars => IInv'
<1> SUFFICES ASSUME IInv, [Next]_vars
             PROVE  IInv'
  OBVIOUS
<1>1. CASE observe
  BY <1>1, ObserveKeepsIInv
<1>2. ASSUME NEW score \in Scores, setValue(score)
      PROVE  IInv'
  BY <1>2, SetValueKeepsIInv
<1>3. CASE valueEvent
  BY <1>3, EmptyEventKeepsIInv, FillEventKeepsIInv
<1>4. CASE reload
  BY <1>4, ReloadKeepsIInv
<1>5. ASSUME NEW row \in 1..MaxEntries, cellForRowAt(row)
      PROVE  IInv'
  BY <1>5, CellKeepsIInv
<1>6. CASE UNCHANGED vars
  BY <1>6, StutterKeepsIInv
<1> QED
  BY <1>1, <1>2, <1>3, <1>4, <1>5, <1>6 DEF Next

-----------------------------------------------------------------------------
(* The theorems *)

\* In every behaviour of the screen the list and the events that wait are of
\* moments of the database in their order: valueEvent and the block it leaves
\* never lose, mix or repeat an entry of the list, and cells that are not of
\* the list are due to be discarded.
THEOREM Invariance == Spec => []IInv
<1>1. Init => IInv
  BY InitIInv
<1>2. IInv /\ [Next]_vars => IInv'
  BY NextKeepsIInv
<1> QED
  BY <1>1, <1>2, PTL DEF Spec

\* cellForRowAt never indexes the list past its end, whatever events come
\* between reloads.
THEOREM RowsDrawable == Spec => []RowsCanBeDrawn
<1>1. IInv => RowsCanBeDrawn
  BY DEF IInv, Listed, RowsCanBeDrawn
<1> QED
  BY <1>1, Invariance, PTL

\* A table with no reload to come is the list, cell by cell.
LEMMA FreshTable ==
  ASSUME IInv, \A i \in 1..Len(mainQueue) : ~IsReload(i)
  PROVE  table = leaderList
<1>1. Fresh
  BY DEF IInv, Turns
<1>2. leaderList \in Seq(db)
  BY ListFacts DEF IInv, Listed
<1>3. leaderList = [row \in 1..Len(leaderList) |-> leaderList[row]]
  BY <1>2
<1> QED
  BY <1>1, <1>3 DEF Fresh, table

\* Cells of two events are side by side only while a reload waits: otherwise
\* the table is the leaderboard of one moment, one way round or the other.
THEOREM RowsOfOneEvent == Spec => []RowsAreOneEvent
<1>1. ASSUME IInv, ~Contains(mainQueue, Reload)
      PROVE  \E n \in 0..Cardinality(db) :
               LET then == Ordered({e \in db : e.key <= n})
               IN  table = then \/ table = Reverse(then)
  <2>1. \A i \in 1..Len(mainQueue) : ~IsReload(i)
    BY <1>1 DEF IInv, Blocks, Contains
  <2>2. table = leaderList
    BY <1>1, <2>1, FreshTable
  <2>3. PICK n \in 0..Cardinality(db) : leaderList \in Lists(db, n)
    BY <1>1 DEF IInv, Listed
  <2>4. Straight(db, n) = Ordered({e \in db : e.key <= n})
    BY DEF Straight, First
  <2> QED
    BY <2>2, <2>3, <2>4 DEF Lists
<1>2. IInv => RowsAreOneEvent
  BY <1>1 DEF RowsAreOneEvent
<1> QED
  BY <1>2, Invariance, PTL

\* When no block waits every entry has its row, and the highest score is on
\* top unless an event overtook the block of an earlier one.
THEOREM HighestFirst == Spec => []SettledHighestFirst
<1>1. ASSUME IInv, observing, mainQueue = <<>>
      PROVE  Range(table) = db /\ (~overtaken => table = Reverse(Ordered(db)))
  <2>1. Len(mainQueue) = 0 /\ 1..Len(mainQueue) = {}
    BY <1>1
  <2>2. Len(leaderList) = Cardinality(db)
    BY <1>1, <2>1 DEF IInv, UpToDate
  <2>3. table = leaderList
    BY <1>1, <2>1, FreshTable
  <2>4. First(db, Cardinality(db)) = db
    <3>1. Stored(db) /\ Cardinality(db) \in 0..Cardinality(db)
      BY <1>1, FS_CardinalityType DEF IInv, Stored, Keyed
    <3> QED
      BY <3>1, FirstCount
  <2>5. Range(table) = db
    <3>1. Stored(db) /\ Len(leaderList) \in 0..Cardinality(db) /\ leaderList \in Lists(db, Len(leaderList))
      BY <1>1 DEF IInv, Listed
    <3> QED
      BY <2>2, <2>3, <2>4, <3>1, ListFacts
  <2>6. ~overtaken => table = Reverse(Ordered(db))
    <3>1. ~overtaken => leaderList = Reverse(Straight(db, Len(leaderList)))
      BY <1>1, <2>1 DEF IInv, Turns
    <3> QED
      BY <2>2, <2>3, <2>4, <3>1 DEF Straight
  <2> QED
    BY <2>5, <2>6
<1>2. IInv => SettledHighestFirst
  BY <1>1 DEF SettledHighestFirst
<1> QED
  BY <1>2, Invariance, PTL

=============================================================================
