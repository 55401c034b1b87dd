----------------------------- MODULE GameProofs -----------------------------
(***************************************************************************)
(* What the proofs about the games need to know of cards and of the        *)
(* operators Game.tla builds the games from.                               *)
(*                                                                         *)
(* Cards: the deck is finite, and taking sets away keeps it balanced.  A   *)
(* collection of cards is balanced when every feature shows its three      *)
(* values equally often, modulo three.  The whole deck is; a set takes     *)
(* from each feature either three cards of one value or one card of each,  *)
(* and so leaves a balanced collection balanced; and three balanced cards  *)
(* are a set.                                                              *)
(*                                                                         *)
(* Game: what drawing cards, replacing three cards and removing three      *)
(* cards do to a board of distinct cards, and to the order of its cards.   *)
(***************************************************************************)
EXTENDS Game, FiniteSetTheorems, FunctionTheorems, SequenceTheorems, TLAPS

-----------------------------------------------------------------------------
(* Cards *)

Class(cards, f, v) == {c \in cards : c[f] = v}

Balanced(cards) ==
  \A f \in Features, v, w \in Values :
    (Cardinality(Class(cards, f, v)) - Cardinality(Class(cards, f, w))) % 3 = 0

\* The three values are finitely many.
LEMMA ValuesFinite == IsFiniteSet(Values)
<1>1. PICK x, y, z \in Values : x # y /\ x # z /\ y # z /\ Values = {x, y, z}
  BY ValuesAssumption
<1>2. IsFiniteSet({x}) /\ IsFiniteSet({x} \cup {y})
  BY FS_Singleton, FS_AddElement
<1>3. IsFiniteSet(({x} \cup {y}) \cup {z})
  BY <1>2, FS_AddElement
<1>4. Values = ({x} \cup {y}) \cup {z}
  BY <1>1
<1> QED
  BY <1>3, <1>4

\* The deck of Deck.init is finite: a card is determined by its pairs of a
\* feature and a value.
LEMMA CardFinite == IsFiniteSet(Card)
<1> DEFINE Pairs == SUBSET (Features \X Values)
           g == [c \in Card |-> {<<f, c[f]>> : f \in Features}]
<1>1. IsFiniteSet(Pairs)
  BY FeaturesAssumption, ValuesFinite, FS_Product, FS_SUBSET
<1>2. g \in [Card -> Pairs]
  BY DEF Card
<1>3. ASSUME NEW c \in Card, NEW d \in Card, g[c] = g[d]
      PROVE  c = d
  <2>1. {<<f, c[f]>> : f \in Features} = {<<f, d[f]>> : f \in Features}
    BY <1>3
  <2>2. ASSUME NEW f \in Features
        PROVE  c[f] = d[f]
    <3>1. <<f, c[f]>> \in {<<h, d[h]>> : h \in Features}
      BY <2>1
    <3>2. PICK h \in Features : <<f, c[f]>> = <<h, d[h]>>
      BY <3>1
    <3> QED
      BY <3>2
  <2> QED
    BY <2>2 DEF Card
<1>4. g \in Injection(Card, Pairs)
  BY <1>2, <1>3 DEF Injection, IsInjective
<1> QED
  BY <1>1, <1>4, FS_Injection

\* Each value of a feature is shown by equally many cards of the whole deck.
LEMMA ClassesOfDeck ==
  ASSUME NEW f \in Features, NEW v \in Values, NEW w \in Values
  PROVE  Cardinality(Class(Card, f, v)) = Cardinality(Class(Card, f, w))
<1> DEFINE g == [c \in Class(Card, f, v) |-> [c EXCEPT ![f] = w]]
<1>1. IsFiniteSet(Class(Card, f, v))
  BY CardFinite, FS_Subset DEF Class
<1>2. g \in [Class(Card, f, v) -> Class(Card, f, w)]
  BY DEF Class, Card
<1>3. ASSUME NEW c \in Class(Card, f, v), NEW d \in Class(Card, f, v), g[c] = g[d]
      PROVE  c = d
  <2>1. \A h \in Features \ {f} : c[h] = d[h]
    <3>1. \A h \in Features \ {f} : g[c][h] = c[h] /\ g[d][h] = d[h]
      BY DEF Class, Card
    <3> QED
      BY <3>1, <1>3
  <2>2. c[f] = d[f]
    BY DEF Class
  <2> QED
    BY <2>1, <2>2 DEF Class, Card
<1>4. ASSUME NEW d \in Class(Card, f, w)
      PROVE  \E c \in Class(Card, f, v) : g[c] = d
  <2> DEFINE c == [d EXCEPT ![f] = v]
  <2>1. c \in Class(Card, f, v)
    BY DEF Class, Card
  <2>2. [c EXCEPT ![f] = w] = d
    BY DEF Class, Card
  <2> QED
    BY <2>1, <2>2
<1>5. g \in Bijection(Class(Card, f, v), Class(Card, f, w))
  BY <1>2, <1>3, <1>4 DEF Bijection, Injection, Surjection, IsInjective
<1> QED
  BY <1>1, <1>5, FS_Bijection DEF ExistsBijection

\* The deck of Deck.init is balanced: of each feature it has equally many cards
\* of every value.
THEOREM DeckIsBalanced == Balanced(Card)
<1> SUFFICES ASSUME NEW f \in Features, NEW v \in Values, NEW w \in Values
             PROVE  (Cardinality(Class(Card, f, v)) - Cardinality(Class(Card, f, w))) % 3 = 0
  BY DEF Balanced
<1>1. Cardinality(Class(Card, f, v)) \in Nat
  BY CardFinite, FS_Subset, FS_CardinalityType DEF Class
<1> QED
  BY <1>1, ClassesOfDeck

\* Disjoint finite sets have as many elements together as one by one.
LEMMA DisjointUnion ==
  ASSUME NEW S, NEW T, IsFiniteSet(S), IsFiniteSet(T), S \cap T = {}
  PROVE  /\ IsFiniteSet(S \cup T)
         /\ Cardinality(S \cup T) = Cardinality(S) + Cardinality(T)
         /\ Cardinality(S) \in Nat /\ Cardinality(T) \in Nat
<1>1. /\ IsFiniteSet(S \cup T)
      /\ Cardinality(S \cup T) = Cardinality(S) + Cardinality(T) - Cardinality(S \cap T)
  BY FS_Union
<1>2. Cardinality(S \cap T) = 0
  BY FS_EmptySet
<1>3. Cardinality(S) \in Nat /\ Cardinality(T) \in Nat
  BY FS_CardinalityType
<1> QED
  BY <1>1, <1>2, <1>3

\* Any cards divide by the value they show of one feature.
LEMMA ClassesPartition ==
  ASSUME NEW R \in SUBSET Card, NEW f \in Features,
         NEW x \in Values, NEW y \in Values, NEW z \in Values,
         x # y, x # z, y # z, Values = {x, y, z}
  PROVE  /\ IsFiniteSet(R) /\ Cardinality(R) \in Nat
         /\ \A v \in Values : IsFiniteSet(Class(R, f, v)) /\ Cardinality(Class(R, f, v)) \in Nat
         /\ Cardinality(R) = Cardinality(Class(R, f, x)) + Cardinality(Class(R, f, y))
                               + Cardinality(Class(R, f, z))
<1> DEFINE X == Class(R, f, x)
           Y == Class(R, f, y)
           Z == Class(R, f, z)
<1>1. IsFiniteSet(R) /\ Cardinality(R) \in Nat
  BY CardFinite, FS_Subset, FS_CardinalityType
<1>2. \A v \in Values : IsFiniteSet(Class(R, f, v)) /\ Cardinality(Class(R, f, v)) \in Nat
  BY <1>1, FS_Subset, FS_CardinalityType DEF Class
<1>3. X \cap Y = {} /\ (X \cup Y) \cap Z = {}
  BY DEF Class
<1>4. R = (X \cup Y) \cup Z
  BY DEF Class, Card
<1>5. IsFiniteSet(X \cup Y) /\ Cardinality(X \cup Y) = Cardinality(X) + Cardinality(Y)
  BY <1>2, <1>3, DisjointUnion
<1>6. Cardinality((X \cup Y) \cup Z) = Cardinality(X \cup Y) + Cardinality(Z)
  BY <1>2, <1>3, <1>5, DisjointUnion
<1> QED
  BY <1>1, <1>2, <1>4, <1>5, <1>6

\* Deck.init builds a number of cards divisible by three, so that a deck dealt
\* three cards at a time comes out even.
THEOREM DeckSize == Cardinality(Card) \in Nat /\ Cardinality(Card) % 3 = 0
<1>1. PICK f \in Features : TRUE
  BY FeaturesAssumption
<1>2. PICK x, y, z \in Values : x # y /\ x # z /\ y # z /\ Values = {x, y, z}
  BY ValuesAssumption
<1>3. Cardinality(Class(Card, f, x)) \in Nat
  BY CardFinite, FS_Subset, FS_CardinalityType DEF Class
<1>4. /\ Cardinality(Class(Card, f, y)) = Cardinality(Class(Card, f, x))
      /\ Cardinality(Class(Card, f, z)) = Cardinality(Class(Card, f, x))
  BY ClassesOfDeck
<1>5. Cardinality(Card) = Cardinality(Class(Card, f, x)) + Cardinality(Class(Card, f, y))
                            + Cardinality(Class(Card, f, z))
  BY <1>2, ClassesPartition
<1>6. Cardinality(Card) = 3 * Cardinality(Class(Card, f, x))
  BY <1>3, <1>4, <1>5
<1> QED
  BY <1>3, <1>6

\* How many elements two or three distinct things make.
LEMMA ThreeElements ==
  ASSUME NEW a, NEW b, NEW c
  PROVE  /\ IsFiniteSet({a, b, c})
         /\ a # b => Cardinality({a, b}) = 2 /\ IsFiniteSet({a, b})
         /\ a # b /\ a # c /\ b # c => Cardinality({a, b, c}) = 3
<1>1. IsFiniteSet({a}) /\ Cardinality({a}) = 1
  BY FS_Singleton
<1>2. /\ IsFiniteSet({a} \cup {b})
      /\ a # b => Cardinality({a} \cup {b}) = 2
  BY <1>1, FS_AddElement
<1>3. {a, b} = {a} \cup {b} /\ {a, b, c} = {a, b} \cup {c}
  OBVIOUS
<1>4. IsFiniteSet({a, b} \cup {c})
  BY <1>2, <1>3, FS_AddElement
<1>5. a # b /\ a # c /\ b # c => Cardinality({a, b} \cup {c}) = Cardinality({a, b}) + 1
  BY <1>2, <1>3, FS_AddElement
<1> QED
  BY <1>2, <1>3, <1>4, <1>5

\* Counts that agree modulo three still do when the same, or three more, is
\* taken from one of them.
LEMMA ThirdsOfDifference ==
  \A m, n, i, j \in Int :
    (m - n) % 3 = 0 /\ (i = j \/ (i \in {0, 3} /\ j \in {0, 3})) => ((m - i) - (n - j)) % 3 = 0
OBVIOUS

\* Taking a set away keeps cards balanced.
LEMMA SetIsBalanced ==
  ASSUME NEW R \in SUBSET Card, Balanced(R),
         NEW a \in R, NEW b \in R, NEW c \in R,
         a # b, a # c, b # c, isSet(a, b, c)
  PROVE  Balanced(R \ {a, b, c})
<1> SUFFICES ASSUME NEW f \in Features, NEW v \in Values, NEW w \in Values
             PROVE  (Cardinality(Class(R \ {a, b, c}, f, v))
                       - Cardinality(Class(R \ {a, b, c}, f, w))) % 3 = 0
  BY DEF Balanced
<1> DEFINE T == {a, b, c}
<1>1. \A u \in Values : /\ IsFiniteSet(Class(R, f, u))
                        /\ Cardinality(Class(R, f, u)) \in Nat
  BY ClassesPartition, ValuesAssumption
<1>2. ASSUME NEW u \in Values
      PROVE  Cardinality(Class(R \ T, f, u))
               = Cardinality(Class(R, f, u)) - Cardinality(Class(T, f, u))
  <2>1. Class(R \ T, f, u) = Class(R, f, u) \ T
    BY DEF Class
  <2>2. Class(R, f, u) \cap T = Class(T, f, u)
    BY DEF Class
  <2> QED
    BY <1>1, <2>1, <2>2, FS_Difference
<1>3. (Cardinality(Class(R, f, v)) - Cardinality(Class(R, f, w))) % 3 = 0
  BY DEF Balanced
<1>4. \A u \in Values : Cardinality(Class(T, f, u)) \in Int
  <2>1. IsFiniteSet(T)
    BY ThreeElements
  <2> QED
    BY <2>1, FS_Subset, FS_CardinalityType DEF Class
<1>5. ASSUME \/ Cardinality(Class(T, f, v)) = Cardinality(Class(T, f, w))
             \/ Cardinality(Class(T, f, v)) \in {0, 3} /\ Cardinality(Class(T, f, w)) \in {0, 3}
      PROVE  (Cardinality(Class(R \ T, f, v)) - Cardinality(Class(R \ T, f, w))) % 3 = 0
  <2> DEFINE m == Cardinality(Class(R, f, v))
             n == Cardinality(Class(R, f, w))
             i == Cardinality(Class(T, f, v))
             j == Cardinality(Class(T, f, w))
  <2>1. m \in Int /\ n \in Int /\ i \in Int /\ j \in Int
    BY <1>1, <1>4
  <2>2. ((m - i) - (n - j)) % 3 = 0
    <3> HIDE DEF m, n, i, j
    <3> QED
      BY <1>3, <1>5, <2>1, ThirdsOfDifference DEF m, n, i, j
  <2>3. Cardinality(Class(R \ T, f, v)) = m - i /\ Cardinality(Class(R \ T, f, w)) = n - j
    BY <1>2
  <2> QED
    BY <2>2, <2>3
<1>6. CASE a[f] = b[f] /\ b[f] = c[f]
  <2>1. \A u \in Values : Class(T, f, u) = T \/ Class(T, f, u) = {}
    BY <1>6 DEF Class
  <2>2. Cardinality(T) = 3
    BY ThreeElements
  <2>3. Cardinality({}) = 0
    BY FS_EmptySet
  <2>4. \A u \in Values : Cardinality(Class(T, f, u)) \in {0, 3}
    BY <2>1, <2>2, <2>3
  <2> QED
    BY <1>5, <2>4
<1>7. CASE a[f] # b[f] /\ a[f] # c[f] /\ b[f] # c[f]
  <2>1. a[f] \in Values /\ b[f] \in Values /\ c[f] \in Values
    BY DEF Card
  <2>2. \A u \in Values : u = a[f] \/ u = b[f] \/ u = c[f]
    BY <1>7, <2>1, ValuesAssumption
  <2>3. \A u \in Values : Class(T, f, u) = {a} \/ Class(T, f, u) = {b} \/ Class(T, f, u) = {c}
    BY <1>7, <2>2 DEF Class
  <2>4. \A u \in Values : Cardinality(Class(T, f, u)) = 1
    BY <2>3, FS_Singleton
  <2> QED
    BY <1>5, <2>4
<1> QED
  BY <1>6, <1>7 DEF isSet

\* Three balanced cards are a set.
LEMMA BalancedThree ==
  ASSUME NEW a \in Card, NEW b \in Card, NEW c \in Card,
         a # b, a # c, b # c, Balanced({a, b, c})
  PROVE  isSet(a, b, c)
<1> DEFINE T == {a, b, c}
<1>1. ASSUME NEW f \in Features,
             NEW p \in T, NEW q \in T, NEW r \in T,
             p # q, T = {p, q, r}, p[f] = q[f], r[f] # p[f]
      PROVE  FALSE
  <2>1. p[f] \in Values /\ r[f] \in Values
    BY DEF Card
  <2>2. Class(T, f, p[f]) = {p, q} /\ Class(T, f, r[f]) = {r}
    BY <1>1 DEF Class
  <2>3. Cardinality({p, q}) = 2 /\ Cardinality({r}) = 1
    BY <1>1, ThreeElements, FS_Singleton
  <2>4. (2 - 1) % 3 = 0
    BY <2>1, <2>2, <2>3 DEF Balanced
  <2> QED
    BY <2>4
<1>2. ASSUME NEW f \in Features
      PROVE  \/ a[f] = b[f] /\ b[f] = c[f]
             \/ a[f] # b[f] /\ a[f] # c[f] /\ b[f] # c[f]
  <2>1. ~(a[f] = b[f] /\ c[f] # a[f])
    BY <1>1
  <2>2. ~(a[f] = c[f] /\ b[f] # a[f])
    BY <1>1
  <2>3. ~(b[f] = c[f] /\ a[f] # b[f])
    BY <1>1
  <2> QED
    BY <2>1, <2>2, <2>3
<1> QED
  BY <1>2 DEF isSet

\* The whole deck holds a set: three cards that differ in one feature.
LEMMA DeckHasSet == ~noSets(Card)
<1>1. PICK f \in Features : TRUE
  BY FeaturesAssumption
<1>2. PICK x, y, z \in Values : x # y /\ x # z /\ y # z
  BY ValuesAssumption
<1> DEFINE one(u) == [g \in Features |-> IF g = f THEN u ELSE x]
<1>3. one(x) \in Card /\ one(y) \in Card /\ one(z) \in Card
  BY DEF Card
<1>4. one(x)[f] = x /\ one(y)[f] = y /\ one(z)[f] = z
  OBVIOUS
<1>5. one(x) # one(y) /\ one(x) # one(z) /\ one(y) # one(z)
  BY <1>2, <1>4
<1>6. isSet(one(x), one(y), one(z))
  BY <1>2 DEF isSet
<1> HIDE DEF one
<1> QED
  BY <1>3, <1>5, <1>6 DEF noSets

-----------------------------------------------------------------------------
(* Boards *)

\* Distinct elements of S in a sequence: what a board is.
Distinct(S) == {s \in Seq(S) : IsInjective(s)}

-----------------------------------------------------------------------------
(* Draws *)

\* The cards drawn are distinct, as many as asked for, and from the pile
\* (Deck.drawCard, called n times).
LEMMA DrawsType ==
  ASSUME NEW S, NEW n \in Nat, NEW s \in Draws(S, n)
  PROVE  /\ s \in Distinct(S) /\ Len(s) = n
         /\ Range(s) \subseteq S
         /\ IsFiniteSet(Range(s)) /\ Cardinality(Range(s)) = n
<1>1. s \in [1..n -> S] /\ IsInjective(s)
  BY DEF Draws, Injection
<1>2. s \in Seq(S) /\ Len(s) = n /\ DOMAIN s = 1..n
  BY <1>1
<1>3. Range(s) \subseteq S
  BY <1>1 DEF Range
<1>4. s \in Bijection(1..n, Range(s))
  BY <1>1, <1>2 DEF Bijection, Injection, Surjection, Range, IsInjective
<1>5. IsFiniteSet(1..n) /\ Cardinality(1..n) = n
  BY FS_Interval
<1>6. IsFiniteSet(Range(s)) /\ Cardinality(Range(s)) = n
  BY <1>4, <1>5, FS_Bijection DEF ExistsBijection
<1> QED
  BY <1>1, <1>2, <1>3, <1>6 DEF Distinct

\* Drawing n cards and then m of those left is drawing n + m cards.
LEMMA DrawsConcat ==
  ASSUME NEW S, NEW n \in Nat, NEW m \in Nat,
         NEW s \in Draws(S, n), NEW t \in Draws(S \ Range(s), m)
  PROVE  s \o t \in Draws(S, n + m) /\ Range(s \o t) = Range(s) \cup Range(t)
<1>1. /\ s \in [1..n -> S] /\ IsInjective(s)
      /\ t \in [1..m -> S \ Range(s)] /\ IsInjective(t)
  BY DEF Draws, Injection
<1>2. /\ s \in Seq(S) /\ Len(s) = n /\ DOMAIN s = 1..n
      /\ t \in Seq(S) /\ Len(t) = m /\ DOMAIN t = 1..m
  BY <1>1
<1>3. /\ s \o t \in Seq(S) /\ Len(s \o t) = n + m
      /\ \A i \in 1..n + m : (s \o t)[i] = IF i <= n THEN s[i] ELSE t[i - n]
  BY <1>2, ConcatProperties
<1>4. s \o t \in [1..n + m -> S] /\ DOMAIN (s \o t) = 1..n + m
  <2>1. n + m \in Nat
    OBVIOUS
  <2> QED
    BY <1>3, <2>1, LenProperties
<1>5. \A i \in 1..n, j \in 1..m : s[i] # t[j]
  BY <1>1, <1>2 DEF Range
<1>6. ASSUME NEW i \in 1..n + m, NEW j \in 1..n + m, (s \o t)[i] = (s \o t)[j]
      PROVE  i = j
  <2>1. i <= n => i \in 1..n
    OBVIOUS
  <2>2. ~(i <= n) => i - n \in 1..m
    OBVIOUS
  <2>3. j <= n => j \in 1..n
    OBVIOUS
  <2>4. ~(j <= n) => j - n \in 1..m
    OBVIOUS
  <2>5. CASE i <= n /\ j <= n
    BY <1>1, <1>2, <1>3, <1>6, <2>1, <2>3, <2>5 DEF IsInjective
  <2>6. CASE ~(i <= n) /\ ~(j <= n)
    <3>1. t[i - n] = t[j - n]
      BY <1>3, <1>6, <2>6
    <3>2. i - n = j - n
      BY <1>1, <1>2, <2>2, <2>4, <2>6, <3>1 DEF IsInjective
    <3> QED
      BY <3>2
  <2>7. CASE i <= n /\ ~(j <= n)
    BY <1>3, <1>5, <1>6, <2>1, <2>4, <2>7
  <2>8. CASE ~(i <= n) /\ j <= n
    BY <1>3, <1>5, <1>6, <2>2, <2>3, <2>8
  <2> QED
    BY <2>5, <2>6, <2>7, <2>8
<1>7. IsInjective(s \o t)
  BY <1>4, <1>6 DEF IsInjective
<1>8. s \o t \in Draws(S, n + m)
  BY <1>4, <1>7 DEF Draws, Injection
<1>9. Range(s \o t) = Range(s) \cup Range(t)
  BY <1>2, RangeConcatenation
<1> QED
  BY <1>8, <1>9

-----------------------------------------------------------------------------
(* Boards *)

\* A board is a draw of as many cards as it holds.
LEMMA BoardIsDraw ==
  ASSUME NEW S, NEW b \in Distinct(S)
  PROVE  /\ Len(b) \in Nat /\ b \in Draws(Range(b), Len(b))
         /\ Range(b) \subseteq S
         /\ IsFiniteSet(Range(b)) /\ Cardinality(Range(b)) = Len(b)
<1>1. b \in Seq(S) /\ IsInjective(b) /\ Len(b) \in Nat
  BY DEF Distinct
<1>2. b \in [1..Len(b) -> Range(b)]
  BY <1>1 DEF Range
<1>3. b \in Draws(Range(b), Len(b))
  BY <1>1, <1>2 DEF Draws, Injection
<1>4. Range(b) \subseteq S
  BY <1>1 DEF Range
<1> QED
  BY <1>1, <1>3, <1>4, DrawsType

\* Appending cards drawn from elsewhere keeps the cards distinct.
LEMMA AppendDraw ==
  ASSUME NEW S, NEW b \in Distinct(S), NEW P \in SUBSET S, Range(b) \cap P = {},
         NEW n \in Nat, NEW s \in Draws(P, n)
  PROVE  /\ b \o s \in Distinct(S)
         /\ Len(b \o s) = Len(b) + n
         /\ Range(b \o s) = Range(b) \cup Range(s)
<1>1. Len(b) \in Nat /\ b \in Draws(S, Len(b))
  BY DEF Distinct, Draws, Injection
<1>2. s \in Draws(S \ Range(b), n)
  BY DEF Draws, Injection
<1>3. b \o s \in Draws(S, Len(b) + n) /\ Range(b \o s) = Range(b) \cup Range(s)
  BY <1>1, <1>2, DrawsConcat
<1>4. Len(b) + n \in Nat
  BY <1>1
<1> QED
  BY <1>3, <1>4, DrawsType

\* The order of two boards, position by position.
LEMMA OrderOfPositions ==
  ASSUME NEW S, NEW b \in Seq(S), NEW c \in Seq(S)
  PROVE  SameOrder(b, c) <=>
           \A p, q \in 1..Len(b), x, y \in 1..Len(c) :
             b[p] = c[x] /\ b[q] = c[y] /\ p < q => x < y
<1>1. /\ Len(b) \in Nat /\ Len(c) \in Nat
      /\ DOMAIN b = 1..Len(b) /\ DOMAIN c = 1..Len(c)
  OBVIOUS
<1>2. ASSUME SameOrder(b, c),
             NEW p \in 1..Len(b), NEW q \in 1..Len(b),
             NEW x \in 1..Len(c), NEW y \in 1..Len(c),
             b[p] = c[x], b[q] = c[y], p < q
      PROVE  x < y
  <2>1. q \in p + 1..Len(b)
    BY <1>1, <1>2
  <2>2. y \notin 1..x
    BY <1>1, <1>2, <2>1 DEF SameOrder
  <2> QED
    BY <1>1, <2>2
<1>3. ASSUME \A p, q \in 1..Len(b), x, y \in 1..Len(c) :
               b[p] = c[x] /\ b[q] = c[y] /\ p < q => x < y,
             NEW p \in DOMAIN b, NEW x \in DOMAIN c, b[p] = c[x],
             NEW q \in p + 1..Len(b), NEW y \in 1..x, b[q] = c[y]
      PROVE  FALSE
  <2>1. /\ p \in 1..Len(b) /\ q \in 1..Len(b) /\ p < q
        /\ x \in 1..Len(c) /\ y \in 1..Len(c) /\ ~(x < y)
    BY <1>1
  <2> QED
    BY <1>3, <2>1
<1> QED
  BY <1>2, <1>3 DEF SameOrder

\* Removing a position takes one card off the board and leaves the positions
\* before it where they were.
LEMMA RemoveOne ==
  ASSUME NEW S, NEW b \in Distinct(S), NEW p \in 1..Len(b)
  PROVE  /\ RemoveAt(b, p) \in Distinct(S)
         /\ Len(RemoveAt(b, p)) = Len(b) - 1
         /\ Range(RemoveAt(b, p)) = Range(b) \ {b[p]}
         /\ \A q \in 1..p - 1 : RemoveAt(b, p)[q] = b[q]
         /\ SameOrder(b, RemoveAt(b, p))
<1> DEFINE r == RemoveAt(b, p)
           front == SubSeq(b, 1, p - 1)
           back == SubSeq(b, p + 1, Len(b))
<1>1. b \in Seq(S) /\ Len(b) \in Nat /\ DOMAIN b = 1..Len(b) /\ IsInjective(b)
  BY DEF Distinct
<1>2. /\ front \in Seq(S) /\ Len(front) = p - 1
      /\ \A q \in 1..p - 1 : front[q] = b[q]
  <2>1. \A q \in 1..p - 1 : b[q] \in S
    BY <1>1
  <2>2. /\ front \in Seq(S)
        /\ Len(front) = IF 1 <= p - 1 THEN (p - 1) - 1 + 1 ELSE 0
        /\ \A q \in 1..(p - 1) - 1 + 1 : front[q] = b[1 + q - 1]
    BY <2>1, SubSeqProperties
  <2> QED
    BY <2>2
<1>3. /\ back \in Seq(S) /\ Len(back) = Len(b) - p
      /\ \A q \in 1..Len(b) - p : back[q] = b[p + q]
  <2>1. \A q \in p + 1..Len(b) : b[q] \in S
    BY <1>1
  <2>2. /\ back \in Seq(S)
        /\ Len(back) = IF p + 1 <= Len(b) THEN Len(b) - (p + 1) + 1 ELSE 0
        /\ \A q \in 1..Len(b) - (p + 1) + 1 : back[q] = b[(p + 1) + q - 1]
    BY <1>1, <2>1, SubSeqProperties
  <2> HIDE DEF back
  <2>3. Len(back) = Len(b) - p
    <3>1. Len(b) \in Nat /\ p \in Nat /\ p <= Len(b)
      BY <1>1
    <3>2. Len(back) = IF p + 1 <= Len(b) THEN Len(b) - (p + 1) + 1 ELSE 0
      BY <2>2
    <3> QED
      BY <3>1, <3>2
  <2>4. ASSUME NEW q \in 1..Len(b) - p
        PROVE  back[q] = b[p + q]
    <3>1. q \in 1..Len(b) - (p + 1) + 1 /\ (p + 1) + q - 1 = p + q
      BY <1>1
    <3> QED
      BY <2>2, <3>1
  <2>5. back \in Seq(S)
    BY <2>2
  <2> QED
    BY <2>3, <2>4, <2>5
<1>4. r = front \o back
  BY DEF RemoveAt
<1> HIDE DEF r, front, back
<1>5. /\ r \in Seq(S) /\ Len(r) = Len(b) - 1
      /\ \A q \in 1..Len(b) - 1 : r[q] = IF q < p THEN b[q] ELSE b[q + 1]
  <2>0. /\ r \in Seq(S) /\ Len(r) = Len(front) + Len(back)
        /\ \A q \in 1..Len(front) + Len(back) :
             r[q] = IF q <= Len(front) THEN front[q] ELSE back[q - Len(front)]
    BY <1>2, <1>3, <1>4, ConcatProperties
  <2>1. /\ r \in Seq(S) /\ Len(r) = (p - 1) + (Len(b) - p)
        /\ \A q \in 1..(p - 1) + (Len(b) - p) :
             r[q] = IF q <= p - 1 THEN front[q] ELSE back[q - (p - 1)]
    BY <1>2, <1>3, <2>0
  <2>2. Len(r) = Len(b) - 1
    BY <1>1, <2>1
  <2>3. ASSUME NEW q \in 1..Len(b) - 1
        PROVE  r[q] = IF q < p THEN b[q] ELSE b[q + 1]
    <3>1. r[q] = IF q <= p - 1 THEN front[q] ELSE back[q - (p - 1)]
      BY <1>1, <2>1
    <3>2. CASE q < p
      BY <1>2, <3>1, <3>2
    <3>3. CASE ~(q < p)
      <4>1. q - (p - 1) \in 1..Len(b) - p /\ p + (q - (p - 1)) = q + 1
        BY <1>1, <3>3
      <4> QED
        BY <1>3, <3>1, <3>3, <4>1
    <3> QED
      BY <3>2, <3>3
  <2> QED
    BY <2>1, <2>2, <2>3
<1>6. DOMAIN r = 1..Len(b) - 1
  BY <1>5, <1>1
<1>7. IsInjective(r)
  <2> SUFFICES ASSUME NEW q \in 1..Len(b) - 1, NEW t \in 1..Len(b) - 1, r[q] = r[t]
               PROVE  q = t
    BY <1>6 DEF IsInjective
  <2> DEFINE at(x) == IF x < p THEN x ELSE x + 1
  <2>1. at(q) \in 1..Len(b) /\ at(t) \in 1..Len(b)
    BY <1>1
  <2>2. r[q] = b[at(q)] /\ r[t] = b[at(t)]
    BY <1>5
  <2>3. at(q) = at(t)
    BY <1>1, <2>1, <2>2 DEF IsInjective
  <2> QED
    BY <2>3
<1>8. Range(r) = Range(b) \ {b[p]}
  <2>1. ASSUME NEW q \in 1..Len(b) - 1
        PROVE  r[q] \in Range(b) \ {b[p]}
    <3>1. CASE q < p
      <4>1. q \in 1..Len(b) /\ r[q] = b[q] /\ q # p
        BY <1>1, <1>5, <3>1
      <4> QED
        BY <1>1, <4>1 DEF Range, IsInjective
    <3>2. CASE ~(q < p)
      <4>1. q + 1 \in 1..Len(b) /\ r[q] = b[q + 1] /\ q + 1 # p
        BY <1>1, <1>5, <3>2
      <4> QED
        BY <1>1, <4>1 DEF Range, IsInjective
    <3> QED
      BY <3>1, <3>2
  <2>2. ASSUME NEW u \in 1..Len(b), u # p
        PROVE  b[u] \in Range(r)
    <3>1. CASE u < p
      <4>1. u \in 1..Len(b) - 1 /\ r[u] = b[u]
        BY <1>1, <1>5, <3>1
      <4> QED
        BY <1>6, <4>1 DEF Range
    <3>2. CASE u > p
      <4>1. u - 1 \in 1..Len(b) - 1 /\ ~(u - 1 < p) /\ (u - 1) + 1 = u
        BY <1>1, <3>2
      <4>2. r[u - 1] = b[u]
        BY <1>5, <4>1
      <4> QED
        BY <1>6, <4>1, <4>2 DEF Range
    <3> QED
      BY <1>1, <2>2, <3>1, <3>2
  <2>3. Range(r) \subseteq Range(b) \ {b[p]}
    BY <1>6, <2>1 DEF Range
  <2>4. Range(b) \ {b[p]} \subseteq Range(r)
    BY <1>1, <2>2 DEF Range
  <2> QED
    BY <2>3, <2>4
<1>9. \A q \in 1..p - 1 : r[q] = b[q]
  BY <1>1, <1>5
<1>10. SameOrder(b, r)
  <2> SUFFICES ASSUME NEW u \in 1..Len(b), NEW x \in 1..Len(b) - 1, b[u] = r[x],
                      NEW v \in 1..Len(b), NEW y \in 1..Len(b) - 1, b[v] = r[y],
                      u < v
               PROVE  x < y
    <3>1. b \in Seq(S) /\ r \in Seq(S) /\ Len(r) = Len(b) - 1
      BY <1>1, <1>5
    <3> QED
      BY <3>1, OrderOfPositions
  <2> DEFINE at(z) == IF z < p THEN z ELSE z + 1
  <2>1. at(x) \in 1..Len(b) /\ at(y) \in 1..Len(b)
    BY <1>1
  <2>2. r[x] = b[at(x)] /\ r[y] = b[at(y)]
    BY <1>5
  <2>3. at(x) = u /\ at(y) = v
    BY <1>1, <2>1, <2>2 DEF IsInjective
  <2> QED
    BY <1>1, <2>3
<1> QED
  BY <1>5, <1>7, <1>8, <1>9, <1>10 DEF Distinct, r

\* A board of distinct cards has one order.
LEMMA OrderWithItself ==
  ASSUME NEW S, NEW b \in Distinct(S)
  PROVE  SameOrder(b, b)
<1>1. b \in Seq(S) /\ \A x, y \in 1..Len(b) : b[x] = b[y] => x = y
  BY DEF Distinct, IsInjective
<1> QED
  BY <1>1, OrderOfPositions

\* An order kept twice is kept.
LEMMA SameOrderTwice ==
  ASSUME NEW S, NEW b \in Seq(S), NEW c \in Seq(S), NEW d \in Seq(S),
         SameOrder(b, c), SameOrder(c, d), Range(d) \subseteq Range(c)
  PROVE  SameOrder(b, d)
<1> SUFFICES ASSUME NEW p \in 1..Len(b), NEW x \in 1..Len(d), b[p] = d[x],
                    NEW q \in 1..Len(b), NEW y \in 1..Len(d), b[q] = d[y],
                    p < q
             PROVE  x < y
  BY OrderOfPositions
<1>1. PICK u \in 1..Len(c), v \in 1..Len(c) : c[u] = d[x] /\ c[v] = d[y]
  <2>1. d[x] \in Range(c) /\ d[y] \in Range(c)
    <3>1. DOMAIN d = 1..Len(d)
      OBVIOUS
    <3>2. d[x] \in Range(d) /\ d[y] \in Range(d)
      BY <3>1 DEF Range
    <3> QED
      BY <3>2
  <2> QED
    BY <2>1, SMTT(30) DEF Range
<1>2. u < v
  BY <1>1, OrderOfPositions
<1> QED
  BY <1>1, <1>2, OrderOfPositions

\* The sorting in removeThree.
LEMMA SortThree ==
  ASSUME NEW i \in Nat, NEW j \in Nat, NEW k \in Nat, i # j, i # k, j # k
  PROVE  \E l, m, h \in {i, j, k} :
            /\ l < m /\ m < h /\ {l, m, h} = {i, j, k}
            /\ Max({i, j, k}) = h /\ Min({i, j, k}) = l /\ i + j + k - h - l = m
<1>1. PICK l, m, h \in {i, j, k} : l < m /\ m < h
  OBVIOUS
<1>2. {l, m, h} = {i, j, k}
  BY <1>1
<1>3. \A x \in {i, j, k} : h >= x /\ l <= x
  BY <1>1, <1>2
<1>4. \A x \in {i, j, k} : (\A y \in {i, j, k} : x >= y) => x = h
  BY <1>3
<1>5. \A x \in {i, j, k} : (\A y \in {i, j, k} : x <= y) => x = l
  BY <1>3
<1>6. Max({i, j, k}) = h
  BY <1>3, <1>4 DEF Max
<1>7. Min({i, j, k}) = l
  BY <1>3, <1>5 DEF Min
<1>8. i + j + k - h - l = m
  BY <1>1
<1> QED
  BY <1>1, <1>2, <1>6, <1>7, <1>8

\* Removing the largest position first removes the three cards picked and no
\* other (Set.removeSet, InfiniteSet.removeSet).
LEMMA RemoveThree ==
  ASSUME NEW S, NEW b \in Distinct(S),
         NEW i, NEW j, NEW k,
         i \in 1..Len(b), j \in 1..Len(b), k \in 1..Len(b),
         i # j, i # k, j # k
  PROVE  /\ removeThree(b, i, j, k) \in Distinct(S)
         /\ Len(removeThree(b, i, j, k)) = Len(b) - 3
         /\ Range(removeThree(b, i, j, k)) = Range(b) \ {b[i], b[j], b[k]}
         /\ SameOrder(b, removeThree(b, i, j, k))
<1>0. Len(b) \in Nat
  BY DEF Distinct
<1>1. PICK l, m, h \in {i, j, k} :
            /\ l < m /\ m < h /\ {l, m, h} = {i, j, k}
            /\ Max({i, j, k}) = h /\ Min({i, j, k}) = l /\ i + j + k - h - l = m
  <2>1. i \in Nat /\ j \in Nat /\ k \in Nat
    BY <1>0
  <2> QED
    BY ONLY <2>1, i # j, i # k, j # k, SortThree, SMTT(30)
<1> DEFINE b1 == RemoveAt(b, h)
           b2 == RemoveAt(b1, m)
           b3 == RemoveAt(b2, l)
<1>2. removeThree(b, i, j, k) = b3
  BY <1>1 DEF removeThree
<1>3. l \in 1..Len(b) /\ m \in 1..Len(b) /\ h \in 1..Len(b)
  OBVIOUS
<1>4. /\ b1 \in Distinct(S) /\ Len(b1) = Len(b) - 1
      /\ Range(b1) = Range(b) \ {b[h]}
      /\ \A q \in 1..h - 1 : b1[q] = b[q]
      /\ SameOrder(b, b1)
  BY <1>3, RemoveOne
<1>5. m \in 1..Len(b1) /\ m \in 1..h - 1 /\ l \in 1..h - 1
  BY <1>0, <1>1, <1>3, <1>4
<1> HIDE DEF b1
<1>6. /\ b2 \in Distinct(S) /\ Len(b2) = Len(b1) - 1
      /\ Range(b2) = Range(b1) \ {b1[m]}
      /\ \A q \in 1..m - 1 : b2[q] = b1[q]
      /\ SameOrder(b1, b2)
  <2>1. b1 \in Distinct(S) /\ m \in 1..Len(b1)
    BY <1>4, <1>5
  <2> QED
    BY ONLY <2>1, RemoveOne
<1>7. l \in 1..Len(b2) /\ l \in 1..m - 1
  BY <1>0, <1>1, <1>3, <1>4, <1>5, <1>6
<1> HIDE DEF b2
<1>8. /\ b3 \in Distinct(S) /\ Len(b3) = Len(b2) - 1
      /\ Range(b3) = Range(b2) \ {b2[l]}
      /\ SameOrder(b2, b3)
  <2>1. b2 \in Distinct(S) /\ l \in 1..Len(b2)
    BY <1>6, <1>7
  <2> QED
    BY ONLY <2>1, RemoveOne
<1>9. b1[m] = b[m] /\ b2[l] = b[l]
  BY <1>4, <1>5, <1>6, <1>7
<1>10. {b[i], b[j], b[k]} = {b[l], b[m], b[h]}
  BY <1>1
<1>11. Range(b3) = Range(b) \ {b[i], b[j], b[k]}
  BY <1>4, <1>6, <1>8, <1>9, <1>10
<1>12. Len(b3) = Len(b) - 3
  BY <1>0, <1>4, <1>6, <1>8
<1>13. SameOrder(b, b3)
  <2>1. b \in Seq(S) /\ b1 \in Seq(S) /\ b2 \in Seq(S) /\ b3 \in Seq(S)
    BY <1>4, <1>6, <1>8 DEF Distinct
  <2>2. Range(b2) \subseteq Range(b1) /\ Range(b3) \subseteq Range(b2)
    BY <1>6, <1>8
  <2> HIDE DEF b3
  <2>3. SameOrder(b, b2)
    BY <1>4, <1>6, <2>1, <2>2, SameOrderTwice
  <2> QED
    BY <1>8, <2>1, <2>2, <2>3, SameOrderTwice
<1> QED
  BY <1>2, <1>8, <1>11, <1>12, <1>13

\* Dealing three positions anew takes the three cards picked off the board and
\* puts the three drawn on it.
LEMMA ReplaceThree ==
  ASSUME NEW S, NEW b \in Distinct(S),
         NEW i \in 1..Len(b), NEW j \in 1..Len(b), NEW k \in 1..Len(b),
         i # j, i # k, j # k,
         NEW P \in SUBSET S, (Range(b) \ {b[i], b[j], b[k]}) \cap P = {},
         NEW s \in Draws(P, 3)
  PROVE  /\ replaceThree(b, i, j, k, s) \in Distinct(S)
         /\ Len(replaceThree(b, i, j, k, s)) = Len(b)
         /\ Range(replaceThree(b, i, j, k, s))
              = (Range(b) \ {b[i], b[j], b[k]}) \cup Range(s)
<1> DEFINE r == replaceThree(b, i, j, k, s)
<1>1. /\ b \in Seq(S) /\ Len(b) \in Nat /\ DOMAIN b = 1..Len(b) /\ b \in [1..Len(b) -> S]
      /\ \A x, y \in 1..Len(b) : b[x] = b[y] => x = y
  BY DEF Distinct, IsInjective
<1>2. /\ DOMAIN s = {1, 2, 3}
      /\ s[1] \in P /\ s[2] \in P /\ s[3] \in P
      /\ s[1] # s[2] /\ s[1] # s[3] /\ s[2] # s[3]
  <2>1. s \in [1..3 -> P] /\ \A x, y \in 1..3 : s[x] = s[y] => x = y
    BY DEF Draws, Injection, IsInjective
  <2>2. 1..3 = {1, 2, 3}
    OBVIOUS
  <2> QED
    BY <2>1, <2>2
<1>3. Range(s) = {s[1], s[2], s[3]}
  BY <1>2 DEF Range
<1>4. \A x \in 1..Len(b) : x \notin {i, j, k} => b[x] \notin P
  <2> SUFFICES ASSUME NEW x \in 1..Len(b), x \notin {i, j, k}
               PROVE  b[x] \notin P
    OBVIOUS
  <2>1. b[x] \in Range(b)
    BY <1>1 DEF Range
  <2>2. b[x] # b[i] /\ b[x] # b[j] /\ b[x] # b[k]
    BY <1>1
  <2> QED
    BY <2>1, <2>2
<1>5. /\ r \in [1..Len(b) -> S]
      /\ r[i] = s[1] /\ r[j] = s[2] /\ r[k] = s[3]
      /\ \A x \in 1..Len(b) \ {i, j, k} : r[x] = b[x]
  <2> DEFINE D == 1..Len(b)
  <2>1. b \in [D -> S] /\ i \in D /\ j \in D /\ k \in D
    BY <1>1
  <2>2. s[1] \in S /\ s[2] \in S /\ s[3] \in S
    BY <1>2
  <2> HIDE DEF D
  <2>3. /\ r \in [D -> S]
        /\ r[i] = s[1] /\ r[j] = s[2] /\ r[k] = s[3]
        /\ \A x \in D \ {i, j, k} : r[x] = b[x]
    BY <2>1, <2>2 DEF replaceThree
  <2> QED
    BY <2>3 DEF D
<1> HIDE DEF r
<1>6. r \in Seq(S) /\ Len(r) = Len(b) /\ DOMAIN r = 1..Len(b)
  BY <1>1, <1>5
<1>7. \A x \in 1..Len(b), y \in 1..Len(b) : r[x] = r[y] => x = y
  BY <1>1, <1>2, <1>4, <1>5
<1>8. Range(r) \subseteq (Range(b) \ {b[i], b[j], b[k]}) \cup Range(s)
  <2> SUFFICES ASSUME NEW x \in 1..Len(b)
               PROVE  r[x] \in (Range(b) \ {b[i], b[j], b[k]}) \cup Range(s)
    BY <1>6 DEF Range
  <2>1. CASE x \in {i, j, k}
    BY <1>3, <1>5, <2>1
  <2>2. CASE x \notin {i, j, k}
    <3>1. r[x] = b[x] /\ b[x] \notin {b[i], b[j], b[k]}
      BY <1>1, <1>5, <2>2
    <3>2. b[x] \in Range(b)
      BY <1>1 DEF Range
    <3> QED
      BY <3>1, <3>2
  <2> QED
    BY <2>1, <2>2
<1>9. Range(s) \subseteq Range(r)
  BY <1>3, <1>5, <1>6 DEF Range
<1>10. Range(b) \ {b[i], b[j], b[k]} \subseteq Range(r)
  <2> SUFFICES ASSUME NEW x \in 1..Len(b), b[x] \notin {b[i], b[j], b[k]}
               PROVE  b[x] \in Range(r)
    BY <1>1 DEF Range
  <2>1. r[x] = b[x]
    BY <1>5
  <2> QED
    BY <1>6, <2>1 DEF Range
<1> QED
  BY <1>6, <1>7, <1>8, <1>9, <1>10 DEF Distinct, IsInjective, r

\* The cards that were not picked stay where they were.
LEMMA ReplaceKeepsOrder ==
  ASSUME NEW S, NEW b \in Distinct(S),
         NEW i \in 1..Len(b), NEW j \in 1..Len(b), NEW k \in 1..Len(b),
         NEW P, Range(b) \cap P = {}, NEW s \in Draws(P, 3)
  PROVE  SameOrder(b, replaceThree(b, i, j, k, s))
<1> DEFINE r == replaceThree(b, i, j, k, s)
<1>1. /\ DOMAIN b = 1..Len(b) /\ DOMAIN r = DOMAIN b
      /\ \A x, y \in 1..Len(b) : b[x] = b[y] => x = y
  BY DEF Distinct, IsInjective, replaceThree
<1>2. s[1] \in P /\ s[2] \in P /\ s[3] \in P
  BY DEF Draws, Injection
<1>3. \A x \in 1..Len(b) : r[x] \in P \/ r[x] = b[x]
  BY <1>1, <1>2 DEF replaceThree
<1> HIDE DEF r
<1>4. ASSUME NEW p \in 1..Len(b), NEW x \in 1..Len(b), b[p] = r[x]
      PROVE  p = x
  <2>1. b[p] \in Range(b)
    BY <1>1 DEF Range
  <2> QED
    BY <1>1, <1>3, <1>4, <2>1
<1>5. SameOrder(b, r)
  <2>1. ASSUME NEW p \in DOMAIN b, NEW x \in DOMAIN r, b[p] = r[x],
               NEW q \in p + 1..Len(b), NEW y \in 1..x, b[q] = r[y]
        PROVE  FALSE
    <3>1. Len(b) \in Nat /\ p \in 1..Len(b) /\ x \in 1..Len(b)
      BY <1>1 DEF Distinct
    <3>2. q \in 1..Len(b) /\ y \in 1..Len(b)
      BY <3>1
    <3>3. p = x /\ q = y
      BY <1>4, <2>1, <3>1, <3>2
    <3> QED
      BY <3>1, <3>3
  <2> QED
    BY <2>1 DEF SameOrder
<1> QED
  BY <1>5 DEF r

\* New cards dealt behind a board change no order.
LEMMA AppendKeepsOrder ==
  ASSUME NEW S, NEW b \in Seq(S), NEW c \in Seq(S), NEW s \in Seq(S),
         SameOrder(b, c), Range(b) \cap Range(s) = {}
  PROVE  SameOrder(b, c \o s)
<1> DEFINE d == c \o s
<1>1. /\ d \in Seq(S) /\ DOMAIN d = 1..Len(c) + Len(s)
      /\ Len(c) \in Nat /\ Len(s) \in Nat
      /\ DOMAIN c = 1..Len(c) /\ DOMAIN s = 1..Len(s)
      /\ \A x \in 1..Len(c) + Len(s) : d[x] = IF x <= Len(c) THEN c[x] ELSE s[x - Len(c)]
  BY ConcatProperties
<1> HIDE DEF d
<1>2. ASSUME NEW p \in DOMAIN b, NEW x \in DOMAIN d, b[p] = d[x]
      PROVE  x \in DOMAIN c /\ b[p] = c[x]
  <2>1. CASE x <= Len(c)
    BY <1>1, <1>2, <2>1
  <2>2. CASE ~(x <= Len(c))
    <3>1. x - Len(c) \in DOMAIN s /\ d[x] = s[x - Len(c)]
      BY <1>1, <2>2
    <3>2. b[p] \in Range(b) /\ s[x - Len(c)] \in Range(s)
      BY <3>1 DEF Range
    <3> QED
      BY <1>2, <3>1, <3>2
  <2> QED
    BY <2>1, <2>2
<1>3. SameOrder(b, d)
  <2> SUFFICES ASSUME NEW p \in 1..Len(b), NEW x \in 1..Len(d), b[p] = d[x],
                      NEW q \in 1..Len(b), NEW y \in 1..Len(d), b[q] = d[y],
                      p < q
               PROVE  x < y
    BY <1>1, OrderOfPositions
  <2>1. /\ x \in 1..Len(c) /\ b[p] = c[x]
        /\ y \in 1..Len(c) /\ b[q] = c[y]
    <3>1. p \in DOMAIN b /\ q \in DOMAIN b /\ x \in DOMAIN d /\ y \in DOMAIN d
      BY <1>1
    <3> QED
      BY <1>1, <1>2, <3>1
  <2> QED
    BY <2>1, OrderOfPositions
<1> QED
  BY <1>3 DEF d

-----------------------------------------------------------------------------
(* Picks *)

\* One more tap keeps the picks distinct, and three of them are three
\* different positions (Game.selectCard).
LEMMA PickedType ==
  ASSUME NEW D, selectedCards \in Distinct(D), Len(selectedCards) <= 2, NEW i \in D
  PROVE  /\ picked(i) \in Distinct(D)
         /\ Len(picked(i)) \in Nat /\ Len(picked(i)) <= 3
         /\ Len(picked(i)) = 3 =>
              /\ picked(i)[1] \in D /\ picked(i)[2] \in D /\ picked(i)[3] \in D
              /\ picked(i)[1] # picked(i)[2]
              /\ picked(i)[1] # picked(i)[3]
              /\ picked(i)[2] # picked(i)[3]
<1> DEFINE s == selectedCards
           p == picked(i)
<1>1. s \in Seq(D) /\ IsInjective(s) /\ Len(s) \in Nat /\ DOMAIN s = 1..Len(s)
  BY DEF Distinct
<1>2. p \in Distinct(D) /\ Len(p) \in Nat /\ Len(p) <= 3
  <2>1. CASE Contains(s, i)
    BY <1>1, <2>1 DEF picked, Distinct
  <2>2. CASE ~Contains(s, i)
    <3>1. p = Append(s, i)
      BY <2>2 DEF picked
    <3>2. /\ p \in Seq(D) /\ Len(p) = Len(s) + 1
          /\ \A q \in 1..Len(s) : p[q] = s[q]
          /\ p[Len(s) + 1] = i
      BY <1>1, <3>1, AppendProperties
    <3>3. \A q \in 1..Len(s) : s[q] # i
      BY <2>2 DEF Contains
    <3>4. DOMAIN p = 1..Len(s) + 1
      BY <1>1, <3>2
    <3>5. ASSUME NEW q \in 1..Len(s) + 1, NEW t \in 1..Len(s) + 1, p[q] = p[t]
          PROVE  q = t
      <4>1. q \in 1..Len(s) \/ q = Len(s) + 1
        BY <1>1
      <4>2. t \in 1..Len(s) \/ t = Len(s) + 1
        BY <1>1
      <4> QED
        BY <1>1, <3>2, <3>3, <3>5, <4>1, <4>2 DEF IsInjective
    <3>6. IsInjective(p)
      BY <3>4, <3>5 DEF IsInjective
    <3>7. Len(p) \in Nat /\ Len(p) <= 3
      BY <1>1, <3>2
    <3> QED
      BY <3>2, <3>6, <3>7 DEF Distinct
  <2> QED
    BY <2>1, <2>2
<1>3. ASSUME Len(p) = 3
      PROVE  /\ p[1] \in D /\ p[2] \in D /\ p[3] \in D
             /\ p[1] # p[2] /\ p[1] # p[3] /\ p[2] # p[3]
  <2>1. p \in Seq(D) /\ IsInjective(p)
    BY <1>2 DEF Distinct
  <2>2. DOMAIN p = 1..3 /\ p \in [1..3 -> D]
    BY <1>3, <2>1, LenProperties
  <2> HIDE DEF p
  <2>3. 1 \in 1..3 /\ 2 \in 1..3 /\ 3 \in 1..3
    OBVIOUS
  <2> QED
    BY <2>1, <2>2, <2>3 DEF IsInjective
<1> QED
  BY <1>2, <1>3

=============================================================================
