CONSTANTS
  Cards = {c1, c2, c3, c4}
  Objects = {o1, o2, o3}

SPECIFICATION DeckSpec

INVARIANTS
  EveryCardOnce
  EveryCardCanBeNext

PROPERTY ImplementsPile
