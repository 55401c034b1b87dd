---------------------------- MODULE Leaderboard ----------------------------
(***************************************************************************)
(* The leaderboard screen, LeaderboardViewController.swift: a list kept up *)
(* to date by the value events of a database query, in two steps.  The     *)
(* callback fills the list in the order of the query, lowest score first,  *)
(* and leaves a second block on the main queue, which turns the list round *)
(* and reloads the table.  The table keeps the number of rows it was told  *)
(* when it was reloaded and the cells it has drawn since; for every other  *)
(* row it asks when the row comes on the screen, and is given what the     *)
(* list has there at that moment.                                          *)
(*                                                                         *)
(* The database is external: it raises one value event on the main queue   *)
(* when the query is first answered and one for each change after that,    *)
(* each with all the entries of that moment.  Nothing in the program       *)
(* deletes an entry.                                                       *)
(***************************************************************************)
EXTENDS Integers, Sequences, FiniteSets, Functions, SequencesExt

CONSTANTS
  Scores,      \* the scores players can have
  MaxEntries   \* bound: the entries added to the database

ASSUME LeaderboardAssumption == Scores \subseteq Nat /\ MaxEntries \in Nat

VARIABLES
  db,          \* the entries in the database: keys, increasing, and scores
  observing,   \* the query was answered once, and raises events from then on
  mainQueue,   \* blocks waiting on the main queue
  leaderList,  \* the list behind the table
  rows,        \* the number of rows when the table was last reloaded
  cells,       \* the rows drawn since then, each with the entry it was given
  overtaken    \* the last event came before the list of an earlier one was
               \* turned round; for properties only

tableVars == <<rows, cells>>
vars == <<db, observing, mainQueue, leaderList, tableVars, overtaken>>

\* queryOrdered(byChild: "leaderScore"): by score, then by key.
Before(a, b) == a.score < b.score \/ (a.score = b.score /\ a.key < b.key)

\* The entries as a sequence in that order.
Ordered(entries) ==
  CHOOSE s \in [1..Cardinality(entries) -> entries] :
    \A i, j \in DOMAIN s : i < j => Before(s[i], s[j])

Value(entries) == [kind |-> "value", entries |-> entries]
Reload == [kind |-> "reload", entries |-> {}]

-----------------------------------------------------------------------------

Init ==
  /\ db = {}
  /\ observing = FALSE
  /\ mainQueue = <<>>
  /\ leaderList = <<>>
  /\ rows = 0
  /\ cells = <<>>
  /\ overtaken = FALSE

\* The query made in viewDidLoad is answered: the first value event.
observe ==
  /\ ~observing
  /\ observing' = TRUE
  /\ mainQueue' = Append(mainQueue, Value(db))
  /\ UNCHANGED <<db, leaderList, tableVars, overtaken>>

\* childByAutoId: a key later than all there are.
childByAutoId == Cardinality(db) + 1

\* Some player stores an entry.
setValue(score) ==
  /\ Cardinality(db) < MaxEntries
  /\ db' = db \cup {[key |-> childByAutoId, score |-> score]}
  /\ mainQueue' = IF observing THEN Append(mainQueue, Value(db')) ELSE mainQueue
  /\ UNCHANGED <<observing, leaderList, tableVars, overtaken>>

\* Fault injection: only the entries that are new are appended.
filledNew(entries) == Ordered(entries \ Range(leaderList))

\* The list after removeAll and one append per child of the snapshot.
filled(entries) == Ordered(entries)

\* Fault injection: a table that has rows is not reloaded.
blocksLeftOnce(entries) == IF rows = 0 THEN <<Reload>> ELSE <<>>

\* The block the callback leaves for later.
blocksLeft(entries) == <<Reload>>

\* The callback of observe.  An empty database changes nothing.
valueEvent ==
  /\ mainQueue # <<>> /\ Head(mainQueue).kind = "value"
  /\ LET entries == Head(mainQueue).entries
     IN  IF entries = {}
         THEN /\ mainQueue' = Tail(mainQueue)
              /\ UNCHANGED <<leaderList, overtaken>>
         ELSE /\ leaderList' = filled(entries)
              /\ mainQueue' = Tail(mainQueue) \o blocksLeft(entries)
              /\ overtaken' = Contains(Tail(mainQueue), Reload)
  /\ UNCHANGED <<db, observing, tableVars>>

\* Fault injection: the order of the query is kept.
turnedNot(list) == list

turned(list) == Reverse(list)

numberOfRowsInSection(list) == Len(list)

\* The block left by the callback: reverse the list, reload the table, which
\* asks for the number of rows again and discards its cells.
reload ==
  /\ mainQueue # <<>> /\ Head(mainQueue).kind = "reload"
  /\ leaderList' = turned(leaderList)
  /\ rows' = numberOfRowsInSection(leaderList')
  /\ cells' = <<>>
  /\ mainQueue' = Tail(mainQueue)
  /\ UNCHANGED <<db, observing, overtaken>>

\* A row comes on the screen, for the first time or again, between any two
\* blocks of the main queue.
cellForRowAt(row) ==
  /\ row \in 1..rows
  /\ cells' = [r \in DOMAIN cells \cup {row} |->
               IF r = row THEN leaderList[row] ELSE cells[r]]
  /\ UNCHANGED <<db, observing, mainQueue, leaderList, rows, overtaken>>

Next ==
  \/ observe
  \/ \E score \in Scores : setValue(score)
  \/ valueEvent
  \/ reload
  \/ \E row \in 1..MaxEntries : cellForRowAt(row)

\* The main queue serves its blocks, and the database answers the query; no
\* player has to store anything or look at a row.
Fairness == WF_vars(observe) /\ WF_vars(valueEvent) /\ WF_vars(reload)

Spec == Init /\ [][Next]_vars /\ Fairness

-----------------------------------------------------------------------------
(* Properties *)

\* What a player who scrolls through the table now finds on it: the cells
\* drawn before, and for every other row what it will be drawn from.
table == [row \in 1..rows |-> IF row \in DOMAIN cells THEN cells[row] ELSE leaderList[row]]

\* Every row the table has can be drawn at any moment, between the two blocks
\* of an event too: cellForRowAt indexes leaderList with a row of the last
\* reload.
RowsCanBeDrawn == rows <= Len(leaderList)

\* Rows of two events may stand side by side on the screen, but only while a
\* reload waits.  When none does, the table is the whole leaderboard of one
\* moment in the order of the query or in its reverse, whichever rows were
\* drawn when: it may be upside down when a second event overtakes the block
\* of the first, but not in disorder.
RowsAreOneEvent ==
  ~Contains(mainQueue, Reload) =>
    \E n \in 0..Cardinality(db) :
      LET then == Ordered({e \in db : e.key <= n})
      IN  table = then \/ table = Reverse(then)

\* Once all blocks have run, every entry has its row, and the highest score is
\* on top unless the last event overtook the block of an earlier one.
SettledHighestFirst ==
  (observing /\ mainQueue = <<>>) =>
    /\ Range(table) = db
    /\ ~overtaken => table = Reverse(Ordered(db))

\* Every entry stored is shown in the end, whichever blocks are interleaved.
EntriesAppear ==
  \A k \in 1..MaxEntries :
    (\E e \in db : e.key = k) ~> (\E row \in DOMAIN table : table[row].key = k)

=============================================================================
