# set_app in TLA+

`src/set_app` is an iOS app that plays the card game Set in two modes, keeps
time and score in one of them, and shows a leaderboard stored in a Firebase
database. This directory models the app's own logic (the Swift files of
`src/set_app/set_app`, about 950 lines) and, of the libraries the repository
carries with it, the two that keep state an app depends on: the Firebase
database client the leaderboard talks to, and LevelDB, the store that client
persists to when an app asks it to (this one does not; LevelDB is modelled for
its own sake, as the concurrent program in the repository). TLC checks all of it
on small instances; TLAPS proves the safety of both games, the deck, the classic
screen, the leaderboard, the database client, and LevelDB's store, its log and
its iterators for every value of their constants.

## The system

| Part | Source | State | Operations |
| --- | --- | --- | --- |
| Card | `Card.swift`, `Game.isSet` | shape, shading, color, number | `isSet` |
| Deck | `Deck.swift` | `cards`, in order | `init`, `shuffleDeck`, `drawCard`, `addCard`, `isEmpty`, `count` |
| Game | `Game.swift` | `deck`, `displayedCards`, `selectedCards`, `numSets` | `init`, `selectCard`, `noSets` |
| Set (classic) | `Set.swift` | `seconds` | `removeSet`, `tick`, `gameOver`, `calcScore` |
| InfiniteSet (practice) | `InfiniteSet.swift` | `discardDeck` | `removeSet` |
| Classic screen | `GameViewController.swift` | the game, a timer, two labels, an alert | tap on a card, New Game, a tick, OK in the alert |
| Practice screen | `PracticeViewController.swift` | the game, a label | tap on a card |
| Leaderboard screen | `LeaderboardViewController.swift` | `leaderList`, the table's rows and cells | value event, reload block, drawing a row |
| Database client | `Pods/FirebaseDatabase` (`FRepo.m`, `FPersistentConnection.m`, `FWriteTree.m`, `FSyncTree.m`) | writes not answered, the server's data as known, the connection | `setValue`, observe, a connection attempt, a message, a lost connection |
| LevelDB store | `Pods/leveldb-library/db` | memtables, logs, tables, MANIFEST, versions | write, flush, compaction, snapshot, read, recovery |
| LevelDB log | `db/log_writer.cc`, `db/log_reader.cc` | a file of blocks of fragments | append, sync, reuse, read back |
| LevelDB iterator | `db/db_iter.cc`, `table/merger.cc`, `table/two_level_iterator.cc`, `table/block.cc`, `db/skiplist.h` | a position and a direction | seek, next, previous |

A tap on a cell calls `selectCard` with its position. The third position picked
makes `selectCard` call `removeSet`, which takes the cards away if they are a
set, deals new ones, and goes on dealing rounds of three while the board holds
no set. The classic screen then asks `gameOver`, stops the timer, and offers to
store the score. The practice screen only updates its label; its game has no
end, since cards taken go through a discard deck back into the deck. The
leaderboard screen observes a query and receives all entries each time one is
added. Taps, ticks and blocks all run on the main thread, one at a time, and
each handler runs to its end; only the registration of the query is made on
another queue.

The database client works on one serial queue; it shows a write at once, sends
it when there is a connection, and sends it again on the next one when no answer
came. LevelDB is a library with threads of its own: callers queue up as writers,
one background thread flushes and compacts, and readers hold snapshots and old
versions meanwhile.

What is hard in the app is not parallel code but long sequences: which boards a
game can reach after twenty-odd sets, whether a draw ever meets an empty deck,
whether a pick still means the card it meant, what the timer, the labels and
the closure of an alert still refer to after the game was replaced, and two
blocks per database event that other events can come between. In the database
client it is lost connections and answers that come late, in LevelDB the
threads, a stop at any step and the bytes a stop leaves in a log. `PROJECT.json`
lists each of these hazards at its line.

## Modules

| Module | What it is |
| --- | --- |
| `Cards` | cards as functions from features to values; `isSet`, `noSets`, draws from a shuffled pile |
| `Game` | the base class: variables, deal, the picking part of `selectCard` |
| `ClassicSet` | class `Set` without its clock: `removeSet`, `gameOver`, the taps |
| `InfiniteSet` | class `InfiniteSet` |
| `Pile` | abstract: what the games count on when they draw cards |
| `Deck` | `Deck.swift` as `InfiniteSet` uses it: order, shuffle, object identity |
| `GameRound` | abstract: what the classic screen sees of one game |
| `GameScreen` | `GameViewController` with clock and score, on top of `GameRound` |
| `Leaderboard` | `LeaderboardViewController` and, external, the database query |
| `DatabaseClient` | the database client and, external, server and network |
| `Entries` | LevelDB's entries and their order |
| `Versions` | the tables of a version: lookups, what a compaction takes and keeps |
| `LevelDB` | writers, background thread, readers, crashes and recovery |
| `LogFile` | a log file byte by byte |
| `Cursor` | abstract: what an iterator promises |
| `Iterators` | an iterator moved both ways while others write |
| `MCClassicSet`, `MCEndgame`, `MCInfiniteSet`, `MCLevelDB`, `MCIterators` | instances for TLC |
| `GameProofs` | lemmas about cards and about the base class |
| `ClassicSetProofs`, `InfiniteSetProofs`, `DatabaseClientProofs`, `LevelDBProofs`, `LogFileProofs` | theorems about those modules |
| `AppProofs` | theorems about `Deck`, `GameScreen` and `Leaderboard`, which share no state |
| `IteratorProofs` | theorems about `Iterators` |

`ClassicSet` and `InfiniteSet` extend `Game`, as the classes do. `ClassicSet`
implements `GameRound` (`ImplementsRound`), and `GameScreen` extends
`GameRound`, so the screen is checked against everything a real game can do
without carrying cards around. In the same way `Deck` implements `Pile`
(`ImplementsPile`), which is why the games can draw from sets of cards, and
`Iterators` implements `Cursor` (`ImplementsCursor`). `LevelDB` relies on what
`LogFile` shows of one log (a reader gets whole records, the first ones), and
`Iterators` on what `LevelDB` shows of tables (those in use exist and do not
change).

### How state and actions correspond to the code

* Positions are 1-based in the model and 0-based in the program.
* A deck is the set of its cards. `shuffleDeck` leaves an order nothing is known
  of, so `drawCard` may return any card; `Draws(pile, n)` are the outcomes of n
  calls. Module `Deck` has the order and the two `Deck` objects of a practice
  game, and implements `Pile`, in which a draw takes any card of a set. A
  shuffle is a sequence of `shuffle` steps, one per round of the loop, and no
  other operation runs in between (`Idle`); a game draws only after `isEmpty`
  was false, which `NeverTraps` and `TrapsOnlyOnLastSet` are about, so
  `drawCard` has that as its guard. `Card` is what `Deck.init` builds. The four
  features and three values are the constants `Features` and `Values`; the code
  compares features for equality only, so the values need no structure.
* One tap is one action. `selectCard(i)` is `PickCard(i)`, where it returns
  false, or `CompleteTriple(i)`, where it calls `removeSet` and returns true.
  `removeSet(i, j, k)` is what the call can leave (in `ClassicSet` a set of
  boards and decks, in `InfiniteSet` the next values of the variables):
  `afterTaking` is the part before the loop, `Refills` the cards the loop
  `while noSets()` appends. A refill is described by what the loop guarantees
  (whole rounds that left no set on the board, then one that ended it) instead
  of round by round, so that no recursive definition is needed and the loop can
  be reasoned about in proofs.
* `trapped` stands for the Swift runtime stopping the process: `removeFirst` on
  an empty deck, or the range `0..<count - 2` of `noSets` with fewer than two
  cards. `removeSetTraps` says when a call does that; the state is then frozen.
* `BoardSize` is the 12 of `Game.init` and of the test `count <= 12`.
* In `InfiniteSet`, one deal may run from the deck into the reshuffled discard
  deck: `pileFirst`, `pileAfter` and `spareAfter` say which cards come first and
  what both decks are afterwards.
* In `GameScreen`, `alert` holds the score captured by the OK closure, and
  `elapsed` (only read by properties) how many timer periods the game on the
  screen has been open. A second passes as one action that ticks the game if the
  timer is valid. `viewDidLoad` is entering the screen anew, also after the
  process was stopped. The alert is modal, so taps and New Game need
  `alert = NoAlert`. Times are in timer periods: UIKit delivers no timer events
  while the app is suspended or a view is being scrolled.
* `Score` is integer arithmetic. `calcScore` multiplies Doubles and truncates;
  for every second from 0 to 3600 and up to 25 sets (the theorem `SixLeft`
  allows no more) the two agree exactly, which a direct computation of all cases
  confirms.
* In `Leaderboard` the main queue is a sequence of blocks; the value callback
  and the block it leaves with `DispatchQueue.main.async` are two actions.
  Firebase raises its events on the main queue by default and the app does not
  change that. The table copies nothing: `reloadData` asks for the number of rows
  (`rows`, `numberOfRowsInSection`) and discards the cells, and `cellForRowAt`
  draws a row from the live list when it comes on the screen, at any moment, so
  also after the next event has filled the list and before its block has turned
  it round. `cells` are the rows drawn since the last reload, and `table`, read
  by properties, is what a player finds who scrolls through all rows now. The
  order of the query, by score and then key, and one event per change with a
  whole snapshot, are external assumptions.

* `DatabaseClient`: each action is a block on the client's serial queue, with
  all it calls there. `set` and `observe` are called by the screens; `retry`,
  `tokenFetched` and `onReady` are the three steps to a connection;
  `onDisconnect` ends one, for good if the server says so (`interrupted`), and
  `restart` ends the process. The program signs nobody in, so no token is
  needed, but asking for one is a step, and may fail. The server is external: it
  answers on a connection in order, tells a listener of a change before it
  answers the write, and looks up the data of a listen while it goes on with
  other requests. A put on a lost connection may still arrive much later
  (`strays`), which is why one may arrive twice. The server may refuse a listen
  (`serverFetched`) and may revoke one at any time (`serverRevokes`), answered or
  not. `listens` is the number of the listen the query has now, 0 for none: the
  client only acts on the answer to a listen that is still that of its query, as
  the code does by comparing objects. A refused or revoked listen is `cancelled`:
  connection and tree forget it, the tree removes the view of the query with its
  observers, and no value event comes until the leaderboard is opened anew
  (`observe`). The app gives its query no cancel block and is not told.
* `LevelDB`: an action is what a thread does from taking the mutex to giving it
  up, or one effect it has on the disk without it. A table is the set of its
  entries, a log the sequence of its records, and a MANIFEST what it amounts to.
  A crash of the machine keeps of each log any number of records from the last
  synced one on. `committed`, `synced` and `split` are history, read by
  properties only.
* `LogFile`: a byte is `<<f, i>>`, the i-th of fragment f. A write to the file
  may fail at any byte; the checksum is taken to notice every fragment that is
  not whole. The reader is `readNext`, one round of `ReadRecord`'s loop with its
  `ReadPhysicalRecord`, and `reading`, as many rounds as the file has bytes; the
  rounds after the one that finds the end change nothing. `kept`, `synced`,
  `astray` and `torn` are history.
* `Iterators`: each action makes one call of the `MergingIterator`, so the loops
  of `DBIter` are sequences of actions and other threads write between any two
  of them; a change of direction visits the memtable twice and is two actions. A
  `TwoLevelIterator` is one operator, `RunMoved`, over the operator that moves
  an iterator of a part: the blocks of a table (`TableMoved`), the tables of a
  level (`LevelMoved`). An iterator of either is a set of at most one position,
  empty when it is not valid. The binary search of `Block::Iter::Seek` is its
  round, `halved`, as often as there are restart points. The variables `pc`,
  `skipping` and `found` are the program counter and the locals of the running
  call; `asked` and `last` say what was called, where.

Operators whose comment starts with "Fault injection" are not part of the model:
each is a plausible mistake in the operator that follows it, put in its place
to see a property fail.

## What the runs check

| Run | Instance | Distinct states |
| --- | --- | --- |
| `classic_whole_games` | 9 cards, board of 3, every deal, symmetry in features and values | 184,504 |
| `classic_endgame` | 27 cards, board of 6, from four sets taken | 90,663 |
| `practice_games` | 9 cards, board of 3, two sets and a third | 93,896 |
| `deck` | 4 cards, 3 `Deck` objects | 25,446 |
| `game_screen` | 4 thirds, full score 4, 7 seconds, 3 games, 3 entries | 55,949 |
| `leaderboard` | 3 scores, 4 entries, rows drawn at any time | 36,827 |
| `database_client` | 3 writes, one refused, one entry of another device, 2 lost connections, 1 listen refused or revoked, 1 restart | 641,318 |
| `leveldb_store` | 2 keys, 3 or 4 writes, 3 levels, a snapshot, a held version, a crash | 558,284 |
| `leveldb_log` | 3 records of 1, 2 or 5 bytes in blocks of 5, 2 crashes, 1 failed write | 526,411 |
| `leveldb_iterator` | 3 keys, 5 writes in tables and a memtable, 1 write meanwhile | 283,005 |
| `cleared_board`, `untimed_game` | violations, see Findings | |

* `classic_whole_games`: two features are enough for every kind of set and for
  boards with and without one, and a deck of nine is played from every deal to
  its end. The picks are distinct positions of the board; the counts of board,
  deck and sets agree; the last three cards are a set; only taking them stops
  the process; after a triple the board can be played or the deck is empty; the
  board grows only when it has to; and the controller sees a `GameRound`.
* `classic_endgame`: with nine cards a game always clears its board, because six
  of them always hold a set. Games that end with cards left need three
  features; whole games of 27 cards are out of TLC's reach, so the run starts
  late, in a position `MCEndgame` shows to be reachable. Six and nine cards left
  at the end, refills of one and two rounds, removal without replacement, and
  cleared boards all occur. A game over leaves at least six cards and stays
  over; a tap takes away the cards picked and no others and keeps the rest in
  order; the steps are those of `GameRound`.
* `practice_games`: boards without a set, a board of six reduced to three by a
  removal, and a refill that runs on from the deck into the discard deck. Every
  card is in one place, the process is never stopped, after every triple the
  board holds a set, and a discarded card comes back only when the deck has run
  out. Two first deals stand for all, by the affine relabellings of the nine
  cards that `MCInfiniteSet` describes. The run follows all play for two sets.
  The third, which empties the deck of nine cards, is followed from one board
  only: its set goes to the discard deck with the others, all nine cards are
  shuffled, and the next board and its refills have 51,912 outcomes.
* `deck`: draws, discards and reshuffles in any order, whatever the game.
  Through every swap, and though `deck = discardDeck` lets one name take over
  the object of the other, every card is in one place, once; each round of a
  shuffle can place each card not placed yet, by exactly one random number; and
  the steps are those of `Pile`. Three objects are enough, since two are named
  at a time and the third is the new one; four cards give decks of every size
  from none to four, with shuffles of no round up to three.
* `game_screen`: time may exceed the full score, so that the clamp matters;
  three games allow a second and a third game on a screen, a screen left in the
  middle of a game, and two entries of one game.
* `leaderboard`: entries stored before, while and after the screen loads; four
  entries suffice for an event to overtake the block of an earlier one, for the
  next to put things right, and for rows drawn between two blocks; three scores
  give ties and both orders. Every row has its entry in the list whenever it is
  drawn. While a reload waits, rows of two events may stand side by side
  (without the condition TLC finds that they do); once none waits the table is
  the leaderboard of one moment, whole and in order or upside down, whichever
  rows were drawn meanwhile, and with no block left it shows every entry.
  Liveness assumes weak fairness of the query being answered and of each kind of
  block: the main queue is served in order, and a query that is never answered
  shows nothing. No fairness is assumed of players.

* `database_client`: three writes allow one that is refused, one whose answer is
  held back and one not sent yet at a time; two lost connections allow a put to
  be sent twice and both to arrive, a listen to be repeated before the first was
  answered, and one of each. One listen is refused, or revoked before or after
  its data was sent, and the leaderboard is opened again afterwards or not; then
  the answer to the old listen may be under way together with the new listen. A
  write is pending exactly as long as its put has no answer or its answer is
  held back; none is forgotten while the process runs; no entry leaves the
  leaderboard once shown, unless it was refused or the listen cancelled; and
  unless the server forbids it, the client catches up in the end.
  `ClientCatchesUp` promises the data only to a client that has a listen: after
  a refused or revoked one the leaderboard never catches up unless it is opened
  again, a limit of the program, which would need a cancel block to notice. Nor
  are writes whose answers were held back for such a listen sure to be released:
  when the connection is lost, `onDisconnect` resets the count without
  `ackPuts`, and they wait for the answer to the next listen. Liveness assumes
  weak fairness of the client's queue and of the server, of each as a whole: a
  serial queue serves its blocks and timers, and a reachable server answers.
  Nobody has to write or to open the leaderboard, connections may fail and
  listens be revoked as often as the bounds allow, and a late request need never
  arrive.
* `leveldb_store`: a memtable of one entry, and a compaction trigger of one
  file, make flushes and compactions as frequent as they can be. Histories with
  a crash, a snapshot or a held version have three writes (`MaxDisturbed`), the
  others four; a version is held only in histories without a crash, since a
  reader does not survive one. Three levels are enough for a file to be moved,
  merged and placed past level 0, and for a deletion marker to be dropped or
  kept. Reads at every snapshot are right, synced writes survive, no file in use
  is deleted, levels stay disjoint, and every write is answered. For the last,
  fairness is assumed of the writer at the head of the queue, of the background
  thread and of a caller that opens the database again, each weak: threads are
  scheduled. Not reached within the bounds: the extension of a compaction's
  inputs at a level above 0 that has more than one file in range.
* `leveldb_log`: blocks of five bytes with headers of two let a record end at
  each offset of a block: one that leaves no byte, one, exactly a header, or
  more. The reader returns only whole records, in order and without a gap;
  records that were added and kept are read.
* `leveldb_iterator`: five writes of three keys, at most one of them a deletion,
  spread in two ways: over a level of two small tables, a table of level 0 and
  the memtable, and over one table and one with two blocks and restart points.
  Entries of one key lie in different sources or in one block, and the snapshot
  is older than the last write. One more write comes at any moment. The number
  of calls is not bounded. The iterator shows what `Cursor` says, and every call
  returns, given that its thread goes on with a call it has begun.

Two restrictions of these properties are disagreements between LevelDB and what
its comments promise:

* `ReadsAreRight` leaves out the keys in `split`. A compaction may end an output
  file between two entries of one key, the older of which was kept for a
  snapshot; a later compaction may then move the file with the newer entry down
  alone, and a lookup finds the older entry first. The comment of `Version::Get`
  (`version_set.cc:346`) says that "entries never hop across levels". Without
  the restriction the run shows an old value read.
* `AddedRecordsAreRead` is about records in `kept`. After a write to a log that
  failed half-way, `block_offset_` has moved although the bytes are missing
  (`log_writer.cc:107`), and `DBImpl::Write` goes on: records written later are
  not read back, although they were synced (`include/leveldb/options.h:188`
  says they are). The same holds of records appended to a reused log whose last
  block was torn by a crash.

`RowsCanBeDrawn` is about lists that grow: an entry that the server refuses
would shorten the list (`EntriesStay` allows exactly that), and the app draws
rows of the longer one until it reloads. `LabelsAreCurrent` excuses the time
label while the game has taken no second: after New Game it shows the time of
the game before. The app's database has no rules in this
repository.

Deadlock is checked in `deck`, whose cards go round for ever. It is off in the
others: a stopped process, or a bound on sets, games or entries, ends a run.

## Findings

* Clearing the board stops the app (`cleared_board`, `Set.swift:48`). The last
  three cards of a game are always a set. Taking them leaves an empty board, and
  `noSets` then forms the range `0..<-2`. The rules in `Main.storyboard:359` say
  the game comes to an end and is scored. A finished game therefore has at most
  25 of 27 sets and at most 3333 of 3600 points.
* A game started with New Game after a game was over is not timed
  (`untimed_game`, `GameViewController.swift:112`): the timer was invalidated
  and only `viewDidLoad` schedules one. Its score ignores the time it took,
  against the same rules.

Two behaviours no document speaks about are described by properties instead:
after a game is over, three more taps ask for a name again
(`EntriesOfAGameAgree`: the entries agree), and a value event that overtakes the
reload block of an earlier one leaves the leaderboard with the lowest score on
top until the next event (`SettledHighestFirst`).

## What is proved

All assumptions are the named ones of the modules: finite sets of features,
three values, a `BoardSize` that is a multiple of three from 3 to the size of
the deck, natural numbers as bounds. Of the iterator's database, `IsDatabase`
assumes what those who write tables guarantee: the entries of a table are in
order in blocks that are not empty (`TableBuilder::Add`, `BlockBuilder::Add`),
the keys of an index lie between its parts, the tables of a level above 0 are
apart and in order (`LevelsAreDisjoint`), and a sequence number is given once.
The instances of `MCIterators` satisfy it: TLC evaluates it in the run.

| Module | Theorem | Statement |
| --- | --- | --- |
| `ClassicSetProofs` | `TypeCorrect` | the type invariant, with picks that are distinct positions |
| | `EveryCardAccounted` | no card is lost, duplicated or dealt twice |
| | `LastThree` | the last three cards are a set |
| | `OnlyLastSetTraps` | the runtime stops a game only when its last three cards are taken |
| | `SixLeft` | a game that is over leaves six cards or more |
| | `AlwaysPlayable` | after a triple the board holds a set or the deck is empty |
| | `Final` | a game that is over stays as it is |
| | `GrowsForSetsOnly` | the board grows only when it holds no set |
| | `OnlyTheSetGoes` | the set that was picked leaves the board, every other card stays in order |
| | `TapsAreTaps` | every tap is one `GameRound` allows |
| | `SetIsRound` | `ClassicSet` implements `GameRound` |
| `InfiniteSetProofs` | `EveryCardStays` | every card is in one place, once |
| | `NeverStopped` | the runtime never stops a practice game |
| | `NextBoardHasSet` | after a triple the board holds a set |
| | `DeckComesFirst` | discarded cards come back only when the deck has run out |
| `AppProofs` | `CardsStayOnce` | every card is in one deck or with the game, once |
| | `DeckIsPile` | `Deck` implements `Pile` |
| | `ShuffleIsFair` | each round of a shuffle can place each card left, by one number each |
| | `LabelsFollow` | the labels show the game on the screen |
| | `TimerIsOfTheGame` | its seconds are those it was open; the timer of an over game is stopped |
| | `AlertScoreStays` | an open alert has the score of the game on the screen |
| | `EntriesAgree` | the entries of one game have one score |
| | `ScoresInRange` | no score is negative or full |
| | `RowsDrawable` | every row of the table has its entry in the list |
| | `RowsOfOneEvent` | with no reload waiting the rows, whenever drawn, are the leaderboard of one moment, in its order or the reverse |
| | `HighestFirst` | with no block waiting every entry is shown, the highest score on top unless an event overtook a reload |
| `DatabaseClientProofs` | `WritesAreAnswerable` | pending writes are those unanswered or held back |
| | `EntriesSurvive` | no write is forgotten while the process runs |
| | `ShownEntriesStay` | no entry that was shown vanishes unless it was refused, as long as the listen is not cancelled |
| `LevelDBProofs` | `TypeCorrect` | types, phases, numbers, and what the MANIFEST says of the files |
| | `FilesSafe` | no table file anyone may still read is deleted or overwritten |
| | `SyncedWritesAreSafe` | a write answered with sync survives every crash |
| | `LevelsSafe` | the files of a level above 0 never overlap |
| | `ReadsAreSafe` | a read finds what was written last, at every snapshot and now |
| `LogFileProofs` | `WholeRecordsRead` | the reader returns whole records only, in order, and the first ones of a log without failures |
| | `NoAddedRecordLost` | a record added is read after the process stops, a synced one after the machine stops |
| `IteratorProofs` | `IteratorIsCursor` | `Iterators` implements `Cursor`: each call shows the right key of the snapshot, whatever is written meanwhile |

None of these is inductive as it stands. The inductive invariants are:

* Classic game. `IInv` adds that the deck holds a multiple of three cards, which
  gives every draw after an `isEmpty` check its three cards, and that board and
  deck together are *balanced*: every feature shows its three values equally
  often modulo three. `GameProofs` shows that the deck is balanced
  (`DeckIsBalanced`), that a set takes three cards of one value or one of each
  and so keeps what is left balanced (`SetIsBalanced`), and that three balanced
  cards are a set (`BalancedThree`). `GameProofs` has the lemmas about `Draws`,
  `removeThree` and `replaceThree`. There is one lemma per action, and
  `RemoveSetAccounted`, `RefillAccounted` and `TakingAccounted` follow
  `removeSet` part by part.
* Practice game. Board, deck and discard deck share the cards (`Shared`), and
  board and deck hold a multiple of three each. The loop of `removeSet` has no
  exit but a set; it ends because the whole deck holds one (`DeckHasSet`), so
  that a board without one is not the whole deck, and there are three cards
  left to deal. `TakingShared`, `BeforeShared` and `RefillShared` follow
  `removeSet`.
* Deck. The arrays of the deck and the discard deck have no card twice and share
  none, whichever objects the two names mean, and a shuffle stays inside the
  array of the deck. Each step of that invariant's proof is also a step of
  `Pile`. For the shuffle, `Placed` adds that the cards it has placed are those
  in front of the first one not shuffled; since that array has no card twice,
  different numbers put different cards there.
* Classic screen. The timer of a game that is over is stopped, so its score
  cannot change, and entries of the game on the screen exist only once it is
  over and have the score it would get now.
* Leaderboard. An entry gets the next key, so a moment of the database is a
  number of entries. `Listed` says that the list is of one moment and no shorter
  than the rows, `Blocks` which moment each waiting event is of; `InOrder` says
  these never go backward from the list through the queue, and `UpToDate` that
  the last of them is the present. `Turns` has the table and the direction: with
  no reload waiting, the table is as long as the list and its cells are the
  list's (`Fresh`), because only a value event changes the list without a reload
  and always leaves one; and the list is upside down exactly while one block to
  turn it round waits, unless an event overtook such a block. That the order of
  the query exists is shown by counting, for each entry, the entries before it
  (`Places`): no two have the same count, so every place is taken.
* Database client. `Pending` is about the writes of the client: those shown are
  those unanswered or held back. `Asking` is about its listen: on a connection
  it is on its way, being looked up, served, or about to be cancelled by a
  message under way (`Ending`), and the count of unanswered listens is right
  (`Unanswered`). `Talk` says which answers can be under way: at most one to the
  present listen and at most one to an earlier one that was revoked unanswered,
  and nothing of entries behind a refusal. `Streaming` is about the data: every
  write that will be answered with success is covered by what the client knows,
  by a child message before the answer, or by the data of a listen that is not
  answered yet. It can promise that only as long as the server serves the listen,
  and of what was sent before it revoked it (`Live`), which is enough: whoever
  takes a message from behind the revocation has no view any more. While data
  is under way the answer is held back (`NothingAwaited`), which is why
  `holdBack` is needed for `ShownEntriesStay`.

* LevelDB store. The invariant has five parts, each kept by every step and
  resting on those before it. All of them also hold, and are kept, between a
  crash and the end of the next recovery.

  `Base` has the types and the phases: who may be at work while whom else is (a
  flush may come in the middle of a compaction that writes tables, not of one
  that moves a file or is being installed), that every log the MANIFEST counts
  on has a number below the next one, and that the MANIFEST names the files of
  the current version or of the one about to be installed.

  `FilesInv` says that all files in use exist and have numbers already given
  out, and that outputs being written are in `pendingOutputs`. It makes the
  list of live files, which `DeleteObsoleteFiles` takes without knowing of
  work in progress, enough.

  `SyncInv`: every committed entry is in a table the MANIFEST names or in a log
  it counts on (`Promised`), and one that was synced in the part of the log a
  crash leaves. Recovery reads those logs in order; `replayUpTo`, the recursion
  over them, is unrolled once in `ReplayUnfold` and reasoned about by
  induction.

  `LevelsInv` says that a sequence number stands for one entry in all tables and
  logs, and that what a running compaction's target level has beside its inputs
  stays apart from them. A flush may put its table into that very level while
  the compaction runs: `PickLevelForMemTableOutput` goes there only past levels
  it overlaps nothing in, so the table overlaps no input, and because the inputs
  of a compaction leave no gap between them (`Covered`) it cannot lie between
  two of them either, inside the range of an output.

  `ReadsInv` is about lookups, which stop at the first entry they meet. `Owned`
  says whose the entries are: tables and memtables have committed ones only.
  `LogOrder` and `MemOrder`: each log is later than the logs and tables before
  it, and the memtables are what the logs hold. `OpenOrder` is the same of
  recovery, where logs become tables of level 0 whose numbers follow the order
  of the logs. `OrderedInv`: going down the levels, and in level 0 from the
  highest number on, the entries of a key get older, but for the keys in
  `split`. `ShownInv`: an entry that no table has any more is hidden from every
  reader by a newer one, or was a deletion marker with nothing beneath it to
  hide; `visible` are the sequence numbers a reader may ask for, and no new
  reader asks for an older one. `MergeInv` carries the same through a
  compaction: what its inputs show is shown by its outputs and what is still to
  be merged. The delicate steps are the dropping of a deletion marker
  (`IsBaseLevelForKey` looks only at the levels below the output, so a flush
  beneath level 0 while the compaction runs must not bring it what it hid) and
  the installation of outputs beside a table flushed meanwhile.

* LevelDB log. `Written` says of the bytes, whatever was lost among them, that
  a record begins after bytes of older records only, and that a fragment which
  continues a record has the part before it whole in front of it, at most a
  trailer between them. So what the reader joins is one record: the part it has
  in `scratch` is the one just read (`JustRead`), and every way of dropping
  bytes ends it. `InBytes` ties the bytes to the record being written and
  `Placed` says that `block_offset_` agrees with the file unless a write failed.
  `TornOK` and `InProgress` say that the reader stops where the writer is, unless
  it drops that block; `Promised`, that what is owed is read from the bytes that
  no stop can take; `Clean`, that a log without failures has the records from the
  first on. Two facts about the reader carry the steps: what it read of a file it
  also reads of a longer one (`RecordsStay`, for the flushes, stops and failed
  writes, which leave a beginning of the bytes), and a fragment appended where it
  stopped is its next round (`ReadsAppended`, `ReadsTrailer`). Both are proved by
  induction over its rounds (`ReadInduction`), and that induction from the least
  number without the property (`Induction`, `LeastOf`).

* LevelDB iterators. The proof goes from the inside out. `BlockMoves`: a move of
  a block's iterator finds what the move is for (`MovedIn`: the least entry of
  all, the least from a key on, the next one, and so on); the binary search
  never puts its left end past an entry before the key (`SearchOK`), and the
  scans from a restart point do the rest. `TableMoves` and `LevelMoves` say the
  same of a table and of a level, from lemmas about any run of parts: what is
  sought lies in the part the index leads to or in the one beside it
  (`RunFirst`, `RunLast`), which is why `TwoLevelIterator` needs to go on by one
  part only. So a child of the `MergingIterator` is a set of entries and a place
  in it, and what the children have not gone past can be followed through each
  of its calls (`MergeFirst` to `MergePrevTurning`).

  `IteratorInv` says for each place in a call which entries those must be:
  `Covers` (or `CoversBack`) means that every visible entry after (before) the
  current one has some child still before (behind) it. When `Next` turns round,
  the children seek the current entry and those that find it step past it
  together (`TurningForward`); when `Prev` does, they step back, and one that
  found nothing goes to its end (`TurningBack`). A writer comes between the two
  visits of the memtable, but what it writes is newer than the snapshot and not
  visible. `FindingNext` adds that what the loop of `FindNextUserEntry` hides
  belongs to the key just shown or to a deleted one, and to nothing else;
  `FindingPrev`, that what the loop of `FindPrevUserEntry` has saved is of the
  greatest live key in range, of which only newer entries can follow;
  `OnEntryReverse`, that an iterator that went backward stands in front of all
  entries of the key it shows; `Answered`, that the answer is right when the
  call returns. One lemma per action keeps the invariant, and the steps of
  `Cursor` are read off it: a call that begins asks the cursor, a call that
  returns answers, and everything between is a stutter.

The five parts of the store's invariant were checked by TLC, under the bounds of
`leveldb_store`, before they were proved, and so were the invariants of the log
and of the iterator, under those of `leveldb_log` and `leveldb_iterator`.

For the refinement of `GameRound`, `StuckOnlyAtFirst` is added to `IInv`: a
board without a set, while the deck has cards, is the first deal. A wrong triple
can deal the rest of the deck only then, and the game cannot be over afterwards
because the whole deck holds a set (`DeckHasSet`). So a wrong triple never ends
a game. `OnlyTheSetGoes` follows the order of the cards (`SameOrder`) through the
three removals (`SameOrderTwice`), the replacement and the refill.

Only model-checked:

* All liveness (`WritesAreAnswered`, the leaderboard and the client settling, the
  calls of an iterator returning): the prover handles neither fairness nor
  `ENABLED`. Every other property of a passing run is stated by a theorem.
* The bounds of the runs are not assumptions of the theorems: `MaxWrites`,
  `MaxCrashes` and the like are any natural numbers.

## Not modelled

* Of the app: drawing of cells (and the border that marks a pick); formatting of
  labels (`getTimeString`) and names of entries; the home screen and app
  delegate, which hold no state of their own; screens that were left, whose
  timers tick on unseen.
* Of the database client: sign-in, transactions, `onDisconnect` operations, deep
  paths, queries with limits and persistence, none of which the app uses.
* Of LevelDB: manual compactions, repair, failing I/O other than a sync of the
  log, sizes in bytes (a memtable is full, and a file ends, after so many
  entries or at any), a flush in the middle of a recovery, the millisecond a
  writer is slowed down, reading a log from an initial offset, `paranoid_checks`
  and zeroed tails of files; corruption and read sampling in iterators; the
  insertion of a node into the skip list link by link, a question about memory
  ordering that TLA+ does not answer; table formats, filters, caches, arenas
  and encodings.
* The other pods: nanopb, GTMSessionFetcher, FirebaseAuth, FirebaseCore,
  GoogleUtilities and binary frameworks. The app signs nobody in, sends no HTTP
  request of its own, and calls of them only the configuration at launch. Most
  of the repository's lines are theirs: headers of frameworks whose code is not
  in the repository, byte formats driven by generated tables, logging and
  configuration. There is little in them that takes several steps to go wrong,
  and the lines modelled are therefore a small part of all.

The tests of the repository are Xcode's empty templates.

## Plan

1. A composition of `Leaderboard` and `DatabaseClient`, in which value events
   are the changes of the client's event cache.
2. Cells of the practice screen that are reused while a triple is being picked.
3. In `LevelDB`: manual compactions, failing writes of tables and of the
   MANIFEST, and recovery that flushes in the middle of a log.
