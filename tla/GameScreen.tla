----------------------------- MODULE GameScreen -----------------------------
(***************************************************************************)
(* The screen of the normal mode, GameViewController.swift, with the clock *)
(* and the score of class Set, and the leaderboard it adds entries to.     *)
(* The game on the screen is a GameRound.                                  *)
(*                                                                         *)
(* One screen is modelled at a time: a screen the user left keeps its      *)
(* timer, which ticks for its own game only, and shows nothing.  An alert  *)
(* covers the whole screen, so nothing else can be tapped while it is up.  *)
(***************************************************************************)
EXTENDS GameRound, Sequences, SequencesExt

CONSTANTS
  FullScore,   \* the score of all sets in no time: 3600 in the program
  MaxSeconds,  \* bound: how long a game is followed
  MaxGames,    \* bound: the games started
  MaxLeaders   \* bound: the entries added to the leaderboard

ASSUME ScreenAssumption ==
  /\ FullScore \in Nat
  /\ MaxSeconds \in Nat
  /\ MaxGames \in Nat
  /\ MaxLeaders \in Nat

VARIABLES
  game,       \* the number of the game on the screen, for properties
  elapsed,    \* how long that game has been open, for properties
  seconds,    \* Set.seconds
  timer,      \* the timer is valid
  setsLabel,  \* the number shown by the label numSets
  timeLabel,  \* the time shown by the label displayTime, in seconds
  alert,      \* the score of the alert that is up, or NoAlert
  leaders     \* the entries this device added: a sequence of game and score

screenVars == <<game, elapsed, seconds, timer, setsLabel, timeLabel, alert, leaders>>

gameScreenVars == <<roundVars, screenVars>>

NoAlert == -1

-----------------------------------------------------------------------------

\* Fault injection: the score is not kept from falling below zero.
ScoreUnclamped(s, n) == ((FullScore - s) * n) \div AllSets

\* Set.calcScore: a Double, truncated to an Int, and not below 0.  For every
\* second of the first hour and every number of sets the program's Double
\* product, truncated, is this quotient.
Score(s, n) == IF s >= FullScore THEN 0 ELSE ((FullScore - s) * n) \div AllSets

\* A screen that appears has a new game and a new timer (viewDidLoad, and the
\* initial values of the controller's properties and of the storyboard).
FreshScreen ==
  /\ picks' = 0 /\ sets' = 0 /\ phase' = "open"
  /\ game' = game + 1
  /\ elapsed' = 0
  /\ seconds' = 0
  /\ timer' = TRUE
  /\ setsLabel' = 0
  /\ timeLabel' = 0

ScreenInit ==
  /\ RoundInit
  /\ game = 1
  /\ elapsed = 0
  /\ seconds = 0
  /\ timer = TRUE
  /\ setsLabel = 0
  /\ timeLabel = 0
  /\ alert = NoAlert
  /\ leaders = <<>>

-----------------------------------------------------------------------------

\* selectCard returned false: only the border of the cell changes.
Collect ==
  /\ PickOne
  /\ UNCHANGED screenVars

\* Fault injection: the timer is left running when the game is over.
AfterTripleTimed ==
  IF phase' = "over"
  THEN alert' = Score(seconds, sets') /\ UNCHANGED timer
  ELSE UNCHANGED <<timer, alert>>

\* Fault injection: the label is set from the game as it was before the tap.
LabelBeforeTaking == setsLabel' = sets

\* The label is set from the game as selectCard left it.
UpdateLabel == setsLabel' = sets'

\* gameOver, after a triple: stop the timer and ask for a name.
AfterTriple ==
  IF phase' = "over"
  THEN timer' = FALSE /\ alert' = Score(seconds, sets')
  ELSE UNCHANGED <<timer, alert>>

\* selectCard returned true.
Complete ==
  /\ WrongTriple \/ RightTriple
  /\ UpdateLabel
  /\ AfterTriple
  /\ UNCHANGED <<game, elapsed, seconds, timeLabel, leaders>>

\* The runtime stopped the process inside selectCard.
Stop == LastTriple /\ UNCHANGED screenVars

didSelectItem == alert = NoAlert /\ (Collect \/ Complete \/ Stop)

\* OK in the alert: its score, computed when it was built, is stored under a
\* fresh key, so an entry is always added.
addLeader ==
  /\ alert # NoAlert
  /\ Len(leaders) < MaxLeaders
  /\ leaders' = Append(leaders, [game |-> game, score |-> alert])
  /\ alert' = NoAlert
  /\ UNCHANGED <<roundVars, game, elapsed, seconds, timer, setsLabel, timeLabel>>

\* Fault injection: the new game takes over the seconds of the old one.
NewClockKept == UNCHANGED seconds

\* Set() starts at zero seconds.
NewClock == seconds' = 0

\* The New Game button.  Timer and time label are not touched.
newGame ==
  /\ alert = NoAlert /\ phase # "stopped" /\ game < MaxGames
  /\ picks' = 0 /\ sets' = 0 /\ phase' = "open"
  /\ game' = game + 1
  /\ elapsed' = 0
  /\ NewClock
  /\ setsLabel' = 0
  /\ UNCHANGED <<timer, timeLabel, alert, leaders>>

\* Set.tick
tick == seconds' = seconds + 1

\* A second passes, and updateTimer is called if the timer is valid.
Second ==
  /\ phase # "stopped" /\ elapsed < MaxSeconds /\ seconds < MaxSeconds
  /\ phase = "open" \/ timer
  /\ elapsed' = elapsed + (IF phase = "open" THEN 1 ELSE 0)
  /\ IF timer
     THEN tick /\ timeLabel' = seconds'
     ELSE UNCHANGED <<seconds, timeLabel>>
  /\ UNCHANGED <<roundVars, game, timer, setsLabel, alert, leaders>>

\* The user leaves the screen and comes back, or starts the app again after it
\* was stopped.
viewDidLoad ==
  /\ alert = NoAlert /\ game < MaxGames
  /\ FreshScreen
  /\ UNCHANGED <<alert, leaders>>

ScreenNext == didSelectItem \/ addLeader \/ newGame \/ Second \/ viewDidLoad

ScreenSpec == ScreenInit /\ [][ScreenNext]_gameScreenVars

-----------------------------------------------------------------------------
(* Properties *)

\* The sets label always shows the sets of the game on the screen; the time
\* label shows its time, except that after New Game it shows the time of the
\* game before until the clock moves (newGame does not touch it).
LabelsAreCurrent == setsLabel = sets /\ (timeLabel = seconds \/ seconds = 0)

\* A valid timer times the game on the screen and nothing else: that game is
\* open, and the clock has counted all the time since it started.
TimerKeepsTime == timer => phase \in {"open", "stopped"} /\ seconds = elapsed

\* The score in the alert is computed when the alert is built and stored when
\* OK is tapped; in between the game on the screen has not moved on.
AlertScoreIsCurrent ==
  alert # NoAlert => phase = "over" /\ alert = Score(seconds, sets)

\* Three more taps on a game that is over ask for a name again, and another OK
\* adds another entry: all entries of one game have the same score.
EntriesOfAGameAgree ==
  \A m, n \in DOMAIN leaders :
    leaders[m].game = leaders[n].game => leaders[m].score = leaders[n].score

\* No entry is negative however long the game took, and since a game that is
\* over leaves six cards, no entry reaches the full score: 3333 is the most.
EntriesInRange ==
  \A n \in DOMAIN leaders :
    leaders[n].score \in 0 .. (FullScore * (AllSets - 2)) \div AllSets

\* What the documentation says of the score: it is calculated "based on the
\* number of SETs that were found and the time it took to complete the game".
TimeCounts == alert # NoAlert => alert = Score(elapsed, sets)

=============================================================================
