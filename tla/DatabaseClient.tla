--------------------------- MODULE DatabaseClient ---------------------------
(***************************************************************************)
(* The database client the game and the leaderboard share, as far as they  *)
(* use it: FRepo, FPersistentConnection, FSyncTree and FWriteTree, all on  *)
(* one serial queue.  A write is shown at once, kept in memory, sent when  *)
(* there is a connection, sent again on the next one if no answer came,    *)
(* and taken out of the pending writes when it is answered.  Each write is *)
(* one entry under a key of its own, so writes never overlap.              *)
(*                                                                         *)
(* The server and the network are external.  A connection keeps the order  *)
(* of messages but may be lost, and with it what is under way; a request   *)
(* sent before that may still arrive much later.  The server looks up the  *)
(* data of a listen while it goes on with other requests, tells a listener *)
(* of a change before it answers the write, and may refuse entries.  It    *)
(* may refuse a listen, too, or revoke it at any time, and answers every   *)
(* listen of a connection that lasts.                                      *)
(*                                                                         *)
(* The program never enables persistence, signs in, goes offline, removes  *)
(* an observer or runs a transaction, and those paths are left out.        *)
(***************************************************************************)
EXTENDS Integers, Sequences, FiniteSets, SequencesExt

CONSTANTS
  MaxWrites,   \* bound: the entries this device stores, 1, 2, ...
  Others,      \* the entries other devices store
  Refused,     \* the entries the rules of the database refuse
  MaxDrops,    \* bound: the connections that fail or are lost
  MaxDenials,  \* bound: the listens the server refuses or revokes
  MaxEnds      \* bound: the times the process ends

Own == 1..MaxWrites

ASSUME ClientAssumption ==
  /\ MaxWrites \in Nat /\ MaxDrops \in Nat /\ MaxDenials \in Nat /\ MaxEnds \in Nat
  /\ Refused \subseteq Own /\ Own \cap Others = {}

VARIABLES
  writeIdCounter,       \* the number of writes made
  allWrites,            \* FWriteTree: the writes shown but not yet answered
  listenSpecs,          \* the listens this process started
  listens,              \* the one of the leaderboard's query, 0 if it has none
  complete,             \* the server's data is known, value events are raised
  serverCache,          \* the server's data as far as the client knows
  outstandingPuts,      \* the puts with no answer yet
  putsToAck,            \* answers held back while a listen is not answered
  unackedListensCount,
  connectionState,
  scheduledRetry,       \* a connection attempt waits for its delay
  interrupted,          \* the server forbade to reconnect
  toServer, toClient,   \* the messages under way on the connection
  serverDb,             \* the server's entries
  fetching,             \* the listen whose data the server looks up, or 0
  listening,            \* the server tells this connection of changes
  strays,               \* puts of lost connections that may still arrive
  abandoned,            \* writes unanswered when the process ended
  drops, denials, ends  \* connections, listens and processes lost so far

treeVars == <<allWrites, complete, serverCache>>
listenVars == <<listenSpecs, listens>>
putVars  == <<outstandingPuts, putsToAck, unackedListensCount>>
linkVars == <<connectionState, scheduledRetry, interrupted>>
serverVars == <<serverDb, fetching, listening, strays>>
bounds == <<drops, denials, ends>>
vars == <<writeIdCounter, treeVars, listenVars, putVars, linkVars, toServer,
          toClient, serverVars, abandoned, bounds>>

Put(id)               == [kind |-> "put", id |-> id]
Listen(spec)          == [kind |-> "listen", spec |-> spec]
PutReply(id)          == [kind |-> "putReply", id |-> id, ok |-> id \notin Refused]
ListenReply(spec, ok) == [kind |-> "listenReply", spec |-> spec, ok |-> ok]
ListenRevoked         == [kind |-> "listenRevoked"]
Data(entries)         == [kind |-> "data", entries |-> entries]
Child(id)             == [kind |-> "child", id |-> id]

\* What the observers see, once it is complete: the server's data under the
\* writes of this device.  Every change of it raises a value event.
eventCache == serverCache \cup allWrites

-----------------------------------------------------------------------------
(* The client process, when it starts: deferredInit opens the connection *)

ProcessInit ==
  /\ allWrites = {} /\ serverCache = {}
  /\ complete = FALSE /\ listenSpecs = 0 /\ listens = 0
  /\ outstandingPuts = {} /\ putsToAck = <<>> /\ unackedListensCount = 0
  /\ connectionState = "Disconnected"
  /\ scheduledRetry = TRUE /\ interrupted = FALSE
  /\ toServer = <<>> /\ toClient = <<>>
  /\ fetching = 0 /\ listening = FALSE

Init ==
  /\ ProcessInit
  /\ writeIdCounter = 0
  /\ serverDb = {} /\ strays = {} /\ abandoned = {}
  /\ drops = 0 /\ denials = 0 /\ ends = 0

canSendWrites == connectionState = "Connected"

\* Fault injection: the put is only kept when it cannot be sent.
outstandingUnlessSent(id) == IF canSendWrites THEN outstandingPuts ELSE outstandingPuts \cup {id}

outstandingAfter(id) == outstandingPuts \cup {id}

\* FRepo.set: the write is shown, then handed to the connection, which sends
\* it now or in restoreState.
set ==
  /\ writeIdCounter < MaxWrites
  /\ LET id == writeIdCounter + 1
     IN  /\ writeIdCounter' = id
         /\ allWrites' = allWrites \cup {id}
         /\ outstandingPuts' = outstandingAfter(id)
         /\ toServer' = IF canSendWrites THEN Append(toServer, Put(id)) ELSE toServer
  /\ UNCHANGED <<complete, serverCache, listenVars, putsToAck, unackedListensCount,
                 linkVars, toClient, serverVars, abandoned, bounds>>

\* addEventRegistration of the leaderboard's query, which starts a listen: when
\* the screen is first opened, or opened again after the listen was cancelled.
observe ==
  /\ listens = 0
  /\ listenSpecs' = listenSpecs + 1
  /\ listens' = listenSpecs'
  /\ IF canSendWrites
     THEN /\ toServer' = Append(toServer, Listen(listens'))
          /\ unackedListensCount' = unackedListensCount + 1
     ELSE UNCHANGED <<toServer, unackedListensCount>>
  /\ UNCHANGED <<writeIdCounter, treeVars, outstandingPuts, putsToAck, linkVars,
                 toClient, serverVars, abandoned, bounds>>

-----------------------------------------------------------------------------
(* The connection *)

\* The retry helper's delay is over: a token is asked for, none is needed.
retry ==
  /\ scheduledRetry /\ connectionState = "Disconnected"
  /\ scheduledRetry' = FALSE
  /\ connectionState' = "GettingToken"
  /\ UNCHANGED <<writeIdCounter, treeVars, listenVars, putVars, interrupted, toServer,
                 toClient, serverVars, abandoned, bounds>>

\* The token provider answers: the connection is opened, or after an error a
\* new attempt is scheduled.
tokenFetched ==
  /\ connectionState = "GettingToken"
  /\ \/ connectionState' = "Connecting" /\ UNCHANGED <<scheduledRetry, drops>>
     \/ /\ drops < MaxDrops
        /\ connectionState' = "Disconnected" /\ scheduledRetry' = TRUE /\ drops' = drops + 1
  /\ UNCHANGED <<writeIdCounter, treeVars, listenVars, putVars, interrupted, toServer,
                 toClient, serverVars, abandoned, denials, ends>>

\* restoreState: every listen, then every put with no answer in the order of
\* their indices, whether it was sent before or not.
restored ==
  (IF listens # 0 THEN <<Listen(listens)>> ELSE <<>>) \o
  [n \in 1..Cardinality(outstandingPuts) |-> Put(SetToSortSeq(outstandingPuts, <)[n])]

\* The connection is up; without a token the state is restored right away.
onReady ==
  /\ connectionState = "Connecting"
  /\ connectionState' = "Connected"
  /\ toServer' = restored
  /\ unackedListensCount' = unackedListensCount + (IF listens # 0 THEN 1 ELSE 0)
  /\ UNCHANGED <<writeIdCounter, treeVars, listenVars, outstandingPuts, putsToAck,
                 scheduledRetry, interrupted, toClient, serverVars, abandoned, bounds>>

\* The messages of a connection are over with it: answers find no callback in
\* requestCBHash.  Puts on their way may still arrive.
Forget ==
  /\ toServer' = <<>> /\ toClient' = <<>>
  /\ fetching' = 0 /\ listening' = FALSE
  /\ strays' = strays \cup {m.id : m \in {m \in Range(toServer) : m.kind = "put"}}

unackedAfterDisconnect == 0

\* onDisconnect: the callbacks of requests are dropped and a new connection is
\* scheduled, unless the server forbade it (onKill).
onDisconnect(killed) ==
  /\ connectionState \in {"Connecting", "Connected"} /\ drops < MaxDrops
  /\ killed => connectionState = "Connected"
  /\ connectionState' = "Disconnected"
  /\ interrupted' = killed
  /\ scheduledRetry' = ~killed
  /\ unackedListensCount' = unackedAfterDisconnect
  /\ Forget
  /\ drops' = drops + 1
  /\ UNCHANGED <<writeIdCounter, treeVars, listenVars, outstandingPuts, putsToAck,
                 serverDb, abandoned, denials, ends>>

\* The process ends and the program is started again: nothing was persisted.
restart ==
  /\ ends < MaxEnds
  /\ abandoned' = abandoned \cup outstandingPuts
  /\ ends' = ends + 1
  /\ allWrites' = {} /\ serverCache' = {} /\ complete' = FALSE
  /\ listenSpecs' = 0 /\ listens' = 0
  /\ outstandingPuts' = {} /\ putsToAck' = <<>> /\ unackedListensCount' = 0
  /\ connectionState' = "Disconnected" /\ scheduledRetry' = TRUE /\ interrupted' = FALSE
  /\ Forget
  /\ UNCHANGED <<writeIdCounter, serverDb, drops, denials>>

-----------------------------------------------------------------------------
(* Messages of the server, in their order *)

received(kind) == toClient # <<>> /\ Head(toClient).kind = kind

\* FSyncTree.applyServerOverwriteAtPath: all entries, or one of them.
onDataUpdate ==
  /\ \/ /\ received("data")
        /\ serverCache' = Head(toClient).entries
        /\ complete' = TRUE
     \/ /\ received("child")
        /\ serverCache' = serverCache \cup {Head(toClient).id}
        /\ UNCHANGED complete
  /\ toClient' = Tail(toClient)
  /\ UNCHANGED <<writeIdCounter, allWrites, listenVars, putVars, linkVars, toServer,
                 serverVars, abandoned, bounds>>

\* Fault injection: an answer is passed on whatever is not answered yet.
holdBackNever == FALSE

\* An answer to a put is held back while a listen is not answered: the data of
\* the listen may not be here yet.
holdBack == unackedListensCount # 0

\* The answer to a put.  A put that has its answer already is gone from
\* outstandingPuts, and a second answer is ignored.  ackWrite takes the write
\* out of the tree; after a refusal that undoes it.
onPutReply ==
  /\ received("putReply")
  /\ toClient' = Tail(toClient)
  /\ LET id == Head(toClient).id
     IN  IF id \notin outstandingPuts
         THEN UNCHANGED <<outstandingPuts, putsToAck, allWrites>>
         ELSE /\ outstandingPuts' = outstandingPuts \ {id}
              /\ IF holdBack
                 THEN putsToAck' = Append(putsToAck, id) /\ UNCHANGED allWrites
                 ELSE allWrites' = allWrites \ {id} /\ UNCHANGED putsToAck
  /\ UNCHANGED <<writeIdCounter, listenVars, serverCache, complete, unackedListensCount,
                 linkVars, toServer, serverVars, abandoned, bounds>>

\* Fault injection: the connection keeps the listen and sends it again.
cancelledInTreeOnly == complete' = FALSE /\ serverCache' = {} /\ UNCHANGED listens

\* The listen is forgotten, and removeEventRegistration with a cancelError
\* removes the view of the query and its observers.  The program gave them no
\* cancel block and is not told.
cancelled == listens' = 0 /\ complete' = FALSE /\ serverCache' = {}

\* The answer to a listen.  If the listen is still the one of its query, its
\* data is complete or it is cancelled.  In any case, with the last answer of
\* this kind ackPuts passes on the answers held back.
onListenReply ==
  /\ received("listenReply")
  /\ toClient' = Tail(toClient)
  /\ LET m == Head(toClient)
     IN  \/ /\ m.spec = listens /\ m.ok
            /\ complete' = TRUE
            /\ UNCHANGED <<listens, serverCache>>
         \/ m.spec = listens /\ ~m.ok /\ cancelled
         \/ m.spec # listens /\ UNCHANGED <<listens, complete, serverCache>>
  /\ unackedListensCount' = unackedListensCount - 1
  /\ IF unackedListensCount' = 0
     THEN allWrites' = allWrites \ Range(putsToAck) /\ putsToAck' = <<>>
     ELSE UNCHANGED <<allWrites, putsToAck>>
  /\ UNCHANGED <<writeIdCounter, listenSpecs, outstandingPuts, linkVars, toServer,
                 serverVars, abandoned, bounds>>

\* The server cancels the listen, answered or not.
onListenRevoked ==
  /\ received("listenRevoked")
  /\ toClient' = Tail(toClient)
  /\ cancelled
  /\ UNCHANGED <<writeIdCounter, allWrites, listenSpecs, putVars, linkVars, toServer,
                 serverVars, abandoned, bounds>>

-----------------------------------------------------------------------------
(* The server *)

\* What storing an entry sends the listener before anything else.
told(id) == IF listening /\ id \notin serverDb THEN <<Child(id)>> ELSE <<>>

serverReceives ==
  /\ toServer # <<>>
  /\ toServer' = Tail(toServer)
  /\ LET m == Head(toServer)
     IN  \/ /\ m.kind = "listen"
            /\ fetching' = m.spec
            /\ UNCHANGED <<serverDb, toClient>>
         \/ /\ m.kind = "put"
            /\ serverDb' = serverDb \cup ({m.id} \ Refused)
            /\ toClient' = toClient \o (IF m.id \in Refused THEN <<>> ELSE told(m.id))
                                    \o <<PutReply(m.id)>>
            /\ UNCHANGED fetching
  /\ UNCHANGED <<writeIdCounter, treeVars, listenVars, putVars, linkVars, listening,
                 strays, abandoned, bounds>>

\* The data of a listen, then its answer, and changes follow; or a refusal.
serverFetched ==
  /\ fetching # 0
  /\ fetching' = 0
  /\ \/ /\ listening' = TRUE
        /\ toClient' = toClient \o <<Data(serverDb), ListenReply(fetching, TRUE)>>
        /\ UNCHANGED denials
     \/ /\ denials < MaxDenials
        /\ denials' = denials + 1
        /\ toClient' = Append(toClient, ListenReply(fetching, FALSE))
        /\ UNCHANGED listening
  /\ UNCHANGED <<writeIdCounter, treeVars, listenVars, putVars, linkVars, toServer,
                 serverDb, strays, abandoned, drops, ends>>

\* The rules of the database change: the listen is revoked, and refused if it
\* was not answered yet.
serverRevokes ==
  /\ denials < MaxDenials /\ (listening \/ fetching # 0)
  /\ denials' = denials + 1
  /\ fetching' = 0 /\ listening' = FALSE
  /\ toClient' = toClient \o <<ListenRevoked>>
                         \o (IF fetching # 0 THEN <<ListenReply(fetching, FALSE)>> ELSE <<>>)
  /\ UNCHANGED <<writeIdCounter, treeVars, listenVars, putVars, linkVars, toServer,
                 serverDb, strays, abandoned, drops, ends>>

\* An entry arrives from elsewhere: from another device, or late.
serverStores(id) ==
  /\ id \in strays \/ id \in Others \ serverDb
  /\ strays' = strays \ {id}
  /\ serverDb' = serverDb \cup ({id} \ Refused)
  /\ toClient' = toClient \o (IF id \in Refused THEN <<>> ELSE told(id))
  /\ UNCHANGED <<writeIdCounter, treeVars, listenVars, putVars, linkVars, toServer,
                 fetching, listening, abandoned, bounds>>

-----------------------------------------------------------------------------

Client == retry \/ tokenFetched \/ onReady \/ onDataUpdate \/ onPutReply \/ onListenReply
          \/ onListenRevoked

Server == serverReceives \/ serverFetched

Next ==
  \/ set
  \/ observe
  \/ Client
  \/ \E killed \in BOOLEAN : onDisconnect(killed)
  \/ restart
  \/ Server
  \/ serverRevokes
  \/ \E id \in Own \cup Others : serverStores(id)

\* The queue serves its blocks and timers and the server answers; nobody has
\* to write or observe, no late message has to arrive and no listen has to be
\* revoked.
Fairness == WF_vars(Client) /\ WF_vars(Server)

Spec == Init /\ [][Next]_vars /\ Fairness

-----------------------------------------------------------------------------
(* Properties *)

\* The write tree and the connection agree through every loss and retry: a
\* write is shown as pending exactly as long as its put has no answer or its
\* answer is held back, so none stays on the leaderboard for ever or is undone
\* twice (FWriteTree.removeWriteId asserts that the write is there).
PendingWritesAreAnswerable ==
  /\ allWrites = outstandingPuts \cup Range(putsToAck)
  /\ outstandingPuts \cap Range(putsToAck) = {}

\* setValue without a completion block: an entry stored on a device that is
\* offline is not lost with a connection, however often it breaks, only with
\* the process.
NothingForgotten ==
  \A id \in 1..writeIdCounter :
    id \in serverDb \cup Refused \cup outstandingPuts \cup abandoned

\* While the process runs no entry leaves the leaderboard once a value event
\* showed it, unless the server refused it: not between the answer to a write
\* and the data that has it, nor across a lost connection.  A listen that is
\* cancelled ends the value events, and the next begins anew.  The leaderboard
\* screen depends on it, since its table is drawn from a list that must not
\* get shorter than the rows last shown.
EntriesStay ==
  [][(complete /\ complete') => (eventCache \ eventCache') \subseteq Refused]_vars

\* Unless the server forbids to reconnect, all puts are answered in the end,
\* their writes are no longer pending, and the leaderboard shows what the
\* server has.  After the server refused or revoked the listen that is so only
\* once the leaderboard is opened again: until then no value event comes, the
\* program is not told, and answers held back for a listen that was revoked
\* before it was answered wait, if the connection is lost, for the next one.
ClientCatchesUp ==
  <>[](\/ interrupted
       \/ /\ outstandingPuts = {}
          /\ IF listens # 0
             THEN allWrites = {} /\ complete /\ eventCache = serverDb
             ELSE listenSpecs = 0 => allWrites = {})

=============================================================================
