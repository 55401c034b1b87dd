------------------------------- MODULE LevelDB -------------------------------
(***************************************************************************)
(* LevelDB 1.20 as db_impl.cc and version_set.cc run it: writers that      *)
(* queue and are logged in groups, a memtable and one being flushed, one   *)
(* background thread that flushes and compacts, readers with snapshots and *)
(* pinned versions, and recovery from MANIFEST and logs after a crash.     *)
(*                                                                         *)
(* An action is what one thread does from the moment it holds the mutex    *)
(* until it gives it up, or one effect it has on the disk meanwhile.       *)
(* Tables and the MANIFEST are synced before the code goes on, so they     *)
(* survive a crash; a log keeps what was synced and any number of the      *)
(* records after that, all of them if only the process died.               *)
(*                                                                         *)
(* Left out: manual compactions, reused logs, and failing I/O other than   *)
(* the sync of a log.                                                      *)
(***************************************************************************)
EXTENDS Versions, Sequences, SequencesExt

CONSTANTS
  Calls,        \* the writes callers make, as [key, del, sync]
  WriteBuffer,  \* entries that fill a memtable (write_buffer_size)
  CompactionTrigger, StopWritesTrigger,  \* kL0_..., in files of level 0
  MaxWrites,    \* bound: writes, if nothing crashes and no version is held
  MaxDisturbed, \* bound: writes otherwise, over all lives of the process
  MaxWaiting,   \* bound: writers in the queue
  MaxSnapshots, \* bound: snapshots held at a time
  MaxPinned,    \* bound: versions held by readers at a time
  MaxCrashes    \* bound

ASSUME LevelDBAssumption ==
  /\ \A c \in Calls : /\ c.key \in Nat
                      /\ c.del \in BOOLEAN /\ c.sync \in BOOLEAN
  /\ {WriteBuffer, CompactionTrigger, StopWritesTrigger} \subseteq Nat \ {0}
  /\ CompactionTrigger <= StopWritesTrigger
  /\ {MaxWrites, MaxDisturbed, MaxWaiting, MaxSnapshots, MaxPinned, MaxCrashes}
       \subseteq Nat

VARIABLES
  up,            \* "up", "down", or "opening": in DB::Open
  \* disk
  tables,        \* the table files
  logs,          \* number of a log -> [recs, synced]: its records, and how
                 \* many of them a crash of the machine cannot take
  manifest,      \* [files, log, next, last]: what MANIFEST amounts to
  \* memory
  mem, imm,      \* mem_ and imm_ (empty when there is none)
  current,       \* current_, a version
  logfile,       \* logfile_number_
  logNumber,     \* log_number_
  nextFile,      \* next_file_number_
  lastSequence,  \* last_sequence_
  pendingOutputs,
  bgError,       \* bg_error_ is set
  writers,       \* writers_, a sequence of calls
  logged,        \* how many of them have their group in the log
  snapshots,     \* the sequence numbers of the snapshots held
  pinned,        \* the versions readers hold
  \* the background thread
  scheduled,     \* bg_compaction_scheduled_
  flush,         \* CompactMemTable under way, or the files Open adds
  compaction,    \* BackgroundCompaction under way
  \* bounds and history
  writes, crashes,
  committed,     \* the entries the database has promised to show
  synced,        \* those written with sync and answered
  split          \* the keys an output file was ever ended in the middle of

diskVars == <<tables, logs, manifest>>
writeVars == <<mem, imm, logfile, lastSequence, bgError, writers, logged,
               writes>>
fileVars == <<current, logNumber, nextFile, pendingOutputs>>
readVars == <<snapshots, pinned>>
threadVars == <<scheduled, flush, compaction>>
historyVars == <<committed, synced, split>>
vars == <<up, diskVars, writeVars, fileVars, readVars, threadVars, crashes,
          historyVars>>

EmptyVersion == [l \in Levels |-> {}]
NoFlush == [pc |-> "none", files |-> {}, level |-> 0]
NoCompaction == [pc |-> "none", level |-> 0, in |-> <<{}, {}>>,
                 todo |-> {}, outs |-> {}, move |-> FALSE]

EmptyLog == [recs |-> <<>>, synced |-> 0]

FilesOf(v) == UNION {v[l] : l \in Levels}
Entries(recs) == UNION ToSet(recs)
nums(files) == {f.num : f \in files}

\* A new database: an empty log, and a MANIFEST that names it.
Init ==
  /\ up = "up"
  /\ tables = {} /\ logs = [n \in {3} |-> EmptyLog]
  /\ manifest = [files |-> EmptyVersion, log |-> 3, next |-> 4, last |-> 0]
  /\ mem = {} /\ imm = {} /\ current = EmptyVersion
  /\ logfile = 3 /\ logNumber = 3 /\ nextFile = 4 /\ lastSequence = 0
  /\ pendingOutputs = {} /\ bgError = FALSE
  /\ writers = <<>> /\ logged = 0 /\ snapshots = {} /\ pinned = {}
  /\ scheduled = FALSE /\ flush = NoFlush /\ compaction = NoCompaction
  /\ writes = 0 /\ crashes = 0
  /\ committed = {} /\ synced = {} /\ split = {}

(***************************************************************************)
(* Writers                                                                 *)
(***************************************************************************)

\* DBImpl::Write: the writer queues up.
Write ==
  /\ up = "up" /\ Len(writers) < MaxWaiting
  /\ writes < IF crashes = 0 /\ snapshots = {} /\ pinned = {}
              THEN MaxWrites ELSE MaxDisturbed
  /\ \E c \in Calls : writers' = Append(writers, c)
  /\ writes' = writes + 1
  /\ UNCHANGED <<up, diskVars, mem, imm, logfile, lastSequence, bgError,
                 logged, fileVars, readVars, threadVars, crashes, historyVars>>

\* The first writer is at work and nothing of its group is in the log.
Leading == up = "up" /\ writers # <<>> /\ logged = 0

\* MakeRoomForWrite hands an earlier error to the first writer.
RefuseWrite ==
  /\ Leading /\ bgError
  /\ writers' = Tail(writers)
  /\ UNCHANGED <<up, diskVars, mem, imm, logfile, lastSequence, bgError,
                 logged, writes, fileVars, readVars, threadVars, crashes,
                 historyVars>>

\* NewWritableFile for log n, which truncates what has that name.
withLog(n) ==
  [m \in DOMAIN logs \cup {n} |-> IF m = n THEN EmptyLog ELSE logs[m]]

full == Cardinality(mem) >= WriteBuffer

\* MakeRoomForWrite switches to a new memtable and a new log.  The old log
\* is closed, not synced.
SwitchMemTable ==
  /\ Leading /\ ~bgError
  /\ full /\ imm = {} /\ Cardinality(current[0]) < StopWritesTrigger
  /\ logs' = withLog(nextFile)
  /\ logfile' = nextFile /\ nextFile' = nextFile + 1
  /\ imm' = mem /\ mem' = {}
  /\ scheduled' = TRUE
  /\ UNCHANGED <<up, tables, manifest, lastSequence, bgError, writers, logged,
                 writes, current, logNumber, pendingOutputs, readVars, flush,
                 compaction, crashes, historyVars>>

\* Fault injection: a writer that asks for a sync joins any group.
groupSizesAnySync == 1 .. Len(writers)

\* The writers BuildBatchGroup may put in one group: a group that is not
\* synced takes no writer that asks for it, and a group may get too big.
groupSizes == {n \in 1 .. Len(writers) :
                 \A i \in 2 .. n : writers[i].sync => writers[1].sync}

\* SetSequence: the entries of a group are numbered on from the last.
entriesOf(n) == {[key |-> writers[i].key, seq |-> lastSequence + i,
                  del |-> writers[i].del] : i \in 1 .. n}

\* BuildBatchGroup, and AddRecord with the mutex released.
LogGroup ==
  /\ Leading /\ ~bgError /\ ~full
  /\ \E n \in groupSizes :
       /\ logged' = n
       /\ logs' = [logs EXCEPT ![logfile].recs = Append(@, entriesOf(n))]
  /\ UNCHANGED <<up, tables, manifest, mem, imm, logfile, lastSequence,
                 bgError, writers, writes, fileVars, readVars, threadVars,
                 crashes, historyVars>>

logSynced == logs[logfile].synced = Len(logs[logfile].recs)

\* logfile_->Sync() for a leader that asks for it.
SyncLog ==
  /\ logged > 0 /\ Head(writers).sync /\ ~logSynced
  /\ logs' = [logs EXCEPT ![logfile].synced = Len(logs[logfile].recs)]
  /\ UNCHANGED <<up, tables, manifest, writeVars, fileVars, readVars,
                 threadVars, crashes, historyVars>>

answerGroup ==
  /\ lastSequence' = lastSequence + logged
  /\ writers' = SubSeq(writers, logged + 1, Len(writers))
  /\ logged' = 0

\* The sync fails: the group is not applied and no later write succeeds.
FailSync ==
  /\ logged > 0 /\ Head(writers).sync /\ ~logSynced
  /\ bgError' = TRUE
  /\ answerGroup
  /\ UNCHANGED <<up, diskVars, mem, imm, logfile, writes, fileVars, readVars,
                 threadVars, crashes, historyVars>>

\* The group goes into the memtable, becomes visible and is answered.
FinishGroup ==
  /\ logged > 0 /\ (Head(writers).sync => logSynced)
  /\ mem' = mem \cup entriesOf(logged)
  /\ committed' = committed \cup entriesOf(logged)
  /\ synced' = synced \cup {e \in entriesOf(logged) :
                              writers[e.seq - lastSequence].sync}
  /\ answerGroup
  /\ UNCHANGED <<up, diskVars, imm, logfile, bgError, writes, fileVars,
                 readVars, threadVars, crashes, split>>

(***************************************************************************)
(* Files                                                                   *)
(***************************************************************************)

\* A table is written; an old file of that number is truncated.
written(files) == {t \in tables : t.num \notin nums(files)} \cup files

\* Fault injection: only the current version and pending outputs are live.
DeleteAllButCurrent(v, log, pending) ==
  IF bgError
  THEN UNCHANGED <<tables, logs>>
  ELSE /\ tables' = {t \in tables : t.num \in pending \cup nums(FilesOf(v))}
       /\ logs' = [n \in {m \in DOMAIN logs : m >= log} |-> logs[n]]

\* DeleteObsoleteFiles, with v the current version and log its log number.
DeleteObsoleteFiles(v, log, pending) ==
  LET live == FilesOf(v) \cup UNION {FilesOf(p) : p \in pinned}
  IN  IF bgError
      THEN UNCHANGED <<tables, logs>>
      ELSE /\ tables' = {t \in tables : t.num \in pending \cup nums(live)}
           /\ logs' = [n \in {m \in DOMAIN logs : m >= log} |-> logs[n]]

\* Fault injection: only a memtable makes for more work.
moreFlushes(v) == ~bgError /\ imm' # {}

\* MaybeScheduleCompaction at the end of BackgroundCall and of Open: there is
\* a memtable to flush, or NeedsCompaction.
moreWork(v) ==
  ~bgError /\ (imm' # {} \/ Cardinality(v[0]) >= CompactionTrigger)

\* LogAndApply, up to the sync of MANIFEST.
LogEdit(v, log) ==
  manifest' = [files |-> v, log |-> log, next |-> nextFile,
               last |-> lastSequence]

(***************************************************************************)
(* CompactMemTable                                                         *)
(***************************************************************************)

\* The background thread is free for work, or in the loop of a compaction,
\* which looks for a memtable to flush before each entry.
CanStartFlush ==
  /\ up = "up" /\ flush.pc = "none"
  /\ \/ compaction.pc = "none" /\ scheduled /\ ~bgError
     \/ compaction.pc = "merge" /\ (compaction.todo # {} \/ compaction.outs = {})

\* WriteLevel0Table takes a number and starts to build the table.
StartFlush ==
  /\ CanStartFlush /\ imm # {}
  /\ LET f == [num |-> nextFile, entries |-> imm]
     IN  /\ flush' = [pc |-> "build", files |-> {f}, level |-> 0]
         /\ tables' = written({f})
         /\ pendingOutputs' = pendingOutputs \cup {f.num}
  /\ nextFile' = nextFile + 1
  /\ UNCHANGED <<up, logs, manifest, writeVars, current, logNumber, readVars,
                 scheduled, compaction, crashes, historyVars>>

\* The table is complete; its level is chosen and the edit logged, with
\* the number of the log in use, since the logs before it are in tables.
LogFlush ==
  /\ flush.pc = "build"
  /\ pendingOutputs' = pendingOutputs \ nums(flush.files)
  /\ \E l \in PickLevelForMemTableOutput(current, minKey(flush.files),
                                         maxKey(flush.files)) :
       /\ flush' = [flush EXCEPT !.pc = "install", !.level = l]
       /\ LogEdit([current EXCEPT ![l] = @ \cup flush.files], logfile)
  /\ UNCHANGED <<up, tables, logs, writeVars, current, logNumber, nextFile,
                 readVars, scheduled, compaction, crashes, historyVars>>

\* The new version is installed and imm_ dropped.
InstallFlush ==
  /\ flush.pc = "install"
  /\ current' = manifest.files /\ logNumber' = manifest.log
  /\ imm' = {} /\ flush' = NoFlush
  /\ DeleteObsoleteFiles(current', logNumber', pendingOutputs)
  /\ scheduled' = IF compaction.pc = "none" THEN moreWork(current')
                                            ELSE scheduled
  /\ UNCHANGED <<up, manifest, mem, logfile, lastSequence, bgError, writers,
                 logged, writes, nextFile, pendingOutputs, readVars,
                 compaction, crashes, historyVars>>

(***************************************************************************)
(* Compactions                                                             *)
(***************************************************************************)

smallestSnapshot == IF snapshots = {} THEN lastSequence ELSE Min(snapshots)

CanCompact == /\ up = "up" /\ flush.pc = "none" /\ compaction.pc = "none"
              /\ imm = {} /\ ~bgError

\* A file that is alone may be moved; else the inputs are merged and the
\* outputs are fixed from here on: they depend on inputs that cannot change.
StartCompaction(level, f) ==
  /\ CanCompact
  /\ scheduled' = TRUE
  /\ \E in \in CompactionInputs(current, level, f) :
       LET all == in[1] \cup in[2]
           alone == Cardinality(in[1]) = 1 /\ in[2] = {}
           kept == Kept(current, level, UNION {g.entries : g \in all},
                        smallestSnapshot)
       IN  \/ /\ alone
              /\ compaction' = [NoCompaction EXCEPT
                   !.pc = "merge", !.level = level, !.in = in,
                   !.outs = in[1], !.move = TRUE]
              /\ UNCHANGED split
           \/ /\ ~alone \/ Grandparents(current, level, all) # {}
              /\ \E outs \in Outputs(kept) :
                   /\ compaction' = [NoCompaction EXCEPT
                        !.pc = "merge", !.level = level, !.in = in,
                        !.todo = outs]
                   /\ split' = split \cup
                        {k \in {e.key : e \in kept} :
                           Cardinality({o \in outs :
                                          \E e \in o : e.key = k}) > 1}
  /\ UNCHANGED <<up, diskVars, writeVars, fileVars, readVars, flush, crashes,
                 committed, synced>>

CompactableLevels == 0 .. NumLevels - 2

\* A level has grown too big, level 0 to begin with.
SizeCompaction ==
  /\ scheduled /\ Cardinality(current[0]) >= CompactionTrigger
  /\ \E level \in CompactableLevels : \E f \in current[level] :
       StartCompaction(level, f)

\* Another level has, or reads have looked into a file in vain too often.
OtherCompaction ==
  \E level \in CompactableLevels : \E f \in current[level] :
    StartCompaction(level, f)

\* The next output file: OpenCompactionOutputFile to
\* FinishCompactionOutputFile.
WriteOutput ==
  /\ compaction.pc = "merge" /\ flush.pc = "none" /\ compaction.todo # {}
  /\ LET o == CHOOSE o \in compaction.todo :
                \A p \in compaction.todo \ {o} :
                  \A a \in o, b \in p : Before(a, b)
         f == [num |-> nextFile, entries |-> o]
     IN  /\ tables' = written({f})
         /\ pendingOutputs' = pendingOutputs \cup {f.num}
         /\ compaction' = [compaction EXCEPT !.todo = @ \ {o},
                                             !.outs = @ \cup {f}]
  /\ nextFile' = nextFile + 1
  /\ UNCHANGED <<up, logs, manifest, writeVars, current, logNumber, readVars,
                 scheduled, flush, crashes, historyVars>>

\* InstallCompactionResults on the version that is current by now.
compacted ==
  LET l == compaction.level
  IN  [current EXCEPT ![l] = @ \ compaction.in[1],
                      ![l + 1] = (@ \ compaction.in[2]) \cup compaction.outs]

LogCompaction ==
  /\ compaction.pc = "merge" /\ flush.pc = "none" /\ compaction.todo = {}
  /\ compaction' = [compaction EXCEPT !.pc = "install"]
  /\ LogEdit(compacted, logNumber)
  /\ UNCHANGED <<up, tables, logs, writeVars, fileVars, readVars, scheduled,
                 flush, crashes, historyVars>>

\* The new version is installed; CleanupCompaction and, unless a file was
\* only moved, DeleteObsoleteFiles.
InstallCompaction ==
  /\ compaction.pc = "install"
  /\ current' = manifest.files
  /\ compaction' = NoCompaction
  /\ pendingOutputs' = pendingOutputs \ nums(compaction.outs)
  /\ IF compaction.move
     THEN UNCHANGED <<tables, logs>>
     ELSE DeleteObsoleteFiles(current', logNumber, pendingOutputs')
  /\ UNCHANGED imm /\ scheduled' = moreWork(current')
  /\ UNCHANGED <<up, manifest, mem, logfile, lastSequence, bgError, writers,
                 logged, writes, logNumber, nextFile, readVars, flush,
                 crashes, historyVars>>

(***************************************************************************)
(* Readers                                                                 *)
(***************************************************************************)

GetSnapshot ==
  /\ up = "up" /\ Cardinality(snapshots) < MaxSnapshots /\ lastSequence > 0
  /\ writes <= MaxDisturbed
  /\ snapshots' = snapshots \cup {lastSequence}
  /\ UNCHANGED <<up, diskVars, writeVars, fileVars, pinned, threadVars,
                 crashes, historyVars>>

ReleaseSnapshot ==
  /\ \E s \in snapshots : snapshots' = snapshots \ {s}
  /\ UNCHANGED <<up, diskVars, writeVars, fileVars, pinned, threadVars,
                 crashes, historyVars>>

\* Get and NewIterator hold the current version while they read from it.
Pin ==
  /\ up = "up" /\ Cardinality(pinned) < MaxPinned /\ FilesOf(current) # {}
  /\ writes <= MaxDisturbed /\ crashes = 0
  /\ pinned' = pinned \cup {current}
  /\ UNCHANGED <<up, diskVars, writeVars, fileVars, snapshots, threadVars,
                 crashes, historyVars>>

Unpin ==
  /\ \E v \in pinned : pinned' = pinned \ {v}
  /\ UNCHANGED <<up, diskVars, writeVars, fileVars, snapshots, threadVars,
                 crashes, historyVars>>

\* What a reader at sequence number s gets for key k: DBImpl::Get.
Get(k, s) ==
  LET inMem == Newest(mem, k, s)
      inImm == Newest(imm, k, s)
  IN  IF inMem # {} THEN inMem
      ELSE IF inImm # {} THEN inImm
      ELSE VersionGet(current, k, s)

(***************************************************************************)
(* Crash and recovery                                                      *)
(***************************************************************************)

\* The process or the machine stops.  A log the MANIFEST still counts on
\* loses records that were not synced.
Crash ==
  /\ up # "down" /\ crashes < MaxCrashes /\ writes <= MaxDisturbed
  /\ crashes' = crashes + 1
  /\ \E keep \in [DOMAIN logs -> 0 .. MaxWrites] :
       /\ \A n \in DOMAIN logs : keep[n] \in logs[n].synced .. Len(logs[n].recs)
       /\ LET kept == [n \in DOMAIN logs |->
                         [recs   |-> SubSeq(logs[n].recs, 1, keep[n]),
                          synced |-> keep[n]]]
              needed == {n \in DOMAIN logs : n >= manifest.log}
              had == UNION {Entries(logs[n].recs) : n \in needed}
              has == UNION {Entries(kept[n].recs) : n \in needed}
          IN  /\ logs' = kept
              /\ committed' = (committed \ had) \cup has
  /\ up' = "down"
  /\ mem' = {} /\ imm' = {} /\ current' = EmptyVersion
  /\ logfile' = 0 /\ logNumber' = 0 /\ nextFile' = 0 /\ lastSequence' = 0
  /\ pendingOutputs' = {} /\ bgError' = FALSE
  /\ writers' = <<>> /\ logged' = 0 /\ snapshots' = {} /\ pinned' = {}
  /\ scheduled' = FALSE /\ flush' = NoFlush /\ compaction' = NoCompaction
  /\ UNCHANGED <<tables, manifest, writes, synced, split>>

\* RecoverLogFile: a log with records becomes a table of level 0.
replayLog(acc, n) ==
  LET E == Entries(logs[n].recs)
      after == IF E = {} THEN acc.next ELSE acc.next + 1
  IN  [next  |-> Max({after, n + 1}),
       files |-> IF E = {} THEN acc.files
                 ELSE acc.files \cup {[num |-> acc.next, entries |-> E]},
       last  |-> Max({acc.last} \cup {e.seq : e \in E})]

\* Recover: the logs the MANIFEST still counts on, by number, up to log n.
replayUpTo[n \in 0 .. Max(DOMAIN logs)] ==
  IF n = 0
  THEN [next |-> manifest.next + 1, files |-> {}, last |-> manifest.last]
  ELSE IF n \in DOMAIN logs /\ n >= manifest.log
       THEN replayLog(replayUpTo[n - 1], n)
       ELSE replayUpTo[n - 1]

replay == replayUpTo[Max(DOMAIN logs)]

\* DB::Open up to LogAndApply: the tables are written, a log is created.
Recover ==
  /\ up = "down" /\ up' = "opening"
  /\ LET r == replay
     IN  /\ flush' = [pc |-> "open", files |-> r.files, level |-> 0]
         /\ tables' = written(r.files)
         /\ lastSequence' = r.last
         /\ logfile' = r.next /\ nextFile' = r.next + 1
         /\ logs' = withLog(r.next)
  /\ current' = manifest.files /\ logNumber' = manifest.log
  /\ UNCHANGED <<manifest, mem, imm, bgError, writers, logged, writes,
                 pendingOutputs, readVars, scheduled, compaction, crashes,
                 historyVars>>

\* LogAndApply makes the recovered state the durable one.
FinishOpen ==
  /\ up = "opening" /\ up' = "up"
  /\ LogEdit([current EXCEPT ![0] = @ \cup flush.files], logfile)
  /\ current' = manifest'.files /\ logNumber' = logfile
  /\ DeleteObsoleteFiles(current', logNumber', pendingOutputs)
  /\ flush' = NoFlush
  /\ UNCHANGED imm /\ scheduled' = moreWork(current')
  /\ UNCHANGED <<mem, logfile, lastSequence, bgError, writers, logged, writes,
                 nextFile, pendingOutputs, readVars, compaction, crashes,
                 historyVars>>

(***************************************************************************)
(* Specification                                                           *)
(***************************************************************************)

Leader == RefuseWrite \/ SwitchMemTable \/ LogGroup \/ SyncLog \/ FailSync
          \/ FinishGroup

Background == StartFlush \/ LogFlush \/ InstallFlush \/ SizeCompaction
              \/ WriteOutput \/ LogCompaction \/ InstallCompaction

Reader == GetSnapshot \/ ReleaseSnapshot \/ Pin \/ Unpin

Next == Write \/ Leader \/ Background \/ OtherCompaction \/ Reader \/ Crash
        \/ Recover \/ FinishOpen

\* The threads are scheduled and a caller opens the database again after a
\* crash.  Nothing else need ever happen.
Spec == /\ Init /\ [][Next]_vars
        /\ WF_vars(Leader) /\ WF_vars(Background)
        /\ WF_vars(Recover \/ FinishOpen)

(***************************************************************************)
(* Properties                                                              *)
(***************************************************************************)

valueOf(E) == {e.seq : e \in {x \in E : ~x.del}}

\* Get answers with what was written last, at every snapshot held and now,
\* whatever the background thread has flushed, merged, moved or dropped
\* and whatever a crash has left, unless a compaction has ended an output
\* file between two entries of the key (version_set.cc:332,
\* db_impl.cc:887).
ReadsAreRight ==
  up = "up" =>
    \A k \in {c.key : c \in Calls} \ split :
      \A s \in snapshots \cup {lastSequence} :
        valueOf(Get(k, s)) = valueOf(Newest(committed, k, s))

\* No write that was answered with sync is ever lost, however its log is
\* cut, whoever was the leader of its group and however far the flush of
\* its memtable has come (db_impl.cc:1224).
SyncedWritesSurvive == synced \subseteq committed

\* Each file of the current version, of a version a reader holds, of a
\* compaction under way or of the MANIFEST is there with its own content:
\* DeleteObsoleteFiles spares it and no other file gets its number
\* (db_impl.cc:218).
FilesInUseExist ==
  /\ FilesOf(manifest.files) \subseteq tables
  /\ FilesOf(current) \cup compaction.outs \subseteq tables
  /\ UNION {FilesOf(v) : v \in pinned} \subseteq tables

\* Two files of a level above 0 never overlap, even when a memtable is
\* flushed past level 0 in the middle of a compaction; an assertion of
\* MaybeAddFile (version_set.cc:763).
LevelsAreDisjoint ==
  \A l \in Levels \ {0} : \A f, g \in current[l] :
    f # g => Before(largest(f), smallest(g)) \/ Before(largest(g), smallest(f))

\* Every write is answered in the end unless the process dies first: a
\* writer that waits for a flush or a compaction does not wait for ever
\* (db_impl.cc:1346).
WritesAreAnswered == <>[](writers = <<>>)

=============================================================================
