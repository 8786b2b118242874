------------------------------ MODULE Snapshot ------------------------------
(***************************************************************************)
(* Point-in-time snapshots (include/kvllay/snapshot.hpp, SnapshotManager)   *)
(* and the counter of unsaved changes that decides whether the server saves *)
(* again when it stops (store.hpp, dirty_; server.hpp, Server::stop).       *)
(*                                                                         *)
(* Data abstraction.  A state of the store is the set of the writes it      *)
(* contains; get_all_entries() holds every shard lock, so a dump is one     *)
(* such set.  A file holds such a set, or Broken: what the CRC rejects.     *)
(***************************************************************************)
EXTENDS Integers, FiniteSets

CONSTANTS
  Clients,      \* worker threads executing commands
  AutoSave,     \* save_interval_secs_ # 0: the auto-save thread is started
  SaveChanges,  \* save_changes_
  Faults,       \* failures of the environment that may occur, see FaultKinds
  MaxWrites,    \* bound: write commands
  MaxSnapshots, \* bound: SAVE, BGSAVE and automatic saves
  MaxLives      \* bound: starts of the server

FaultKinds ==
  { "write",    \* fopen, fwrite or rename fails: perform_save() returns false
    "flush",    \* fflush or fclose fails: perform_save() does not look at it
    "sync",     \* fdatasync fails: perform_save() does not look at it either
    "power" }   \* a crash is a power loss

ASSUME AutoSaveAssumption == AutoSave \in BOOLEAN
ASSUME FaultsAssumption   == Faults \subseteq FaultKinds
ASSUME ClientsAssumption  == {"thread", "stop"} \cap Clients = {}
ASSUME SnapshotBounds     ==
  SaveChanges \in Nat /\ MaxWrites \in Nat /\ MaxSnapshots \in Nat /\ MaxLives \in Nat

(* Who runs perform_save: a client in SAVE, save_thread_, Server::stop. *)
Savers == Clients \cup {"thread", "stop"}

Write  == 1 .. MaxWrites
Broken == {0}
NoOne  == "none"

(* A file: what load() finds in it, whether that is on the disk, and, as a  *)
(* history, whether a failure that nobody looked at came with its save.     *)
Copy == [held : (SUBSET Write) \cup {Broken}, synced : BOOLEAN, unseen : BOOLEAN]

NoFile == [held |-> {}, synced |-> TRUE, unseen |-> FALSE]

VARIABLES
  store,     \* the writes the store contains
  issued,    \* how many writes there have been
  dirty,     \* dirty_
  file,      \* the file at snapshot_path_
  previous,  \* the file the last rename replaced
  mutex,     \* the holder of save_thread_mutex_, or NoOne
  saving,    \* saving_in_progress_
  shutdown,  \* save_shutdown_
  job,       \* perform_save of each saver
  entries,   \* what each saver saves
  cpc,       \* what each worker thread is doing
  apc,       \* auto_save_thread_
  spc,       \* Server::start, Server::stop; "down" and "dead": no process
  saved,     \* history: writes covered by a SAVE that was answered with OK, less
             \* those that a power loss or the start from a broken file has lost
  forgotten, \* history: writes that were not in the file when dirty_ was set to 0
  snapshots, \* saves begun so far
  lives      \* starts so far

data   == <<store, issued, dirty>>
disk   == <<file, previous>>
history == <<saved, forgotten>>
locks  == <<mutex, saving, shutdown>>
work   == <<job, entries>>
bounds == <<snapshots, lives>>
snapshotVars == <<data, disk, locks, work, cpc, apc, spc, history, bounds>>

Idle == [p \in Savers |-> "none"]

SnapshotInit ==
  /\ store = {} /\ issued = 0 /\ dirty = 0
  /\ file = NoFile /\ previous = NoFile
  /\ mutex = NoOne /\ saving = FALSE /\ shutdown = FALSE
  /\ job = Idle /\ entries = [p \in Savers |-> {}]
  /\ cpc = [c \in Clients |-> "idle"]
  /\ apc = "exit" /\ spc = "down"
  /\ saved = {} /\ forgotten = {} /\ snapshots = 0 /\ lives = 0

-----------------------------------------------------------------------------
(* load(): a file whose checksum is wrong is refused and the store is empty. *)
Loaded == IF file.held = Broken THEN {} ELSE file.held

StartServer ==
  /\ spc \in {"down", "dead"} /\ lives < MaxLives
  /\ lives' = lives + 1
  /\ store' = Loaded
  /\ saved' = saved \cap Loaded
  /\ apc' = IF AutoSave THEN "wait" ELSE "exit"
  /\ spc' = "up"
  /\ UNCHANGED <<issued, dirty, disk, locks, work, cpc, forgotten, snapshots>>

(* Most commands count their change under the shard lock. *)
WriteCounted(c) ==
  /\ spc = "up" /\ cpc[c] = "idle" /\ issued < MaxWrites
  /\ issued' = issued + 1
  /\ store' = store \cup {issued + 1}
  /\ dirty' = dirty + 1
  /\ UNCHANGED <<disk, locks, work, cpc, apc, spc, history, bounds>>

(* SET and SETEX count it after its release. *)
WriteSet(c) ==
  /\ spc = "up" /\ cpc[c] = "idle" /\ issued < MaxWrites
  /\ issued' = issued + 1
  /\ store' = store \cup {issued + 1}
  /\ cpc' = [cpc EXCEPT ![c] = "count"]
  /\ UNCHANGED <<dirty, disk, locks, work, apc, spc, history, bounds>>

CountSet(c) ==
  /\ cpc[c] = "count"
  /\ dirty' = dirty + 1
  /\ cpc' = [cpc EXCEPT ![c] = "idle"]
  /\ UNCHANGED <<store, issued, disk, locks, work, apc, spc, history, bounds>>

-----------------------------------------------------------------------------
(* perform_save(), first part: header, entries and checksum go to the       *)
(* temporary file by fwrite, through a buffer of 64 KiB.  A write that      *)
(* fails here is noticed.                                                   *)
SaveWrite(p) ==
  /\ job[p] = "write"
  /\ \/ job' = [job EXCEPT ![p] = "rename"]
     \/ "write" \in Faults /\ job' = [job EXCEPT ![p] = "failed"]
  /\ UNCHANGED <<data, disk, locks, entries, cpc, apc, spc, history, bounds>>

(* Mutant: the temporary file is renamed without fdatasync. *)
WrittenUnsynced(p, flushed, synced) ==
  [held |-> IF flushed THEN entries[p] ELSE Broken, synced |-> FALSE,
   unseen |-> ~(flushed /\ synced)]

(* What the renamed file is if flush and sync went well or failed: without  *)
(* its last bytes it has no checksum.                                       *)
Written(p, flushed, synced) ==
  [held |-> IF flushed THEN entries[p] ELSE Broken, synced |-> synced,
   unseen |-> ~(flushed /\ synced)]

(* Second part: fflush, fdatasync and fclose, whose results are ignored,    *)
(* then the rename over the snapshot.                                       *)
SaveRename(p) ==
  /\ job[p] = "rename"
  /\ \/ \E flushed, synced \in BOOLEAN :
          /\ flushed \/ "flush" \in Faults
          /\ synced \/ "sync" \in Faults
          /\ file' = Written(p, flushed, synced) /\ previous' = file
          /\ job' = [job EXCEPT ![p] = "done"]
     \/ /\ "write" \in Faults /\ job' = [job EXCEPT ![p] = "failed"]
        /\ UNCHANGED disk
  /\ UNCHANGED <<data, locks, entries, cpc, apc, spc, history, bounds>>

Returned(p) == job[p] \in {"done", "failed"}

(* Mutant: SAVE relies on its mutex alone. *)
SaveUnclaimed(c) ==
  /\ spc = "up" /\ cpc[c] = "idle" /\ snapshots < MaxSnapshots
  /\ mutex = NoOne
  /\ mutex' = c /\ saving' = TRUE
  /\ entries' = [entries EXCEPT ![c] = store]
  /\ job' = [job EXCEPT ![c] = "write"]
  /\ cpc' = [cpc EXCEPT ![c] = "save"]
  /\ snapshots' = snapshots + 1
  /\ UNCHANGED <<data, disk, shutdown, apc, spc, history, lives>>

(* SAVE, save_sync(): the mutex is held to the end of the save.  With a     *)
(* save in progress it returns an error and changes nothing.                *)
SaveBegin(c) ==
  /\ spc = "up" /\ cpc[c] = "idle" /\ snapshots < MaxSnapshots
  /\ mutex = NoOne /\ ~saving
  /\ mutex' = c /\ saving' = TRUE
  /\ entries' = [entries EXCEPT ![c] = store]
  /\ job' = [job EXCEPT ![c] = "write"]
  /\ cpc' = [cpc EXCEPT ![c] = "save"]
  /\ snapshots' = snapshots + 1
  /\ UNCHANGED <<data, disk, shutdown, apc, spc, history, lives>>

(* Mutant: a failed save is taken for a success. *)
SaveEndUnchecked(c) ==
  /\ cpc[c] = "save" /\ Returned(c)
  /\ mutex' = NoOne /\ saving' = FALSE
  /\ cpc' = [cpc EXCEPT ![c] = "reset"]
  /\ job' = [job EXCEPT ![c] = "none"]
  /\ UNCHANGED <<data, disk, shutdown, entries, apc, spc, history, bounds>>

(* Mutant: an early return leaves the mutex locked. *)
SaveEndLocked(c) ==
  /\ cpc[c] = "save" /\ Returned(c)
  /\ saving' = FALSE
  /\ cpc' = [cpc EXCEPT ![c] = IF job[c] = "done" THEN "reset" ELSE "idle"]
  /\ job' = [job EXCEPT ![c] = "none"]
  /\ UNCHANGED <<data, disk, mutex, shutdown, entries, apc, spc, history, bounds>>

SaveEnd(c) ==
  /\ cpc[c] = "save" /\ Returned(c)
  /\ mutex' = NoOne /\ saving' = FALSE
  /\ cpc' = [cpc EXCEPT ![c] = IF job[c] = "done" THEN "reset" ELSE "idle"]
  /\ job' = [job EXCEPT ![c] = "none"]
  /\ UNCHANGED <<data, disk, shutdown, entries, apc, spc, history, bounds>>

(* reset_dirty(): from here on nobody knows of what is not in the file. *)
ResetDirty ==
  /\ dirty' = 0
  /\ forgotten' = forgotten \cup (store \ file.held)

(* handle_save_sv: the counter is reset when the save has returned. *)
SaveReply(c) ==
  /\ cpc[c] = "reset"
  /\ ResetDirty
  /\ saved' = saved \cup entries[c]
  /\ cpc' = [cpc EXCEPT ![c] = "idle"]
  /\ UNCHANGED <<store, issued, disk, locks, work, apc, spc, bounds>>

(* save_async(): under the mutex, held only to start save_thread_ and to    *)
(* join the one before it, which has cleared saving_in_progress_ already.   *)
SpawnSave ==
  /\ mutex = NoOne /\ ~saving /\ ~shutdown /\ snapshots < MaxSnapshots
  /\ job["thread"] = "none"
  /\ saving' = TRUE /\ snapshots' = snapshots + 1
  /\ entries' = [entries EXCEPT !["thread"] = store]
  /\ job' = [job EXCEPT !["thread"] = "write"]

(* BGSAVE never resets the counter. *)
BgSave(c) ==
  /\ spc = "up" /\ cpc[c] = "idle"
  /\ SpawnSave
  /\ UNCHANGED <<data, disk, mutex, shutdown, cpc, apc, spc, history, lives>>

(* Mutant: save_thread_ ends without clearing saving_in_progress_. *)
ThreadForgets ==
  /\ Returned("thread")
  /\ job' = [job EXCEPT !["thread"] = "none"]
  /\ UNCHANGED <<data, disk, locks, entries, cpc, apc, spc, history, bounds>>

ThreadEnd ==
  /\ Returned("thread")
  /\ saving' = FALSE
  /\ job' = [job EXCEPT !["thread"] = "none"]
  /\ UNCHANGED <<data, disk, mutex, shutdown, entries, cpc, apc, spc, history, bounds>>

(* The auto-save thread: when the interval has passed and there are enough  *)
(* changes it starts a save, and resets the counter once it has started.    *)
AutoSpawn ==
  /\ apc = "wait" /\ dirty >= SaveChanges
  /\ SpawnSave
  /\ apc' = "reset"
  /\ UNCHANGED <<data, disk, mutex, shutdown, cpc, spc, history, lives>>

AutoReset ==
  /\ apc = "reset"
  /\ ResetDirty /\ apc' = "wait"
  /\ UNCHANGED <<store, issued, disk, locks, work, cpc, spc, saved, bounds>>

-----------------------------------------------------------------------------
(* Server::stop has joined the worker threads; stop_auto_save().  The       *)
(* auto-save thread leaves its loop where it tests auto_save_running_.      *)
StopBegin ==
  /\ spc = "up" /\ \A c \in Clients : cpc[c] = "idle"
  /\ spc' = "join_auto"
  /\ UNCHANGED <<data, disk, locks, work, cpc, apc, history, bounds>>

AutoExit ==
  /\ spc = "join_auto" /\ apc = "wait"
  /\ apc' = "exit"
  /\ UNCHANGED <<data, disk, locks, work, cpc, spc, history, bounds>>

(* stop(): no save starts from here on. *)
StopShutdown ==
  /\ spc = "join_auto" /\ apc = "exit" /\ mutex = NoOne
  /\ shutdown' = TRUE /\ spc' = "join_thread"
  /\ UNCHANGED <<data, disk, mutex, saving, work, cpc, apc, history, bounds>>

(* Mutant: the last save waits for as many changes as an automatic one. *)
StopSaveEnough ==
  /\ spc = "join_thread" /\ job["thread"] = "none" /\ mutex = NoOne
  /\ IF dirty > SaveChanges /\ ~saving
       THEN /\ mutex' = "stop" /\ saving' = TRUE
            /\ entries' = [entries EXCEPT !["stop"] = store]
            /\ job' = [job EXCEPT !["stop"] = "write"]
            /\ spc' = "save"
       ELSE spc' = "exit" /\ UNCHANGED <<mutex, saving, work>>
  /\ UNCHANGED <<data, disk, shutdown, cpc, apc, history, bounds>>

(* save_thread_ is joined; then, only if something changed, save_sync(),    *)
(* which needs the flag that the joined thread has cleared.                 *)
StopSave ==
  /\ spc = "join_thread" /\ job["thread"] = "none" /\ mutex = NoOne
  /\ IF dirty > 0 /\ ~saving
       THEN /\ mutex' = "stop" /\ saving' = TRUE
            /\ entries' = [entries EXCEPT !["stop"] = store]
            /\ job' = [job EXCEPT !["stop"] = "write"]
            /\ spc' = "save"
       ELSE /\ spc' = IF dirty > 0 THEN "unsaved" ELSE "exit"
            /\ UNCHANGED <<mutex, saving, work>>
  /\ UNCHANGED <<data, disk, shutdown, cpc, apc, history, bounds>>

(* The result of the last save is not looked at. *)
StopSaved ==
  /\ spc = "save" /\ Returned("stop")
  /\ mutex' = NoOne /\ saving' = FALSE
  /\ spc' = IF job["stop"] = "done" THEN "exit" ELSE "unsaved"
  /\ job' = [job EXCEPT !["stop"] = "none"]
  /\ UNCHANGED <<data, disk, shutdown, entries, cpc, apc, history, bounds>>

ProcessGone ==
  /\ store' = {} /\ dirty' = 0
  /\ mutex' = NoOne /\ saving' = FALSE /\ shutdown' = FALSE
  /\ job' = Idle /\ entries' = [p \in Savers |-> {}]
  /\ cpc' = [c \in Clients |-> "idle"]
  /\ apc' = "exit"
  /\ UNCHANGED <<issued, forgotten, bounds>>

StopEnd ==
  /\ spc \in {"exit", "unsaved"}
  /\ ProcessGone /\ spc' = "down"
  /\ UNCHANGED <<disk, saved>>

(* What the disk has of a file when the power is lost. *)
OnDisk(f) ==
  {[f EXCEPT !.synced = TRUE]}
    \cup IF f.synced THEN {} ELSE {[f EXCEPT !.held = Broken, !.synced = TRUE]}

(* The process dies at any moment.  A power loss may also undo the last     *)
(* rename, whose directory is not synced, and spoil a file that is not on   *)
(* the disk; what is undone is no longer counted in `saved'.                *)
Crash ==
  /\ spc \notin {"down", "dead"} /\ lives < MaxLives
  /\ \/ UNCHANGED disk /\ UNCHANGED saved
     \/ "power" \in Faults /\ file' \in OnDisk(file) /\ previous' = file' /\ UNCHANGED saved
     \/ /\ "power" \in Faults /\ file' \in OnDisk(previous) /\ previous' = file'
        /\ saved' = saved \cap previous.held
  /\ ProcessGone /\ spc' = "dead"

-----------------------------------------------------------------------------
SnapshotNext ==
  \/ \E c \in Clients :
       \/ WriteCounted(c) \/ WriteSet(c) \/ CountSet(c)
       \/ SaveBegin(c) \/ SaveEnd(c) \/ SaveReply(c) \/ BgSave(c)
  \/ \E p \in Savers : SaveWrite(p) \/ SaveRename(p)
  \/ ThreadEnd \/ AutoSpawn \/ AutoReset \/ AutoExit
  \/ StartServer \/ StopBegin \/ StopShutdown \/ StopSave \/ StopSaved \/ StopEnd \/ Crash

SnapshotSpec == SnapshotInit /\ [][SnapshotNext]_snapshotVars

(* Every thread that has begun something runs on; commands, crashes and     *)
(* restarts need not happen.                                                *)
Fairness ==
  /\ \A c \in Clients : WF_snapshotVars(CountSet(c) \/ SaveEnd(c) \/ SaveReply(c))
  /\ \A p \in Savers : WF_snapshotVars(SaveWrite(p) \/ SaveRename(p))
  /\ WF_snapshotVars(ThreadEnd)
  /\ WF_snapshotVars(AutoReset \/ AutoExit)
  /\ WF_snapshotVars(StopShutdown \/ StopSave \/ StopSaved \/ StopEnd)

FairSpec == SnapshotSpec /\ Fairness

-----------------------------------------------------------------------------
(* Types. *)
SnapshotTypeOK ==
  /\ store \subseteq Write /\ issued \in 0 .. MaxWrites /\ dirty \in Nat
  /\ file \in Copy /\ previous \in Copy
  /\ mutex \in Clients \cup {"stop", NoOne} /\ saving \in BOOLEAN /\ shutdown \in BOOLEAN
  /\ job \in [Savers -> {"none", "write", "rename", "done", "failed"}]
  /\ entries \in [Savers -> SUBSET Write]
  /\ cpc \in [Clients -> {"idle", "count", "save", "reset"}]
  /\ apc \in {"wait", "reset", "exit"}
  /\ spc \in {"up", "join_auto", "join_thread", "save", "exit", "unsaved", "down", "dead"}
  /\ saved \subseteq Write /\ forgotten \subseteq Write
  /\ snapshots \in 0 .. MaxSnapshots /\ lives \in 0 .. MaxLives

(* Two saves would write one temporary file, named by process and second,   *)
(* and the older of the two could be renamed last.                          *)
OneSaver ==
  \A p, q \in Savers : job[p] # "none" /\ job[q] # "none" => p = q

(* Whatever happens to process and machine in whichever step of a save, the *)
(* file is a snapshot the checksum accepts, an old one or a new one and     *)
(* never a part of one, unless a flush or a sync that nobody looked at      *)
(* failed in the save of this very file.                                    *)
FileIntact == file.held = Broken => file.unseen

(* What a SAVE has confirmed is in the file whenever it can be loaded: later *)
(* saves, of other threads and of later lives, only replace it by more, and *)
(* a save after one that left a broken file brings all of it back.          *)
SavedStays == file.held # Broken => saved \subseteq file.held

(* docs/en.md:233: SAVE is a "synchronous snapshot creation (blocks until   *)
(* saved to disk)".  What it has answered with OK is in the file.           *)
OkMeansSaved == saved \subseteq file.held

(* A clean stop leaves no counted change behind: what the file lacks was    *)
(* forgotten at a reset of the counter.                                     *)
StopSavesCounted ==
  spc = "exit" /\ file.held # Broken => store \subseteq file.held \cup forgotten

(* When the server stops, unless its last save failed, the file holds       *)
(* every write.                                                             *)
ShutdownSaves == spc = "exit" => store = file.held

(* Every save ends, one way or the other, and lets the next one begin.      *)
SaveEnds == saving ~> ~saving

(* stop() ends: its joins wait for threads that finish.                     *)
StopTerminates == (spc = "join_auto") ~> (spc \in {"down", "dead"})
=============================================================================
