-------------------------------- MODULE Aof --------------------------------
(***************************************************************************)
(* The append-only file of kvllay (include/kvllay/aof.hpp, AofManager) with *)
(* the threads that use it: worker threads that apply a write command to   *)
(* the store and append it to the log, the background writer with its two  *)
(* buffers, the rewrite thread of BGREWRITEAOF, and the thread that starts *)
(* and stops the server.                                                   *)
(*                                                                         *)
(* Data abstraction.  Commands do not commute, so the state of the store   *)
(* is the sequence of commands that produced it, and a compacted dump of   *)
(* the store stands for that same sequence.  A step is what one critical   *)
(* section does: file_mutex_ and buffer_mutex_ are released at its end.    *)
(***************************************************************************)
EXTENDS Data

CONSTANTS
  Clients,      \* worker threads executing commands
  Policy,       \* fsync_policy_: "always", "everysec" or "no"
  Faults,       \* failures of the environment that may occur, see FaultKinds
  Torn,         \* a record of which only a part reached the file
  MaxCmds,      \* bound: write commands per client
  MaxRewrites,  \* bound: BGREWRITEAOF calls
  MaxLives      \* bound: starts of the server

FaultKinds ==
  { "open",     \* fopen of the log fails in start()
    "tmp",      \* the temporary file of a rewrite cannot be opened or written
    "rename",   \* rename() of the temporary file fails, which nobody looks at
    "reopen",   \* fopen of the log fails after that
    "full",     \* fflush or fclose of the temporary file fails: nobody looks either
    "power",    \* a crash may lose what was written but not synced
    "torn" }    \* a crash may leave a partial record at the end of the file

Cmd == Clients \X (1 .. MaxCmds)

Record == Cmd \cup {Torn}

ASSUME PolicyAssumption == Policy \in {"always", "everysec", "no"}
ASSUME FaultsAssumption == Faults \subseteq FaultKinds
ASSUME TornAssumption   == Torn \notin Cmd
ASSUME BoundsAssumption == MaxCmds \in Nat /\ MaxRewrites \in Nat /\ MaxLives \in Nat

VARIABLES
  store,      \* the commands applied to the store, in order
  active,     \* active_buffer_
  flushing,   \* flushing_buffer_
  file,       \* the records of the file at aof_path_, as the kernel has them
  synced,     \* length of the prefix of file that fdatasync covers
  open,       \* file_handle_ # nullptr
  running,    \* running_
  rewriting,  \* rewrite_in_progress_
  snap,       \* entries of the rewrite, then the content of its temporary file
  cpc,        \* what each worker thread is doing
  issued,     \* how many write commands each worker thread has begun
  acked,      \* history: commands whose client got its reply
  wpc,        \* background_writer_loop
  rpc,        \* rewrite_thread_
  spc,        \* Server::start / AofManager::stop; "down" and "dead": no process
  rewrites,   \* BGREWRITEAOF calls so far
  lives,      \* starts so far
  cut         \* history: a full disk has cut off the file of a rewrite, unnoticed

memory == <<store, active, flushing>>
disk   == <<file, synced>>
flags  == <<open, running, rewriting, snap>>
client == <<cpc, issued, acked>>
bounds == <<rewrites, lives, cut>>
vars   == <<memory, disk, flags, client, wpc, rpc, spc, bounds>>

-----------------------------------------------------------------------------
Elems(s) == { s[i] : i \in DOMAIN s }

Current(c) == <<c, issued[c]>>

(* load(): the parser stops at a partial record and drops what follows it. *)
Loadable(f) ==
  LET torn == { i \in DOMAIN f : f[i] = Torn }
  IN  IF torn = {} THEN f
      ELSE SubSeq(f, 1, (CHOOSE i \in torn : \A j \in torn : i <= j) - 1)

(* Every record in the order in which the writer puts it into the file. *)
Log == file \o flushing \o active

Init ==
  /\ store = <<>> /\ active = <<>> /\ flushing = <<>>
  /\ file = <<>> /\ synced = 0
  /\ open = FALSE /\ running = FALSE /\ rewriting = FALSE /\ snap = <<>>
  /\ cpc = [c \in Clients |-> "idle"]
  /\ issued = [c \in Clients |-> 0]
  /\ acked = {}
  /\ wpc = "exit" /\ rpc = "none" /\ spc = "down"
  /\ rewrites = 0 /\ lives = 0 /\ cut = FALSE

-----------------------------------------------------------------------------
(* Server::start: load() replays the file, start() opens it for appending  *)
(* and spawns the writer.  When the file cannot be opened the server still *)
(* serves its clients, with running_ false and no writer.                  *)
Start ==
  /\ spc \in {"down", "dead"} /\ lives < MaxLives
  /\ lives' = lives + 1
  /\ store' = Loadable(file)
  /\ \E opened \in BOOLEAN :
       /\ opened \/ "open" \in Faults
       /\ open' = opened /\ running' = opened
       /\ wpc' = IF opened THEN "loop" ELSE "exit"
  /\ spc' = "up"
  /\ UNCHANGED <<active, flushing, disk, rewriting, snap, client, rpc, rewrites, cut>>

(* A handler changes the store under the shard lock of its key. *)
Apply(c) ==
  /\ spc = "up" /\ cpc[c] = "idle" /\ issued[c] < MaxCmds
  /\ issued' = [issued EXCEPT ![c] = @ + 1]
  /\ store' = Append(store, <<c, issued[c] + 1>>)
  /\ cpc' = [cpc EXCEPT ![c] = "applied"]
  /\ UNCHANGED <<active, flushing, disk, flags, acked, wpc, rpc, spc, bounds>>

(* append(): after the shard lock is released the command goes to the      *)
(* active buffer.  Under "always" the caller then flushes; otherwise it    *)
(* wakes the writer and replies.                                           *)
AppendCmd(c) ==
  /\ cpc[c] = "applied"
  /\ active' = Append(active, Current(c))
  /\ IF Policy = "always"
       THEN cpc' = [cpc EXCEPT ![c] = "flush"] /\ UNCHANGED acked
       ELSE cpc' = [cpc EXCEPT ![c] = "idle"] /\ acked' = acked \cup {Current(c)}
  /\ UNCHANGED <<store, flushing, disk, flags, issued, wpc, rpc, spc, bounds>>

(* Mutant: the flushing buffer is left for the writer that owns it. *)
FlushActiveOnly ==
  IF open
    THEN /\ file' = file \o active /\ active' = <<>>
         /\ synced' = IF Policy = "no" THEN synced ELSE Len(file')
         /\ UNCHANGED flushing
    ELSE UNCHANGED <<active, flushing, disk>>

(* Mutant: both buffers are emptied, one is written. *)
FlushForgets ==
  IF open
    THEN /\ file' = file \o active
         /\ active' = <<>> /\ flushing' = <<>>
         /\ synced' = IF Policy = "no" THEN synced ELSE Len(file')
    ELSE UNCHANGED <<active, flushing, disk>>

(* Mutant: the flushing buffer is written and left as it is. *)
FlushTwice ==
  IF open
    THEN /\ file' = file \o active \o flushing
         /\ active' = <<>>
         /\ synced' = IF Policy = "no" THEN synced ELSE Len(file')
         /\ UNCHANGED flushing
    ELSE UNCHANGED <<active, flushing, disk>>

(* flush_sync(): under both mutexes, the active buffer is written first    *)
(* and the flushing buffer second.                                         *)
FlushSync ==
  IF open
    THEN /\ file' = file \o active \o flushing
         /\ active' = <<>> /\ flushing' = <<>>
         /\ synced' = IF Policy = "no" THEN synced ELSE Len(file')
    ELSE UNCHANGED <<active, flushing, disk>>

FlushCmd(c) ==
  /\ cpc[c] = "flush"
  /\ FlushSync
  /\ cpc' = [cpc EXCEPT ![c] = "idle"]
  /\ acked' = acked \cup {Current(c)}
  /\ UNCHANGED <<store, flags, issued, wpc, rpc, spc, bounds>>

-----------------------------------------------------------------------------
(* background_writer_loop: while (running_) { swap; write; maybe sync }. *)
WriterLoop ==
  /\ wpc = "loop"
  /\ wpc' = IF running THEN "wait" ELSE "exit"
  /\ UNCHANGED <<memory, disk, flags, client, rpc, spc, bounds>>

(* Mutant: the writer takes a copy of the active buffer and does not empty it. *)
WriterCopy ==
  /\ wpc = "wait"
  /\ flushing' = active
  /\ wpc' = "write"
  /\ UNCHANGED <<store, active, disk, flags, client, rpc, spc, bounds>>

(* wait_for returns on a notification or after 50 ms; buffer_mutex_ only. *)
WriterSwap ==
  /\ wpc = "wait"
  /\ IF active # <<>>
       THEN flushing' = active /\ active' = flushing
       ELSE UNCHANGED <<active, flushing>>
  /\ wpc' = "write"
  /\ UNCHANGED <<store, disk, flags, client, rpc, spc, bounds>>

(* Mutant: the handle is tested after the buffer was dropped. *)
WriterDrop(second) ==
  /\ wpc = "write"
  /\ flushing' = <<>> /\ wpc' = "loop"
  /\ UNCHANGED <<store, active, disk, flags, client, rpc, spc, bounds>>

(* Mutant: nothing is ever synced by the writer. *)
WriterNoSync(second) ==
  /\ wpc = "write"
  /\ IF open
       THEN file' = file \o flushing /\ flushing' = <<>>
       ELSE UNCHANGED <<file, flushing>>
  /\ wpc' = "loop"
  /\ UNCHANGED <<store, active, synced, flags, client, rpc, spc, bounds>>

(* Under file_mutex_; `second' says whether a second has passed since the *)
(* last sync of the "everysec" policy.                                    *)
WriterWrite(second) ==
  /\ wpc = "write"
  /\ IF open
       THEN file' = file \o flushing /\ flushing' = <<>>
       ELSE UNCHANGED <<file, flushing>>
  /\ synced' = IF open /\ second /\ Policy = "everysec" THEN Len(file') ELSE synced
  /\ wpc' = "loop"
  /\ UNCHANGED <<store, active, flags, client, rpc, spc, bounds>>

-----------------------------------------------------------------------------
(* Mutant: the flag is tested, as is_rewriting() does, but not taken. *)
RewriteUnclaimed(c) ==
  /\ spc = "up" /\ cpc[c] = "idle" /\ ~rewriting /\ rewrites < MaxRewrites
  /\ snap' = store
  /\ cpc' = [cpc EXCEPT ![c] = "rewrite"]
  /\ rewrites' = rewrites + 1
  /\ UNCHANGED <<memory, disk, open, running, rewriting, issued, acked, wpc, rpc, spc, lives, cut>>

(* BGREWRITEAOF, rewrite_async(): the winner of the compare-and-swap takes *)
(* its picture of the store; a loser changes nothing.                      *)
RewriteBegin(c) ==
  /\ spc = "up" /\ cpc[c] = "idle" /\ ~rewriting /\ rewrites < MaxRewrites
  /\ rewriting' = TRUE /\ snap' = store
  /\ cpc' = [cpc EXCEPT ![c] = "rewrite"]
  /\ rewrites' = rewrites + 1
  /\ UNCHANGED <<memory, disk, open, running, issued, acked, wpc, rpc, spc, lives, cut>>

(* Under rewrite_mutex_: refused when the manager is not running; otherwise *)
(* the previous thread is joined and a new one spawned.                     *)
RewriteSpawn(c) ==
  /\ cpc[c] = "rewrite" /\ rpc = "none"
  /\ IF running
       THEN rpc' = "dump" /\ UNCHANGED rewriting
       ELSE rewriting' = FALSE /\ UNCHANGED rpc
  /\ cpc' = [cpc EXCEPT ![c] = "idle"]
  /\ UNCHANGED <<memory, disk, open, running, snap, issued, acked, wpc, spc, bounds>>

(* perform_rewrite(), first part: the entries go to a temporary file. *)
RewriteDump ==
  /\ rpc = "dump"
  /\ \/ rpc' = "install"
     \/ "tmp" \in Faults /\ rpc' = "clear"
  /\ UNCHANGED <<memory, disk, flags, client, wpc, spc, bounds>>

(* Mutant: the commands buffered during the rewrite replace its entries. *)
RewriteBuffersOnly ==
  /\ rpc = "install"
  /\ file' = flushing \o active
  /\ flushing' = <<>> /\ active' = <<>> /\ synced' = 0
  /\ open' = TRUE /\ rpc' = "clear"
  /\ UNCHANGED <<store, running, rewriting, snap, client, wpc, spc, bounds>>

(* Second part, under both mutexes: the buffers follow the entries, the     *)
(* temporary file (never synced) replaces the log and the log is reopened.  *)
(* A full disk cuts it off anywhere, also within a record; when the rename  *)
(* fails the old log is reopened, without the buffers.                      *)
RewriteInstall ==
  /\ rpc = "install"
  /\ \/ file' = snap \o flushing \o active /\ synced' = 0 /\ UNCHANGED cut
     \/ /\ "full" \in Faults
        /\ \E n \in 0 .. Len(snap \o flushing \o active) - 1, tail \in {<<>>, <<Torn>>} :
             file' = SubSeq(snap \o flushing \o active, 1, n) \o tail
        /\ synced' = 0 /\ cut' = TRUE
     \/ "rename" \in Faults /\ UNCHANGED <<disk, cut>>
  /\ flushing' = <<>> /\ active' = <<>>
  /\ open' \in IF "reopen" \in Faults THEN BOOLEAN ELSE {TRUE}
  /\ rpc' = "clear"
  /\ UNCHANGED <<store, running, rewriting, snap, client, wpc, spc, rewrites, lives>>

(* Mutant: the thread ends without clearing rewrite_in_progress_. *)
RewriteForgets ==
  /\ rpc = "clear"
  /\ rpc' = "none" /\ snap' = <<>>
  /\ UNCHANGED <<memory, disk, open, running, rewriting, client, wpc, spc, bounds>>

(* rewrite_in_progress_.store(false), the last thing the thread does. *)
RewriteFinish ==
  /\ rpc = "clear"
  /\ rewriting' = FALSE /\ rpc' = "none" /\ snap' = <<>>
  /\ UNCHANGED <<memory, disk, open, running, client, wpc, spc, bounds>>

-----------------------------------------------------------------------------
(* What is left when the process is gone. *)
ProcessGone ==
  /\ store' = <<>> /\ active' = <<>> /\ flushing' = <<>>
  /\ open' = FALSE /\ running' = FALSE /\ rewriting' = FALSE /\ snap' = <<>>
  /\ cpc' = [c \in Clients |-> "idle"]
  /\ wpc' = "exit" /\ rpc' = "none"
  /\ UNCHANGED <<issued, acked, bounds>>

(* Mutant: stop() leaves running_ set, so the writer never leaves its loop. *)
StopUnannounced ==
  /\ spc = "up" /\ \A c \in Clients : cpc[c] = "idle"
  /\ spc' = "join_writer"
  /\ UNCHANGED <<memory, disk, flags, client, wpc, rpc, bounds>>

(* Server::stop has joined the worker threads when it calls stop(). *)
StopBegin ==
  /\ spc = "up" /\ \A c \in Clients : cpc[c] = "idle"
  /\ IF running
       THEN /\ running' = FALSE /\ spc' = "join_writer"
            /\ UNCHANGED <<memory, disk, open, rewriting, snap, client, wpc, rpc, bounds>>
       ELSE ProcessGone /\ spc' = "down" /\ UNCHANGED disk

StopJoinWriter ==
  /\ spc = "join_writer" /\ wpc = "exit"
  /\ spc' = "join_rewriter"
  /\ UNCHANGED <<memory, disk, flags, client, wpc, rpc, bounds>>

StopJoinRewriter ==
  /\ spc = "join_rewriter" /\ rpc = "none"
  /\ spc' = "flush"
  /\ UNCHANGED <<memory, disk, flags, client, wpc, rpc, bounds>>

(* Mutant: the log is closed without a last flush. *)
StopNoFlush ==
  /\ spc = "flush" /\ spc' = "close"
  /\ UNCHANGED <<memory, disk, flags, client, wpc, rpc, bounds>>

(* The flush_sync() of stop(). *)
StopFlush ==
  /\ spc = "flush"
  /\ FlushSync
  /\ spc' = "close"
  /\ UNCHANGED <<store, flags, client, wpc, rpc, bounds>>

(* sync_file_locked() and fclose, whatever the policy; then the process ends. *)
StopClose ==
  /\ spc = "close"
  /\ synced' = IF open THEN Len(file) ELSE synced
  /\ ProcessGone
  /\ spc' = "down"
  /\ UNCHANGED file

(* The process dies at any moment.  The file keeps every record handed to   *)
(* the kernel, or after a power loss any prefix that covers the synced part; *)
(* the first record not kept may have left a part of itself.                 *)
Crash ==
  /\ spc \notin {"down", "dead"} /\ lives < MaxLives
  /\ \E n \in synced .. Len(file), tail \in {<<>>, <<Torn>>} :
       /\ n = Len(file) \/ "power" \in Faults
       /\ tail = <<>> \/ ("torn" \in Faults /\ Len(Log) > n)
       /\ file' = SubSeq(file, 1, n) \o tail
       /\ synced' = IF n = Len(file) THEN synced ELSE n
  /\ ProcessGone
  /\ spc' = "dead"

-----------------------------------------------------------------------------
Next ==
  \/ Start \/ StopBegin \/ StopJoinWriter \/ StopJoinRewriter \/ StopFlush \/ StopClose
  \/ Crash
  \/ \E c \in Clients :
       Apply(c) \/ AppendCmd(c) \/ FlushCmd(c) \/ RewriteBegin(c) \/ RewriteSpawn(c)
  \/ WriterLoop \/ WriterSwap \/ (\E second \in BOOLEAN : WriterWrite(second))
  \/ RewriteDump \/ RewriteInstall \/ RewriteFinish

Spec == Init /\ [][Next]_vars

(* A runnable thread runs: every thread but the clients and the operator,   *)
(* who need not begin anything.  A second passes again and again, so the    *)
(* writer finds it passed again and again.                                  *)
Fairness ==
  /\ \A c \in Clients : WF_vars(AppendCmd(c) \/ FlushCmd(c) \/ RewriteSpawn(c))
  /\ WF_vars(WriterLoop \/ WriterSwap \/ \E second \in BOOLEAN : WriterWrite(second))
  /\ SF_vars(WriterWrite(TRUE))
  /\ WF_vars(RewriteDump \/ RewriteInstall \/ RewriteFinish)
  /\ WF_vars(StopJoinWriter \/ StopJoinRewriter \/ StopFlush \/ StopClose)

FairSpec == Spec /\ Fairness

-----------------------------------------------------------------------------
(* Types; the synced prefix lies inside the file, and a client that is      *)
(* handling a command has issued one.                                       *)
TypeOK ==
  /\ store \in Seq(Cmd) /\ active \in Seq(Cmd) /\ flushing \in Seq(Cmd)
  /\ file \in Seq(Record) /\ snap \in Seq(Cmd)
  /\ synced \in 0 .. Len(file)
  /\ open \in BOOLEAN /\ running \in BOOLEAN /\ rewriting \in BOOLEAN
  /\ cpc \in [Clients -> {"idle", "applied", "flush", "rewrite"}]
  /\ issued \in [Clients -> 0 .. MaxCmds]
  /\ acked \subseteq Cmd
  /\ wpc \in {"loop", "wait", "write", "exit"}
  /\ rpc \in {"none", "dump", "install", "clear"}
  /\ spc \in {"up", "join_writer", "join_rewriter", "flush", "close", "down", "dead"}
  /\ rewrites \in 0 .. MaxRewrites /\ lives \in 0 .. MaxLives /\ cut \in BOOLEAN
  /\ \A c \in Clients : cpc[c] \in {"applied", "flush"} => issued[c] # 0

(* Commands between the change of the store and the append to the log. *)
InFlight == { Current(c) : c \in { d \in Clients : cpc[d] = "applied" } }

(* Every command in the store is on its way into the log or in it: the two  *)
(* buffers, the swap and the two places that write them lose nothing.       *)
NothingLost == Elems(store) \subseteq Elems(Log) \cup InFlight

(* No command is logged twice, whoever of the writer, a client and stop()   *)
(* empties the buffers: INCR and RPUSH replayed twice give another store.   *)
NoDuplicate ==
  \A i, j \in DOMAIN Log : Log[i] = Log[j] /\ Log[i] # Torn => i = j

(* Replaying the log gives back each worker's commands, once each and in    *)
(* the order in which it executed them, whichever threads wrote them.       *)
Own(c, s) == Filter(s, {c} \X (1 .. MaxCmds))

ReplayPerWorker ==
  \A c \in Clients :
    spc = "up" /\ cpc[c] = "idle" => Own(c, Loadable(Log)) = Own(c, store)

(* Why nothing is lost while nothing is rewritten: the flushing buffer is   *)
(* full only between the two halves of the writer's loop, the writer has an *)
(* open file, stop() outlives clients and writer, and leaves empty buffers. *)
BufferDiscipline ==
  /\ rpc = "none" /\ \A c \in Clients : cpc[c] # "rewrite"
  /\ wpc # "write" => flushing = <<>>
  /\ running \/ wpc # "exit" \/ spc \notin {"up", "down", "dead"} => open
  /\ spc # "up" => \A c \in Clients : cpc[c] = "idle"
  /\ spc \notin {"up", "join_writer"} => wpc = "exit"
  /\ spc = "close" => active = <<>>

(* Under "always" a command whose client has its reply is restored by the   *)
(* next start even if the power is lost now.                                *)
AlwaysDurable ==
  Policy = "always" => acked \subseteq Elems(Loadable(SubSeq(file, 1, synced)))

(* When stop() closes the file, everything the store holds is in it.        *)
ShutdownComplete == spc = "close" => Elems(store) \subseteq Elems(file)

(* One rewrite at a time: one caller between the flag and the spawn, and    *)
(* never a second thread assigned over a running one.                       *)
RewriteExclusive ==
  /\ \A c, d \in Clients : cpc[c] = "rewrite" /\ cpc[d] = "rewrite" => c = d
  /\ (\E c \in Clients : cpc[c] = "rewrite") => rewriting /\ rpc = "none"
  /\ rpc # "none" => rewriting

(* What is in the file while no rewrite runs stays in it, across rewrites,  *)
(* failed rewrites, deaths of the process and restarts, as long as no full  *)
(* disk has cut off the file of a rewrite.                                  *)
LoggedStays ==
  \A r \in Cmd : [](r \in Elems(file) /\ ~rewriting => [](r \in Elems(file) \/ cut))

(* stop() comes to its end: its two joins wait for threads that finish.     *)
StopTerminates == (spc = "join_writer") ~> (spc \in {"down", "dead"})

(* A rewrite, successful or not, frees the flag for the next one.           *)
RewriteTerminates == rewriting ~> ~rewriting

(* Under "everysec", with the file open, a logged command reaches the disk, *)
(* unless the process dies first.                                           *)
EverySecSyncs ==
  \A r \in Cmd :
    (open /\ r \in Elems(active)) ~> (r \in Elems(SubSeq(file, 1, synced)) \/ spc = "dead")

(* The buffers and the file together are the append-only log of DurableLog: *)
(* a record, once accepted, is never overtaken, and a crash cuts a tail.    *)
AbstractLog ==
  INSTANCE DurableLog WITH log <- Log, written <- Len(file), synced <- synced

ImplementsLog == AbstractLog!Spec
=============================================================================
