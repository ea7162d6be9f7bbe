--------------------------- MODULE ProtocolSnapshots ---------------------------
(***************************************************************************)
(* How the server's memory outlives it.                                    *)
(*                                                                         *)
(* The protocol store lives in memory.  After every operation it takes a   *)
(* snapshot and queues a save: the records of each field are inserted      *)
(* under a fresh snapshot id, and then one document, the checkpoint, is    *)
(* moved to that id if it still has the version this process knows.  Later *)
(* the records of old versions are pruned.  A save that fails removes its  *)
(* records and stops the store for good.  Any process may crash anywhere;  *)
(* an old and a new process may run at the same time during a deployment.  *)
(*                                                                         *)
(* Memory is the set of operations done on it.  An operation that throws   *)
(* half way leaves its first half behind.  The store on a file, which      *)
(* tests and tools use, writes a temporary file and renames it.            *)
(***************************************************************************)
EXTENDS Integers, Sequences, FiniteSets

CONSTANTS
    Servers,        \* processes that open the document
    Operations,     \* operations on the store
    Throwing,       \* those that may throw after a part of their changes
    Samples,        \* those that add funding premium samples
    Fields,         \* NORMALIZED_SNAPSHOT_FIELDS
    Deletions,      \* how much of a deletion happens: a set of sets of fields
    Retention,      \* NORMALIZED_SNAPSHOT_RETENTION
    LegacyPayload,  \* what a document of the old format holds
    Connected,      \* servers that are loaded to begin with
    MaxSaves,       \* bound: saves started
    MaxStarts       \* bound: starts of processes

ASSUME SnapshotsAssumption ==
    /\ Throwing \subseteq Operations /\ Samples \subseteq Operations
    /\ LegacyPayload \subseteq Operations /\ Connected \subseteq Servers
    /\ Deletions \subseteq SUBSET Fields
    /\ Retention \in Nat \ {0}
    /\ MaxSaves \in Nat /\ MaxStarts \in Nat

VARIABLES
    document,   \* the checkpoint: [format, version, payload, id]
    snapshots,  \* the snapshots begun: [version, content, fields whose records are there]
    backups,    \* payloads in the legacy_backups collection
    history,    \* ids in the history collection
    memory,     \* server -> what its store holds
    server,     \* server -> [stage, version, legacy, read]
    queue,      \* server -> contents of the saves that wait
    save,       \* server -> the save that runs
    starts,
    acked,      \* history: contents of saves that resolved, which flush awaits
    unanswered, \* history: ids whose commit happened without an answer
    kind,       \* which store is in use, "mongo" or "file"
    disk        \* the file store: [up, memory, file, temp, stage, returned]

checkpointVars == <<document, snapshots, backups, history>>
serverVars == <<memory, server, queue, save, starts>>
answerVars == <<acked, unanswered>>
snapshotVars == <<checkpointVars, serverVars, answerVars, kind, disk>>

Half(o) == <<"half of", o>>
Contents == SUBSET (Operations \cup {Half(o) : o \in Throwing})

\* Ids are fresh (randomUUID): here the numbers of the saves.
Ids == DOMAIN snapshots

NoSave == [stage |-> "none"]
Down == [stage |-> "down", version |-> 0, legacy |-> {}, read |-> 0]

Whole(id) == snapshots[id].fields = Fields

\* What a process that starts now would find.
Durable ==
    CASE document.format = "empty"      -> {}
      [] document.format = "legacy"     -> document.payload
      [] document.format = "normalized" -> snapshots[document.id].content

IsUp(s) == server[s].stage \in {"healthy", "unhealthy"}

SnapshotsTypeOK ==
    /\ document.format \in {"empty", "legacy", "normalized"} /\ document.version \in Nat
    /\ document.format = "normalized" => document.id \in Ids
    /\ \A id \in Ids : /\ snapshots[id].version \in Nat
                       /\ snapshots[id].content \in Contents
                       /\ snapshots[id].fields \subseteq Fields
    /\ backups \subseteq {LegacyPayload} /\ history \subseteq Ids
    /\ memory \in [Servers -> Contents]
    /\ \A s \in Servers : server[s].stage \in {"down", "loading", "healthy", "unhealthy"}
    /\ queue \in [Servers -> Seq(Contents)]
    /\ acked \in Contents

-----------------------------------------------------------------------------
(* Connecting.                                                             *)

\* load reads the checkpoint ...
ConnectServer(s) ==
    /\ server[s].stage = "down" /\ starts < MaxStarts
    /\ starts' = starts + 1
    /\ server' = [server EXCEPT ![s] =
                    [stage |-> IF document.format = "normalized" THEN "loading" ELSE "healthy",
                     version |-> document.version, legacy |-> document.payload,
                     read |-> document.id]]
    /\ memory' = [memory EXCEPT ![s] = IF document.format = "normalized" THEN {} ELSE Durable]
    /\ UNCHANGED <<checkpointVars, queue, save, answerVars, kind, disk>>

\* ... and then the records of its snapshot.  A count that differs from the
\* checkpoint's stops the process.  Records of a checkpoint only disappear, so
\* reading the fields one by one finds what reading them at once would.
LoadRecords(s) ==
    /\ server[s].stage = "loading"
    /\ IF Whole(server[s].read)
       THEN /\ server' = [server EXCEPT ![s].stage = "healthy"]
            /\ memory' = [memory EXCEPT ![s] = snapshots[server[s].read].content]
       ELSE /\ server' = [server EXCEPT ![s] = Down]
            /\ UNCHANGED memory
    /\ UNCHANGED <<checkpointVars, queue, save, starts, answerVars, kind, disk>>

CrashServer(s) ==
    /\ server[s].stage # "down"
    /\ server' = [server EXCEPT ![s] = Down]
    /\ memory' = [memory EXCEPT ![s] = {}]
    /\ queue' = [queue EXCEPT ![s] = <<>>]
    /\ save' = [save EXCEPT ![s] = NoSave]
    /\ UNCHANGED <<checkpointVars, starts, answerVars, kind, disk>>

-----------------------------------------------------------------------------
(* Operations.                                                             *)

\* persist: the store refuses to work after a failed save; otherwise memory
\* changes and its snapshot is queued at once, whatever nested operations did.
Operate(s, o) ==
    /\ server[s].stage = "healthy" /\ o \notin memory[s]
    /\ memory' = [memory EXCEPT ![s] = @ \cup {o}]
    /\ queue' = [queue EXCEPT ![s] = Append(@, memory'[s])]
    /\ UNCHANGED <<checkpointVars, server, save, starts, answerVars, kind, disk>>

\* An operation that throws is not saved, but what it changed stays in memory.
OperateThrows(s, o) ==
    /\ server[s].stage = "healthy" /\ o \in Throwing /\ o \notin memory[s]
    /\ memory' = [memory EXCEPT ![s] = @ \cup {Half(o)}]
    /\ UNCHANGED <<checkpointVars, server, queue, save, starts, answerVars, kind, disk>>

\* migrate: a store in the old format, or a new one, is saved as it is.
Migrate(s) ==
    /\ server[s].stage = "healthy" /\ server[s].read = 0
    /\ queue[s] = <<>> /\ save[s] = NoSave
    /\ queue' = [queue EXCEPT ![s] = Append(@, memory[s])]
    /\ UNCHANGED <<checkpointVars, memory, server, save, starts, answerVars, kind, disk>>

-----------------------------------------------------------------------------
(* A save.                                                                 *)

SaveIs(s, stage) == save[s].stage = stage

To(s, stage) == save' = [save EXCEPT ![s].stage = stage]

\* The next queued snapshot gets a fresh id and the version after this process's.
StartSave(s) ==
    /\ server[s].stage = "healthy" /\ SaveIs(s, "none") /\ queue[s] # <<>>
    /\ Len(snapshots) < MaxSaves
    /\ save' = [save EXCEPT ![s] = [stage |-> "write", id |-> Len(snapshots) + 1]]
    /\ snapshots' = Append(snapshots, [version |-> server[s].version + 1,
                                       content |-> Head(queue[s]), fields |-> {}])
    /\ queue' = [queue EXCEPT ![s] = Tail(@)]
    /\ UNCHANGED <<document, backups, history, memory, server, starts, answerVars, kind, disk>>

\* writeNormalizedSnapshot: the fields are inserted side by side.
WriteField(s, f) ==
    /\ SaveIs(s, "write") /\ f \notin snapshots[save[s].id].fields
    /\ snapshots' = [snapshots EXCEPT ![save[s].id].fields = @ \cup {f}]
    /\ UNCHANGED <<document, backups, history, serverVars, answerVars, kind, disk>>

FieldsWritten_First(id) == snapshots[id].fields # {}

FieldsWritten(id) == Whole(id)

\* backupLegacyProtocolSnapshot, if this process read a document of the old format.
Backup(s) ==
    /\ SaveIs(s, "write") /\ FieldsWritten(save[s].id)
    /\ backups' = IF server[s].legacy # {} THEN backups \cup {server[s].legacy} ELSE backups
    /\ To(s, "update")
    /\ UNCHANGED <<document, snapshots, history, memory, server, queue, starts, answerVars, kind, disk>>

\* Variant of Matches: the version is not compared.
Matches_AnyVersion(s) == document.format # "empty"

\* protocolCheckpointFilter.
Matches(s) == document.format # "empty" /\ document.version = server[s].version

MovedTo(id) ==
    [format |-> "normalized", version |-> snapshots[id].version, payload |-> {}, id |-> id]

Committed(s) ==
    /\ server' = [server EXCEPT ![s].version = @ + 1, ![s].legacy = {}, ![s].read = save[s].id]
    /\ To(s, "maintain")

\* commitProtocolCheckpoint: the conditional update.  Without a match a store
\* that has seen no document tries to insert one, and any other is stale.
CommitUpdate(s) ==
    /\ SaveIs(s, "update")
    /\ IF Matches(s)
       THEN document' = MovedTo(save[s].id) /\ Committed(s)
       ELSE /\ To(s, IF server[s].version = 0 THEN "insert" ELSE "delete")
            /\ UNCHANGED <<document, server>>
    /\ UNCHANGED <<snapshots, backups, history, memory, queue, starts, answerVars, kind, disk>>

CommitInsert(s) ==
    /\ SaveIs(s, "insert")
    /\ IF document.format = "empty"
       THEN document' = MovedTo(save[s].id) /\ Committed(s)
       ELSE To(s, "delete") /\ UNCHANGED <<document, server>>
    /\ UNCHANGED <<snapshots, backups, history, memory, queue, starts, answerVars, kind, disk>>

\* The commit happens and its answer never arrives, not to the driver's retry
\* either: the records are deleted under the checkpoint that points to them.
CommitAnswerLost(s) ==
    /\ SaveIs(s, "update") /\ Matches(s)
    /\ document' = MovedTo(save[s].id)
    /\ unanswered' = unanswered \cup {save[s].id}
    /\ To(s, "delete")
    /\ UNCHANGED <<snapshots, backups, history, memory, server, queue, starts, acked, kind, disk>>

\* Variant of Prunable: the current version's records go too.
Prunable_Current(id, current) == snapshots[id].version < current + 1

Prunable(id, current) == snapshots[id].version < current - Retention + 1

\* Maintenance after the commit: each part may fail and is not missed.  The save
\* resolves, and with it a flush that waits for it.
Maintain(s, recorded, pruned) ==
    /\ SaveIs(s, "maintain")
    /\ LET id == save[s].id IN
       /\ history' = IF recorded THEN history \cup {id} ELSE history
       /\ snapshots' = [i \in Ids |->
            IF Prunable(i, snapshots[id].version) THEN [snapshots[i] EXCEPT !.fields = @ \ pruned]
            ELSE snapshots[i]]
       /\ acked' = acked \cup snapshots[id].content
    /\ save' = [save EXCEPT ![s] = NoSave]
    /\ UNCHANGED <<document, backups, memory, server, queue, starts, unanswered, kind, disk>>

Stopped(s) ==
    /\ server' = [server EXCEPT ![s].stage = "unhealthy"]
    /\ queue' = [queue EXCEPT ![s] = <<>>]
    /\ save' = [save EXCEPT ![s] = NoSave]

\* The database refuses a step.  What was inserted before the try block stays.
SaveFails(s) ==
    /\ save[s].stage \in {"write", "update", "insert"}
    /\ \/ SaveIs(s, "write") /\ ~Whole(save[s].id) /\ Stopped(s)
       \/ /\ SaveIs(s, "write") => Whole(save[s].id)
          /\ To(s, "delete")
          /\ UNCHANGED <<server, queue>>
    /\ UNCHANGED <<checkpointVars, memory, starts, answerVars, kind, disk>>

\* deleteNormalizedSnapshot, of which any part may fail; then the store stops,
\* and the saves still queued fail with it.
DeleteRecords(s, deleted) ==
    /\ SaveIs(s, "delete")
    /\ snapshots' = [snapshots EXCEPT ![save[s].id].fields = @ \ deleted]
    /\ Stopped(s)
    /\ UNCHANGED <<document, backups, history, memory, starts, answerVars, kind, disk>>

-----------------------------------------------------------------------------
(* FileProtocolStore: one synchronous process and its file.                *)

\* The operation is done, and save writes everything but the premium samples
\* beside the file ...
FileOperates(o) ==
    /\ disk.up /\ disk.stage = "idle" /\ o \notin disk.memory
    /\ disk' = [disk EXCEPT !.memory = @ \cup {o}, !.stage = "rename",
                            !.temp = (disk.memory \cup {o}) \ Samples]
    /\ UNCHANGED <<checkpointVars, serverVars, answerVars, kind>>

\* ... and renames it; the operation returns.
FileRenames ==
    /\ disk.stage = "rename"
    /\ disk' = [disk EXCEPT !.file = disk.temp, !.stage = "idle", !.returned = disk.memory]
    /\ UNCHANGED <<checkpointVars, serverVars, answerVars, kind>>

FileCrashes ==
    /\ disk.up
    /\ disk' = [disk EXCEPT !.up = FALSE, !.memory = {}, !.stage = "idle"]
    /\ UNCHANGED <<checkpointVars, serverVars, answerVars, kind>>

FileOpens ==
    /\ ~disk.up
    /\ disk' = [disk EXCEPT !.up = TRUE, !.memory = disk.file]
    /\ UNCHANGED <<checkpointVars, serverVars, answerVars, kind>>

-----------------------------------------------------------------------------

SnapshotsInit ==
    /\ document \in {[format |-> "empty", version |-> 0, payload |-> {}, id |-> 0],
                     [format |-> "legacy", version |-> 0, payload |-> LegacyPayload, id |-> 0]}
    /\ snapshots = <<>> /\ backups = {} /\ history = {}
    /\ server = [s \in Servers |->
                   IF s \in Connected THEN [stage |-> "healthy", version |-> document.version,
                                            legacy |-> document.payload, read |-> document.id]
                   ELSE Down]
    /\ memory = [s \in Servers |-> IF s \in Connected THEN document.payload ELSE {}]
    /\ queue = [s \in Servers |-> <<>>]
    /\ save = [s \in Servers |-> NoSave]
    /\ kind \in {"mongo", "file"}
    /\ starts = 0 /\ acked = document.payload /\ unanswered = {}
    /\ disk = [up |-> FALSE, memory |-> {}, file |-> {}, temp |-> {}, stage |-> "idle",
               returned |-> {}]

SaveStep(s) ==
    \/ StartSave(s) \/ Backup(s) \/ CommitUpdate(s) \/ CommitInsert(s)
    \/ CommitAnswerLost(s) \/ SaveFails(s)
    \/ \E f \in Fields : WriteField(s, f)
    \/ \E recorded \in BOOLEAN, pruned \in Deletions : Maintain(s, recorded, pruned)
    \/ \E deleted \in Deletions : DeleteRecords(s, deleted)

FileStep ==
    \/ \E o \in Operations : FileOperates(o)
    \/ FileRenames \/ FileCrashes \/ FileOpens

MongoStep ==
    \/ \E s \in Servers : ConnectServer(s) \/ LoadRecords(s) \/ CrashServer(s) \/ Migrate(s) \/ SaveStep(s)
    \/ \E s \in Servers, o \in Operations : Operate(s, o) \/ OperateThrows(s, o)

SnapshotsNext ==
    \/ kind = "mongo" /\ MongoStep
    \/ kind = "file" /\ FileStep

SnapshotsSpec == SnapshotsInit /\ [][SnapshotsNext]_snapshotVars

-----------------------------------------------------------------------------

\* A restart finds a state: the checkpoint's records are all there, whichever
\* saves failed, crashed half way or were stale, and whatever was pruned; so are
\* those of the recorded versions that have not aged.  The exception is a commit
\* whose answer is lost for good: its own process deletes what it committed.
CheckpointIsWhole ==
    /\ document.format = "normalized" /\ document.id \notin unanswered => Whole(document.id)
    /\ \A id \in history :
          snapshots[id].version > document.version - Retention => Whole(id)

\* What flush answered for is never lost, nor what a document of the old format
\* held, although an old process may go on writing beside a new one.  The store
\* on a file keeps what returned, but for the premium samples.
FlushedIsKept ==
    /\ acked \subseteq Durable
    /\ disk.returned \ Samples \subseteq disk.file

\* RestartFindsAll: whenever the server is started again it finds a state, and
\* in it all that a flush answered for.
RestartFindsAll == CheckpointIsWhole /\ FlushedIsKept
=============================================================================
