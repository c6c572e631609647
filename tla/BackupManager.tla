---------------------------- MODULE BackupManager ----------------------------
(***************************************************************************)
(* The backup manager (daemon/backup/backup.go): calls of CreateBackup,    *)
(* RestoreBackup and DeleteBackup, retention goroutines, and a process     *)
(* that crashes and loads the metadata again.  The automatic backups are   *)
(* calls of CreateBackup like any other.                                   *)
(*                                                                         *)
(* A backup is named by the second it was asked for.  The manager's lock   *)
(* guards the map of backups and, in DeleteBackup, the removal of the      *)
(* files; archives and metadata are written and read without it.  An       *)
(* archive is a sequence of chunks, each standing for the call that wrote  *)
(* it, and a checksum stands for the archive it was computed from.  The    *)
(* status of a backup is left out, as no operation looks at it.            *)
(***************************************************************************)
EXTENDS Naturals, Sequences, FiniteSets

CONSTANTS Makers,      \* calls of CreateBackup
          Users,       \* calls of RestoreBackup and DeleteBackup
          Chunks,      \* chunks of an archive
          MaxTime,     \* bound on the clock, in seconds
          MaxBackups,  \* config.MaxBackups
          MaxAge,      \* config.RetentionDays, 0 for none
          MaxFaults    \* bound on crashes and errors of the file system

ASSUME CallsFinite == /\ IsFiniteSet(Makers) /\ IsFiniteSet(Users)
                      /\ Makers \cap Users = {}
ASSUME Numbers == /\ Chunks \in Nat \ {0} /\ MaxTime \in Nat \ {0}
                  /\ {MaxBackups, MaxAge, MaxFaults} \subseteq Nat
(* A call is none of the marks that stand where a call may stand. *)
ASSUME CallsNamed == (Makers \cup Users) \cap {"none", "disk", "hole", "free", "retention"} = {}

VARIABLES
    now,       \* the clock
    backups,   \* m.backups: the call that made the entry, or "disk" if loaded
    loaded,    \* checksums of the entries that were loaded
    archive,   \* the file <id>.tar.gz
    json,      \* the checksum in the file <id>.json
    lock,      \* who holds m.mu
    restoring, \* m.restoring
    pc,        \* where a call is
    id,        \* the backup it is about
    offset,    \* chunks a CreateBackup has written
    linked,    \* creations whose open file is the one at the path
    sum,       \* metadata.Checksum of the entry a call made
    held,      \* the entry a restore looked up
    result,    \* what a call reported: nothing if it failed or was a deletion
    restored,  \* history: what a restore extracted
    retaining, \* calls whose retention goroutine has yet to run
    removed,   \* history: backups of which a deletion removed the archive
    faults

files == <<archive, json>>
memory == <<backups, loaded, lock, restoring, retaining>>
locals == <<id, offset, linked, sum, held, restored>>
rest == <<now, removed, faults>>
backupVars == <<files, memory, pc, result, locals, rest>>

Calls == Makers \cup Users
Times == 1 .. MaxTime
None == <<"none">>
Contents == UNION {[1 .. n -> Makers \cup {"hole"}] : n \in 0 .. Chunks}
Whole(c) == [i \in 1 .. Chunks |-> c]

Creating == {"open", "write", "checksum", "save"}
Restoring == {"lookup", "verify", "extract"}
Deleting == {"archive", "json"}
InProgress(c) == pc[c] \in Creating \cup Restoring \cup Deleting

BackupTypeOK ==
    /\ now \in Times
    /\ backups \in [Times -> Makers \cup {"none", "disk"}]
    /\ loaded \in [Times -> Contents \cup {None}]
    /\ archive \in [Times -> Contents \cup {None}]
    /\ json \in [Times -> Contents \cup {None}]
    /\ lock \in Users \cup {"free", "retention"}
    /\ restoring \in BOOLEAN
    /\ pc \in [Calls -> {"idle", "done"} \cup Creating \cup Restoring \cup Deleting]
    /\ id \in [Calls -> Times \cup {0}]
    /\ offset \in [Makers -> 0 .. Chunks]
    /\ linked \subseteq Makers /\ retaining \subseteq Makers /\ removed \subseteq Times
    /\ sum \in [Makers -> Contents \cup {None}]
    /\ held \in [Users -> Makers \cup {"none", "disk"}]
    /\ result \in [Calls -> {"none", "created", "restored"}]
    /\ restored \in [Users -> Contents \cup {None}]
    /\ faults \in 0 .. MaxFaults

BackupInit ==
    /\ now = 1 /\ faults = 0
    /\ backups = [t \in Times |-> "none"]
    /\ loaded = [t \in Times |-> None]
    /\ archive = [t \in Times |-> None] /\ json = [t \in Times |-> None]
    /\ lock = "free" /\ restoring = FALSE
    /\ pc = [c \in Calls |-> "idle"] /\ id = [c \in Calls |-> 0]
    /\ offset = [c \in Makers |-> 0]
    /\ sum = [c \in Makers |-> None] /\ restored = [c \in Users |-> None]
    /\ held = [c \in Users |-> "none"] /\ result = [c \in Calls |-> "none"]
    /\ linked = {} /\ retaining = {} /\ removed = {}

Goto(c, p) == pc' = [pc EXCEPT ![c] = p]

Return(c, r) == Goto(c, "done") /\ result' = [result EXCEPT ![c] = r]

(* An error of the file system, or the end of the caller's context. *)
Fault == faults < MaxFaults /\ faults' = faults + 1

-----------------------------------------------------------------------------
(* CreateBackup *)

(* The identifier is the second of the call; an entry of that name is     *)
(* replaced.                                                               *)
Create(c) ==
    /\ pc[c] = "idle" /\ lock = "free"
    /\ id' = [id EXCEPT ![c] = now]
    /\ backups' = [backups EXCEPT ![now] = c]
    /\ Goto(c, "open")
    /\ UNCHANGED <<files, loaded, lock, restoring, retaining, offset, linked, sum,
                   held, restored, result, rest>>

(* performBackup: os.Create truncates the file, whoever writes it. *)
OpenArchive(c) ==
    /\ pc[c] = "open"
    /\ archive' = [archive EXCEPT ![id[c]] = <<>>]
    /\ linked' = linked \cup {c}
    /\ Goto(c, "write")
    /\ UNCHANGED <<json, memory, id, offset, sum, held, restored, result, rest>>

(* The content s with chunk i written by c. *)
WithChunk(s, i, c) ==
    [k \in 1 .. (IF i > Len(s) THEN i ELSE Len(s)) |->
        IF k = i THEN c ELSE IF k <= Len(s) THEN s[k] ELSE "hole"]

(* One more chunk, the last one by the calls of Close. *)
WriteArchive(c) ==
    /\ pc[c] = "write"
    /\ archive' = IF c \in linked
                  THEN [archive EXCEPT ![id[c]] = WithChunk(@, offset[c] + 1, c)]
                  ELSE archive
    /\ IF offset[c] + 1 = Chunks
       THEN /\ Goto(c, "checksum")
            /\ linked' = linked \ {c} /\ offset' = [offset EXCEPT ![c] = 0]
       ELSE /\ offset' = [offset EXCEPT ![c] = @ + 1]
            /\ UNCHANGED <<pc, linked>>
    /\ UNCHANGED <<json, memory, id, sum, held, restored, result, rest>>

(* Stat and Open find the file by its path. *)
Checksum(c) ==
    /\ pc[c] = "checksum" /\ archive[id[c]] # None
    /\ sum' = [sum EXCEPT ![c] = archive[id[c]]]
    /\ Goto(c, "save")
    /\ UNCHANGED <<files, memory, id, offset, linked, held, restored, result, rest>>

(* Somebody has deleted the backup. *)
ArchiveLost(c) ==
    /\ pc[c] = "checksum" /\ archive[id[c]] = None
    /\ Return(c, "none")
    /\ UNCHANGED <<files, memory, locals, rest>>

(* Mutant: the backup is reported before its metadata are on disk. *)
SaveMetadataLater(c) ==
    /\ pc[c] = "save"
    /\ retaining' = retaining \cup {c}
    /\ Return(c, "created")
    /\ UNCHANGED <<files, backups, loaded, lock, restoring, locals, rest>>

(* saveMetadata, and the goroutine of the retention.  Metadata that are cut *)
(* short are ignored by loadBackups, and stand for none.                    *)
SaveMetadata(c) ==
    /\ pc[c] = "save"
    /\ json' = [json EXCEPT ![id[c]] = sum[c]]
    /\ retaining' = retaining \cup {c}
    /\ Return(c, "created")
    /\ UNCHANGED <<archive, backups, loaded, lock, restoring, locals, rest>>

(* An error at any of its calls; the archive stays, and the metadata may   *)
(* be cut short.                                                           *)
CreateFails(c) ==
    /\ pc[c] \in Creating
    /\ Fault
    /\ \/ UNCHANGED json
       \/ pc[c] = "save" /\ json' = [json EXCEPT ![id[c]] = None]
    /\ linked' = linked \ {c}
    /\ offset' = [offset EXCEPT ![c] = 0]
    /\ Return(c, "none")
    /\ UNCHANGED <<archive, memory, id, sum, held, restored, now, removed>>

(* Entries beyond the number or the age the configuration allows. *)
Listed == {t \in Times : backups[t] # "none"}
Expired ==
    {t \in Listed : \/ Cardinality({u \in Listed : u >= t}) > MaxBackups
                    \/ MaxAge > 0 /\ now - t > MaxAge}

(* applyRetention calls DeleteBackup with the lock that DeleteBackup takes: *)
(* with anything to delete it waits for itself.                             *)
Retain(c) ==
    /\ c \in retaining /\ lock = "free"
    /\ retaining' = retaining \ {c}
    /\ lock' = IF Expired = {} THEN "free" ELSE "retention"
    /\ UNCHANGED <<files, backups, loaded, restoring, pc, result, locals, rest>>

-----------------------------------------------------------------------------
(* RestoreBackup *)

Restore(c, t) ==
    /\ pc[c] = "idle" /\ t # 0
    /\ id' = [id EXCEPT ![c] = t]
    /\ IF restoring
       THEN Return(c, "none") /\ UNCHANGED restoring
       ELSE Goto(c, "lookup") /\ restoring' = TRUE /\ UNCHANGED result
    /\ UNCHANGED <<files, backups, loaded, lock, retaining, offset, linked,
                   sum, held, restored, rest>>

(* RestoreBackup returns; the deferred function frees the place. *)
RestoreReturns(c, r) ==
    /\ Return(c, r)
    /\ restoring' = FALSE /\ held' = [held EXCEPT ![c] = "none"]

Lookup(c) ==
    /\ pc[c] = "lookup" /\ lock = "free"
    /\ IF backups[id[c]] = "none"
       THEN RestoreReturns(c, "none")
       ELSE /\ held' = [held EXCEPT ![c] = backups[id[c]]]
            /\ Goto(c, "verify") /\ UNCHANGED <<restoring, result>>
    /\ UNCHANGED <<files, backups, loaded, lock, retaining, id, offset, linked,
                   sum, restored, rest>>

(* The checksum in the entry a restore holds. *)
Vouched(c) == IF held[c] = "disk" THEN loaded[id[c]] ELSE sum[held[c]]

(* Mutant: only the presence of the archive is verified. *)
VerifyPresence(c) ==
    /\ pc[c] = "verify"
    /\ IF archive[id[c]] # None
       THEN Goto(c, "extract") /\ UNCHANGED <<restoring, held, result>>
       ELSE RestoreReturns(c, "none")
    /\ UNCHANGED <<files, backups, loaded, lock, retaining, id, offset, linked,
                   sum, restored, rest>>

(* verifyBackup *)
Verify(c) ==
    /\ pc[c] = "verify"
    /\ IF archive[id[c]] # None /\ archive[id[c]] = Vouched(c)
       THEN Goto(c, "extract") /\ UNCHANGED <<restoring, held, result>>
       ELSE RestoreReturns(c, "none")
    /\ UNCHANGED <<files, backups, loaded, lock, retaining, id, offset, linked,
                   sum, restored, rest>>

(* performRestore opens the file once more; one that has been cut short    *)
(* meanwhile is an error of the reader, or is taken for a short archive.   *)
Extract(c) ==
    /\ pc[c] = "extract"
    /\ \/ /\ archive[id[c]] # None
          /\ restored' = [restored EXCEPT ![c] = archive[id[c]]]
          /\ RestoreReturns(c, "restored")
       \/ /\ archive[id[c]] \notin {Whole(d) : d \in Makers}
          /\ RestoreReturns(c, "none") /\ UNCHANGED restored
    /\ UNCHANGED <<files, backups, loaded, lock, retaining, id, offset, linked,
                   sum, rest>>

RestoreFails(c) ==
    /\ pc[c] \in {"verify", "extract"} /\ Fault
    /\ RestoreReturns(c, "none")
    /\ UNCHANGED <<files, backups, loaded, lock, retaining, id, offset, linked,
                   sum, restored, now, removed>>

-----------------------------------------------------------------------------
(* DeleteBackup, with the lock from its first step to its last. *)

Delete(c, t) ==
    /\ pc[c] = "idle" /\ t # 0 /\ lock = "free"
    /\ id' = [id EXCEPT ![c] = t]
    /\ IF backups[t] = "none"
       THEN Return(c, "none") /\ UNCHANGED lock
       ELSE Goto(c, "archive") /\ lock' = c /\ UNCHANGED result
    /\ UNCHANGED <<files, backups, loaded, restoring, retaining, offset, linked,
                   sum, held, restored, rest>>

(* Who writes the archive goes on with a file that has no name. *)
RemoveArchive(c) ==
    /\ pc[c] = "archive"
    /\ archive' = [archive EXCEPT ![id[c]] = None]
    /\ linked' = {d \in linked : id[d] # id[c]}
    /\ removed' = removed \cup {id[c]}
    /\ Goto(c, "json")
    /\ UNCHANGED <<json, memory, id, offset, sum, held, restored, result, now, faults>>

RemoveMetadata(c) ==
    /\ pc[c] = "json"
    /\ json' = [json EXCEPT ![id[c]] = None]
    /\ backups' = [backups EXCEPT ![id[c]] = "none"]
    /\ lock' = "free"
    /\ Return(c, "none")
    /\ UNCHANGED <<archive, loaded, restoring, retaining, locals, rest>>

(* Mutant: the error path returns with the lock. *)
DeleteFailsLocked(c) ==
    /\ pc[c] \in Deleting /\ Fault
    /\ Return(c, "none")
    /\ UNCHANGED <<files, memory, locals, now, removed>>

(* One of the files cannot be removed: what went before stays done. *)
DeleteFails(c) ==
    /\ pc[c] \in Deleting /\ Fault
    /\ lock' = "free"
    /\ Return(c, "none")
    /\ UNCHANGED <<files, backups, loaded, restoring, retaining, locals, now, removed>>

-----------------------------------------------------------------------------
Tick ==
    /\ now < MaxTime /\ now' = now + 1
    /\ UNCHANGED <<files, memory, pc, result, locals, removed, faults>>

(* The process dies at any point; NewManager calls loadBackups. *)
Restart ==
    /\ faults < MaxFaults /\ faults' = faults + 1
    /\ backups' = [t \in Times |-> IF json[t] = None THEN "none" ELSE "disk"]
    /\ loaded' = json
    /\ lock' = "free" /\ restoring' = FALSE
    /\ retaining' = {} /\ linked' = {}
    /\ offset' = [c \in Makers |-> 0] /\ sum' = [c \in Makers |-> None]
    /\ held' = [u \in Users |-> "none"]
    /\ pc' = [c \in Calls |-> IF InProgress(c) THEN "done" ELSE pc[c]]
    /\ UNCHANGED <<files, id, restored, result, now, removed>>

Step(c) ==
    \/ OpenArchive(c) \/ WriteArchive(c) \/ Checksum(c)
    \/ SaveMetadata(c) \/ CreateFails(c) \/ ArchiveLost(c)
    \/ Lookup(c) \/ Verify(c) \/ Extract(c) \/ RestoreFails(c)
    \/ RemoveArchive(c) \/ RemoveMetadata(c) \/ DeleteFails(c)

BackupNext ==
    \/ \E c \in Calls : Step(c)
    \/ \E c \in Makers : Create(c) \/ Retain(c)
    \/ \E u \in Users, c \in Makers : Restore(u, id[c]) \/ Delete(u, id[c])
    \/ Tick \/ Restart

BackupSpec == BackupInit /\ [][BackupNext]_backupVars

-----------------------------------------------------------------------------
(* Properties. *)

(* Two backups asked for in one second share a name. *)
Collided(t) == \E c, d \in Makers : c # d /\ id[c] = t /\ id[d] = t

(* RestoreBackup: what is extracted is the whole archive of the backup's   *)
(* maker, however far that got, whoever deletes and whenever the process   *)
(* died: an archive that is cut short is never restored.                   *)
RestoredIsWhole ==
    \A u \in Users : result[u] = "restored" /\ ~Collided(id[u])
        => \E c \in Makers : id[c] = id[u] /\ restored[u] = Whole(c)

(* CreateBackup: a backup it reported stays in the manager and on disk,    *)
(* crashes included, until a deletion or another backup of its name.       *)
CreatedIsKept ==
    \A c \in Makers :
        result[c] = "created" /\ ~Collided(id[c]) /\ id[c] \notin removed
            => /\ archive[id[c]] = Whole(c) /\ json[id[c]] = Whole(c)
               /\ backups[id[c]] \in {c, "disk"}

(* RestoreBackup, DeleteBackup: the place of the one restore and the lock  *)
(* are taken exactly while the call that took them is in progress, on      *)
(* whatever path it leaves; only the retention keeps the lock for good.    *)
(* With the types of the state.                                            *)
HeldWhileBusy ==
    /\ BackupTypeOK
    /\ Cardinality({u \in Users : pc[u] \in Restoring}) = IF restoring THEN 1 ELSE 0
    /\ \A u \in Users : pc[u] \in Deleting <=> lock = u
=============================================================================
