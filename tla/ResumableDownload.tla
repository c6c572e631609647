------------------------- MODULE ResumableDownload -------------------------
(***************************************************************************)
(* A resumable vSphere export (providers/vsphere/export.go with            *)
(* providers/common/checkpoint.go): one goroutine per file behind a        *)
(* counting channel, retried HTTP range downloads that append to what the  *)
(* disk already holds, the checkpoint guarded by checkpointMux, and the    *)
(* runs that follow a crash or a failed export.                            *)
(*                                                                         *)
(* A file is the sequence of source offsets written to it, so the source   *)
(* itself is <<1, 2, ..., Size>>.  Survives a crash of the process: disk   *)
(* and saved.  Checkpoint.Save renames a finished temporary file, so it is *)
(* one step: the temporary is never read.                                  *)
(***************************************************************************)
EXTENDS Naturals, Sequences, FiniteSets

CONSTANTS Items,         \* info.Items: the file names, in order
          Size,            \* nfc.FileItem.Size
          Concurrency,     \* opts.ParallelDownloads, at least 1 (568-570)
          MaxAttempts,     \* RetryConfig.MaxAttempts
          Options,         \* the ExportOptions a run may be given
          HonoursRange,    \* external: the host answers a Range with 206
          MaxRuns,         \* bound: calls of ExportOVF on this directory
          None             \* nothing: no checkpoint, no options, no result

Files == {Items[i] : i \in 1..Len(Items)}

ASSUME ItemsDistinct == /\ Items \in Seq(Files)
                        /\ \A i, j \in 1..Len(Items) : Items[i] = Items[j] => i = j
ASSUME SizeType == Size \in [Files -> Nat \ {0}]
ASSUME BoundsType == /\ Concurrency \in Nat \ {0}
                     /\ MaxAttempts \in Nat \ {0}
                     /\ MaxRuns \in Nat
                     /\ HonoursRange \in BOOLEAN
                     /\ None \notin Options
ASSUME OptionsType ==
    Options \subseteq [checkpoints : BOOLEAN, resume : BOOLEAN,
                       everyFile : BOOLEAN, cleanup : BOOLEAN]

VARIABLES
    disk,     \* what the output directory holds of each file
    saved,    \* the checkpoint file: a status for each file, or None
    phase,    \* how far the running ExportOVF is
    opts,     \* its options
    chk,      \* the checkpoint in memory, or None when not enabled
    spawned,  \* the files whose goroutine was started: Items[1..spawned]
    at,       \* where the goroutine of each file is
    attempt,  \* retry attempt of each file
    pos,      \* the next source offset the response body delivers
    exported, \* the files as they were when ExportOVF packaged them
    removed,  \* history: files deleted by CleanupOVF in some run
    runs      \* calls of ExportOVF so far

vars == <<disk, saved, phase, opts, chk, spawned, at, attempt, pos, exported,
          removed, runs>>
download == <<spawned, at, attempt, pos>>
control == <<phase, opts, spawned, exported, removed, runs>>

Statuses == {"absent", "pending", "completed", "failed"}
Checkpoints == [Files -> Statuses] \cup {None}
Phases == {"idle", "leasing", "initial", "downloading", "completing",
           "cleanup", "deleting", "done", "failed"}
Working == {"check", "request", "copy", "broken", "mark", "save"}
Places == Working \cup {"unspawned", "ok", "failed"}

Source(f) == [i \in 1..Size[f] |-> i]
Whole(f) == disk[f] = Source(f)

TypeOK ==
    /\ disk \in [Files -> Seq(Nat)]
    /\ \A f \in Files : \A i \in 1..Len(disk[f]) : disk[f][i] \in 1..Size[f]
    /\ saved \in Checkpoints /\ chk \in Checkpoints
    /\ phase \in Phases
    /\ opts \in Options \cup {None}
    /\ spawned \in 0..Len(Items)
    /\ at \in [Files -> Places]
    /\ attempt \in [Files -> 1..MaxAttempts]
    /\ pos \in [Files -> Nat \ {0}]
    /\ exported \in [Files -> Seq(Nat)] \cup {None}
    /\ removed \subseteq Files
    /\ runs \in 0..MaxRuns

(* The process has nothing in memory between two exports. *)
Init ==
    /\ disk = [f \in Files |-> <<>>]
    /\ saved = None /\ phase = "idle" /\ opts = None /\ chk = None
    /\ spawned = 0
    /\ at = [f \in Files |-> "unspawned"]
    /\ attempt = [f \in Files |-> 1]
    /\ pos = [f \in Files |-> 1]
    /\ exported = None /\ removed = {} /\ runs = 0

-----------------------------------------------------------------------------
(* ExportOVF starts on the directory, and loads or makes its checkpoint. *)
NewCheckpoint == [f \in Files |-> "absent"]

(* What LoadCheckpoint may give; when it fails the export starts fresh. *)
Loadable(o) == IF o.resume /\ saved # None THEN {saved} ELSE {}

StartExport(o) ==
    /\ phase = "idle" /\ runs < MaxRuns
    /\ phase' = "leasing" /\ runs' = runs + 1 /\ opts' = o
    /\ IF o.checkpoints THEN chk' \in {NewCheckpoint} \cup Loadable(o) ELSE chk' = None
    /\ UNCHANGED <<disk, saved, download, exported, removed>>

(* The OVF descriptor and the export lease: any of them may fail. *)
LeaseReady ==
    /\ phase = "leasing" /\ phase' = "initial"
    /\ UNCHANGED <<disk, saved, opts, chk, download, exported, removed, runs>>

LeaseFails ==
    /\ phase \in {"leasing", "completing"} /\ phase' = "failed"
    /\ UNCHANGED <<disk, saved, opts, chk, download, exported, removed, runs>>

(* AddFile for the files the checkpoint does not know, then the first save, *)
(* whose failure is only logged.                                            *)
InitCheckpoint ==
    /\ phase = "initial"
    /\ phase' = "downloading"
    /\ IF chk = None THEN UNCHANGED <<chk, saved>>
       ELSE /\ chk' = [f \in Files |-> IF chk[f] = "absent" THEN "pending" ELSE chk[f]]
            /\ saved' \in {saved, chk'}
    /\ UNCHANGED <<disk, opts, download, exported, removed, runs>>

-----------------------------------------------------------------------------
(* The goroutines. *)
Active == {f \in Files : at[f] \in Working}

(* sem <- struct{}{}; go func *)
Spawn ==
    /\ phase = "downloading" /\ spawned < Len(Items)
    /\ Cardinality(Active) < Concurrency
    /\ spawned' = spawned + 1
    /\ at' = [at EXCEPT ![Items[spawned + 1]] = "check"]
    /\ UNCHANGED <<disk, saved, phase, opts, chk, attempt, pos, exported, removed, runs>>

Goto(f, from, to) == at[f] = from /\ at' = [at EXCEPT ![f] = to]

(* checkpointMux is held from an update to the end of its save; without a   *)
(* checkpoint nobody takes it.                                              *)
MuxFree == chk = None \/ \A g \in Files : at[g] # "save"

Completed(f) == chk # None /\ chk[f] = "completed"

(* Mutant: the checkpoint is believed without a look at the disk. *)
SkippableUnverified(f) == Completed(f)

(* Marked completed in the checkpoint, and the file has the right size. *)
Skippable(f) == Completed(f) /\ Len(disk[f]) = Size[f]

Skip(f) ==
    /\ MuxFree /\ Skippable(f) /\ Goto(f, "check", "ok")
    /\ UNCHANGED <<control, disk, saved, chk, attempt, pos>>

BeginDownload(f) ==
    /\ MuxFree /\ ~Skippable(f) /\ Goto(f, "check", "request")
    /\ UNCHANGED <<control, disk, saved, chk, attempt, pos>>

(* MkdirAll fails: the checkpoint is not told. *)
MkdirFails(f) ==
    /\ MuxFree /\ ~Skippable(f) /\ Goto(f, "check", "failed")
    /\ UNCHANGED <<control, disk, saved, chk, attempt, pos>>

startPos(f) == Len(disk[f])

(* Mutant: the Range header asks for one byte the disk already holds. *)
BodyStartOverlap(f) == IF startPos(f) > 0 THEN startPos(f) ELSE 1

(* Where the body of the answer starts: a request with startPos > 0 has a  *)
(* Range header, which the host honours (206) or ignores (200, everything). *)
BodyStart(f) == IF HonoursRange THEN startPos(f) + 1 ELSE 1

(* A range that starts at the end of the file is refused (416). *)
Satisfiable(f) == HonoursRange => startPos(f) < Size[f]

(* Mutant: the file is always opened with O_TRUNC. *)
OpenedTruncated(f) == <<>>

(* What the open does to the file: O_APPEND when something is there, and  *)
(* O_TRUNC of an empty file otherwise.                                     *)
Opened(f) == disk[f]

RequestAccepted(f) ==
    /\ Satisfiable(f) /\ Goto(f, "request", "copy")
    /\ pos' = [pos EXCEPT ![f] = BodyStart(f)]
    /\ disk' = [disk EXCEPT ![f] = Opened(f)]
    /\ UNCHANGED <<control, saved, chk, attempt>>

(* Unreachable, refused for another reason, or cancelled; the file was opened. *)
RequestFails(f) ==
    /\ Goto(f, "request", "broken")
    /\ disk' = [disk EXCEPT ![f] = Opened(f)]
    /\ UNCHANGED <<control, saved, chk, attempt, pos>>

(* io.Copy writes a chunk (one unit), meets an error, or meets the end. *)
CopyChunk(f) ==
    /\ at[f] = "copy" /\ pos[f] <= Size[f]
    /\ disk' = [disk EXCEPT ![f] = Append(@, pos[f])]
    /\ pos' = [pos EXCEPT ![f] = @ + 1]
    /\ UNCHANGED <<control, saved, chk, at, attempt>>

CopyBreaks(f) ==
    /\ pos[f] <= Size[f] /\ Goto(f, "copy", "broken")
    /\ UNCHANGED <<control, disk, saved, chk, attempt, pos>>

CopyEnds(f) ==
    /\ pos[f] > Size[f] /\ Goto(f, "copy", "mark")
    /\ UNCHANGED <<control, disk, saved, chk, attempt, pos>>

(* DoWithResult tries again, from what the disk then holds ... *)
Retry(f) ==
    /\ attempt[f] < MaxAttempts /\ Goto(f, "broken", "request")
    /\ attempt' = [attempt EXCEPT ![f] = @ + 1]
    /\ UNCHANGED <<control, disk, saved, chk, pos>>

(* Mutant: the failing goroutine returns without giving back its slot. *)
GiveUpLeaks(f) ==
    /\ at[f] = "broken" /\ chk # None /\ MuxFree
    /\ chk' = [chk EXCEPT ![f] = "failed"] /\ UNCHANGED at
    /\ UNCHANGED <<control, disk, saved, attempt, pos>>

(* ... or gives up: attempts exhausted, not retryable, or cancelled. *)
GiveUp(f) ==
    /\ MuxFree /\ Goto(f, "broken", "failed")
    /\ chk' = IF chk = None THEN None ELSE [chk EXCEPT ![f] = "failed"]
    /\ UNCHANGED <<control, disk, saved, attempt, pos>>

(* Status completed; the interval decides whether this update is saved. *)
MarkCompleted(f) ==
    /\ at[f] = "mark"
    /\ IF chk = None THEN Goto(f, "mark", "ok") /\ UNCHANGED chk
       ELSE /\ MuxFree
            /\ chk' = [chk EXCEPT ![f] = "completed"]
            /\ \E shouldSave \in BOOLEAN :
                  /\ opts.everyFile => shouldSave
                  /\ Goto(f, "mark", IF shouldSave THEN "save" ELSE "ok")
    /\ UNCHANGED <<control, disk, saved, attempt, pos>>

(* Mutant: the save writes every started file as completed. *)
SaveCheckpointEager(f) ==
    /\ Goto(f, "save", "ok")
    /\ saved' = [g \in Files |-> IF at[g] \in Working THEN "completed" ELSE chk[g]]
    /\ UNCHANGED <<control, disk, chk, attempt, pos>>

(* The save under the lock; a failure is logged and the download counts. *)
SaveCheckpoint(f) ==
    /\ Goto(f, "save", "ok")
    /\ saved' \in {chk, saved}
    /\ UNCHANGED <<control, disk, chk, attempt, pos>>

-----------------------------------------------------------------------------
(* wg.Wait, then the errors are collected. *)
Finished == spawned = Len(Items) /\ Active = {}

DownloadsEnd ==
    /\ phase = "downloading" /\ Finished
    /\ phase' = IF \E f \in Files : at[f] = "failed" THEN "failed" ELSE "completing"
    /\ UNCHANGED <<disk, saved, opts, chk, download, exported, removed, runs>>

(* lease.Complete, then CreateOVA reads the files of the directory. *)
CompleteLease ==
    /\ phase = "completing"
    /\ phase' = IF opts.cleanup THEN "cleanup" ELSE "deleting"
    /\ exported' = disk
    /\ UNCHANGED <<disk, saved, opts, chk, download, removed, runs>>

(* CleanupOVF removes the files; a failed remove is only logged. *)
Remove(f) ==
    /\ phase = "cleanup" /\ disk[f] # <<>>
    /\ disk' = [disk EXCEPT ![f] = <<>>]
    /\ removed' = removed \cup {f}
    /\ UNCHANGED <<saved, phase, opts, chk, download, exported, runs>>

CleanupEnds ==
    /\ phase = "cleanup" /\ phase' = "deleting"
    /\ UNCHANGED <<disk, saved, opts, chk, download, exported, removed, runs>>

(* The export succeeded; a checkpoint that cannot be deleted stays. *)
DeleteCheckpoint ==
    /\ phase = "deleting" /\ phase' = "done"
    /\ IF chk = None THEN UNCHANGED saved ELSE saved' \in {None, saved}
    /\ UNCHANGED <<disk, opts, chk, download, exported, removed, runs>>

-----------------------------------------------------------------------------
(* The memory of the export is gone: it returned, or the process died. *)
Forget ==
    /\ phase' = "idle" /\ opts' = None /\ chk' = None /\ spawned' = 0
    /\ at' = [f \in Files |-> "unspawned"]
    /\ attempt' = [f \in Files |-> 1]
    /\ pos' = [f \in Files |-> 1]
    /\ exported' = None
    /\ UNCHANGED <<disk, saved, removed, runs>>

Return == phase \in {"done", "failed"} /\ Forget
Crash == phase \notin {"idle", "done", "failed"} /\ Forget

Goroutine(f) ==
    \/ Skip(f) \/ BeginDownload(f) \/ MkdirFails(f)
    \/ RequestAccepted(f) \/ RequestFails(f)
    \/ CopyChunk(f) \/ CopyBreaks(f) \/ CopyEnds(f)
    \/ Retry(f) \/ GiveUp(f) \/ MarkCompleted(f) \/ SaveCheckpoint(f)

ExportOVF ==
    \/ LeaseReady \/ LeaseFails \/ InitCheckpoint \/ Spawn
    \/ DownloadsEnd \/ CompleteLease \/ CleanupEnds \/ DeleteCheckpoint
    \/ \E f \in Files : Remove(f)

Next ==
    \/ \E o \in Options : StartExport(o)
    \/ ExportOVF
    \/ \E f \in Files : Goroutine(f)
    \/ Return \/ Crash

Spec == Init /\ [][Next]_vars

(* The goroutines and ExportOVF keep running; every request is answered or  *)
(* fails and every body ends or breaks, since they carry the context.       *)
FairSpec == Spec /\ WF_vars(ExportOVF) /\ \A f \in Files : WF_vars(Goroutine(f))

-----------------------------------------------------------------------------
(* What is on the disk is always the beginning of the source: no byte is    *)
(* lost, doubled or out of place, whatever broke before (802-838).          *)
PrefixOnDisk ==
    \A f \in Files : /\ Len(disk[f]) <= Size[f]
                     /\ \A i \in 1..Len(disk[f]) : disk[f][i] = i

(* An export that reports success packaged every file whole, the skipped    *)
(* ones too (615-635, 719-730).                                             *)
SuccessIsWhole == phase = "done" => \A f \in Files : exported[f] = Source(f)

(* At no time does the checkpoint on disk call a file completed that is not *)
(* whole there, so a crash at any point loses no file (684-708); only a     *)
(* file an export has cleaned up may be gone.                               *)
CheckpointNotAhead ==
    saved # None =>
        \A f \in Files \ removed : saved[f] = "completed" => Whole(f)

(* "not a restart from zero" (README.md:54): bytes on disk are kept through *)
(* retries, failures, crashes and new runs, until the cleanup.              *)
BytesKept ==
    [][\A f \in Files : Len(disk'[f]) >= Len(disk[f]) \/ f \in removed']_vars

(* ExportOVF implements the contract its callers rely on: through retries,  *)
(* failures and crashes no file on disk shrinks before all were whole, and  *)
(* success and cleanup come only after that (366-395).                      *)
Amount(f) == IF disk[f] = <<>> THEN "none" ELSE IF Whole(f) THEN "whole" ELSE "part"

Contract == INSTANCE ExportContract WITH
    Cleans   <- TRUE,
    dir      <- [f \in Files |-> Amount(f)],
    packaged <- phase \in {"cleanup", "deleting", "done"},
    call     <- IF phase \in {"idle", "done", "failed"} THEN phase ELSE "running"

ImplementsContract == Contract!ContractSpec

(* Every export ends or dies: no goroutine waits for a slot, the lock or    *)
(* the wait group for ever.                                                 *)
ExportEnds == (phase # "idle") ~> (phase \in {"idle", "done", "failed"})
=============================================================================
