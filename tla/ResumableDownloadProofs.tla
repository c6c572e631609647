---------------------- MODULE ResumableDownloadProofs ----------------------
(***************************************************************************)
(* Proofs about the resumable export, for any files, sizes, number of      *)
(* parallel downloads, attempts and runs.                                  *)
(*                                                                         *)
(* What the properties need beyond themselves: a transfer delivers exactly *)
(* the offset that the disk lacks (Aligned), a goroutine that is past its  *)
(* transfer leaves a whole file (Delivered), nothing is being transferred  *)
(* outside the downloading phase (Quiescent), every goroutine was awaited  *)
(* (Awaited), and the checkpoint in memory is right (MemoryNotAhead).  With*)
(* them ExportOVF is shown to implement ExportContract.                    *)
(***************************************************************************)
EXTENDS ResumableDownload, TLAPS

Aligned == \A f \in Files : at[f] = "copy" => pos[f] = Len(disk[f]) + 1

Packaging == {"cleanup", "deleting", "done"}

Delivered ==
    \A f \in Files :
        /\ at[f] \in {"mark", "save"} => Whole(f)
        /\ at[f] = "ok" /\ phase \notin Packaging => Whole(f)

Quiescent == phase # "downloading" => \A f \in Files : at[f] \notin Working

Awaited ==
    /\ \A i \in 1..spawned : at[Items[i]] # "unspawned"
    /\ phase \in Packaging \cup {"completing"} => \A f \in Files : at[f] = "ok"

Packaged == phase \in Packaging => \A f \in Files : exported[f] = Source(f)

MemoryNotAhead ==
    chk # None => \A f \in Files \ removed : chk[f] = "completed" => Whole(f)

Inv == /\ TypeOK /\ PrefixOnDisk /\ Aligned /\ Delivered /\ Quiescent
       /\ Awaited /\ Packaged /\ MemoryNotAhead /\ CheckpointNotAhead

-----------------------------------------------------------------------------
(* A file of the right length whose bytes are in place is the source: what *)
(* the size check of a skipped file (615-618) relies on.                   *)
LEMMA PrefixIsSource ==
    ASSUME NEW f \in Files, disk \in [Files -> Seq(Nat)],
           Len(disk[f]) = Size[f],
           \A i \in 1..Len(disk[f]) : disk[f][i] = i
    PROVE  Whole(f)
<1>1. disk[f] \in Seq(Nat) OBVIOUS
<1>2. DOMAIN disk[f] = 1..Size[f] BY <1>1
<1>3. disk[f] = [i \in 1..Len(disk[f]) |-> disk[f][i]] BY <1>1
<1> QED BY <1>2, <1>3 DEF Whole, Source

(* The constants' assumptions in the form the steps use. *)
LEMMA Constants ==
    /\ Len(Items) \in Nat
    /\ \A i \in 1..Len(Items) : Items[i] \in Files
    /\ \A f \in Files : Size[f] \in Nat /\ Size[f] > 0
    /\ MaxAttempts \in Nat /\ MaxAttempts > 0 /\ MaxRuns \in Nat
    /\ None \notin Options
BY ItemsDistinct, SizeType, BoundsType DEF Files

(* The initial state is of the right types. *)
LEMMA InitType == Init => TypeOK
BY Constants DEF Init, TypeOK, Checkpoints, Phases, Places, Working

(* Type correctness is inductive by itself, whatever the host answers. *)
LEMMA StepType == TypeOK /\ [Next]_vars => TypeOK'
<1> SUFFICES ASSUME TypeOK, [Next]_vars PROVE TypeOK'
  OBVIOUS
<1> USE Constants DEF TypeOK
<1>1. CASE \E o \in Options : StartExport(o)
  BY <1>1 DEF StartExport, Checkpoints, Phases, NewCheckpoint, Statuses, Loadable, download
<1>2. CASE ExportOVF
  <2>1. CASE LeaseReady BY <2>1 DEF LeaseReady, Phases, download
  <2>2. CASE LeaseFails BY <2>2 DEF LeaseFails, Phases, download
  <2>3. CASE InitCheckpoint
    BY <2>3 DEF InitCheckpoint, Phases, Checkpoints, Statuses, download
  <2>4. CASE Spawn BY <2>4 DEF Spawn, Places, Working
  <2>5. CASE DownloadsEnd BY <2>5 DEF DownloadsEnd, Phases, download
  <2>6. CASE CompleteLease BY <2>6 DEF CompleteLease, Phases, download
  <2>7. CASE CleanupEnds BY <2>7 DEF CleanupEnds, Phases, download
  <2>8. CASE DeleteCheckpoint
    BY <2>8 DEF DeleteCheckpoint, Phases, Checkpoints, download
  <2>9. CASE \E f \in Files : Remove(f) BY <2>9 DEF Remove, download
  <2> QED BY <1>2, <2>1, <2>2, <2>3, <2>4, <2>5, <2>6, <2>7, <2>8, <2>9 DEF ExportOVF
<1>3. CASE \E f \in Files : Goroutine(f)
  <2> PICK f \in Files : Goroutine(f) BY <1>3
  <2> USE DEF control, Goto, Places, Working
  <2>1. CASE Skip(f) \/ BeginDownload(f) \/ MkdirFails(f)
    BY <2>1 DEF Skip, BeginDownload, MkdirFails
  <2>2. CASE RequestAccepted(f)
    BY <2>2 DEF RequestAccepted, Opened, BodyStart, startPos
  <2>3. CASE RequestFails(f) BY <2>3 DEF RequestFails, Opened
  <2>4. CASE CopyChunk(f) BY <2>4 DEF CopyChunk
  <2>5. CASE CopyBreaks(f) \/ CopyEnds(f) BY <2>5 DEF CopyBreaks, CopyEnds
  <2>6. CASE Retry(f) BY <2>6 DEF Retry
  <2>7. CASE GiveUp(f) BY <2>7 DEF GiveUp, Checkpoints, Statuses
  <2>8. CASE MarkCompleted(f)
    <3>1. at' \in [Files -> Places] BY <2>8 DEF MarkCompleted
    <3>2. chk' \in Checkpoints BY <2>8 DEF MarkCompleted, Checkpoints, Statuses
    <3> QED BY <2>8, <3>1, <3>2 DEF MarkCompleted
  <2>9. CASE SaveCheckpoint(f) BY <2>9 DEF SaveCheckpoint
  <2> QED BY <2>1, <2>2, <2>3, <2>4, <2>5, <2>6, <2>7, <2>8, <2>9 DEF Goroutine
<1>4. CASE Return \/ Crash
  <2>1. Forget BY <1>4 DEF Return, Crash
  <2>2. phase' \in Phases /\ chk' \in Checkpoints /\ at' \in [Files -> Places]
    BY <2>1 DEF Forget, Phases, Checkpoints, Places
  <2>3. /\ attempt' \in [Files -> 1..MaxAttempts] /\ pos' \in [Files -> Nat \ {0}]
        /\ spawned' \in 0..Len(Items)
    BY <2>1 DEF Forget
  <2> QED BY <2>1, <2>2, <2>3 DEF Forget
<1>5. CASE UNCHANGED vars
  BY <1>5 DEF vars
<1> QED BY <1>1, <1>2, <1>3, <1>4, <1>5 DEF Next

(* Type correctness of the export. *)
THEOREM TypeSafe == Spec => []TypeOK
BY InitType, StepType, PTL DEF Spec

-----------------------------------------------------------------------------
(* The initial state satisfies the invariant. *)
LEMMA InitInv == Init => Inv
<1> SUFFICES ASSUME Init PROVE Inv
  OBVIOUS
<1>1. TypeOK BY InitType
<1>2. PrefixOnDisk BY Constants DEF Init, PrefixOnDisk
<1> QED BY <1>1, <1>2 DEF Init, Inv, Aligned, Delivered, Quiescent, Awaited, Packaging,
           Packaged, MemoryNotAhead, CheckpointNotAhead, Working

(* ExportOVF's own steps keep the invariant. *)
LEMMA ExportInv == Inv /\ TypeOK' /\ ExportOVF => Inv'
<1> SUFFICES ASSUME Inv, TypeOK', ExportOVF PROVE Inv'
  OBVIOUS
<1> USE Constants DEF Inv, TypeOK, PrefixOnDisk, Aligned, Delivered, Quiescent, Awaited,
        Packaging, Packaged, MemoryNotAhead, CheckpointNotAhead, Whole
<1>1. CASE LeaseReady BY <1>1 DEF LeaseReady, download
<1>2. CASE LeaseFails BY <1>2 DEF LeaseFails, download
<1>3. CASE InitCheckpoint BY <1>3 DEF InitCheckpoint, download, Working
<1>4. CASE Spawn BY <1>4 DEF Spawn, Working
<1>5. CASE DownloadsEnd
  <2>1. spawned = Len(Items) /\ \A f \in Files : at[f] \notin Working
    BY <1>5 DEF DownloadsEnd, Finished, Active
  <2>2. \A f \in Files : at[f] # "unspawned" BY <2>1 DEF Files
  <2>3. phase' = "failed" \/ \A f \in Files : at[f] = "ok"
    BY <1>5, <2>1, <2>2 DEF DownloadsEnd, Places
  <2>4. phase = "downloading" /\ phase' \in {"failed", "completing"}
        /\ UNCHANGED <<disk, saved, chk, download, exported, removed>>
    BY <1>5 DEF DownloadsEnd
  <2> QED BY <2>1, <2>3, <2>4 DEF download
<1>6. CASE CompleteLease BY <1>6 DEF CompleteLease, download, Source
<1>7. CASE CleanupEnds BY <1>7 DEF CleanupEnds, download
<1>8. CASE DeleteCheckpoint BY <1>8 DEF DeleteCheckpoint, download
<1>9. CASE \E f \in Files : Remove(f) BY <1>9 DEF Remove, download, Working
<1> QED BY <1>1, <1>2, <1>3, <1>4, <1>5, <1>6, <1>7, <1>8, <1>9 DEF ExportOVF

(* The steps of a goroutine keep it, given a host that honours ranges. *)
LEMMA GoroutineInv ==
    ASSUME NEW f \in Files, HonoursRange, Inv, TypeOK', Goroutine(f)
    PROVE  Inv'
<1> USE Constants DEF Inv, TypeOK, control, Goto, Working
<1>0. /\ phase = "downloading" /\ phase' = phase /\ spawned' = spawned
      /\ removed' = removed /\ exported' = exported
  BY DEF Goroutine, Quiescent, Skip, BeginDownload, MkdirFails, RequestAccepted,
         RequestFails, CopyChunk, CopyBreaks, CopyEnds, Retry, GiveUp, MarkCompleted,
         SaveCheckpoint
<1>1. Quiescent' /\ Packaged' BY <1>0 DEF Quiescent, Packaged, Packaging
<1>2. ASSUME NEW to \in Places \ {"unspawned", "copy", "mark", "save", "ok"},
             at' = [at EXCEPT ![f] = to],
             UNCHANGED <<disk, saved, pos>>,
             chk' = chk \/ (chk # None /\ chk' = [chk EXCEPT ![f] = "failed"])
      PROVE  Inv'
  <2>1. PrefixOnDisk' /\ Aligned'
    BY <1>2 DEF PrefixOnDisk, Aligned
  <2>2. Delivered' BY <1>0, <1>2 DEF Delivered, Whole
  <2>3. Awaited' BY <1>0, <1>2 DEF Awaited, Packaging
  <2>4. MemoryNotAhead' /\ CheckpointNotAhead'
    BY <1>0, <1>2 DEF MemoryNotAhead, CheckpointNotAhead, Whole, Checkpoints
  <2> QED BY <1>1, <2>1, <2>2, <2>3, <2>4
<1>3. ASSUME NEW to \in {"mark", "save", "ok"}, Whole(f),
             at' = [at EXCEPT ![f] = to],
             UNCHANGED <<disk, pos>>,
             saved' \in {saved, chk},
             chk' = chk \/ (chk # None /\ chk' = [chk EXCEPT ![f] = "completed"])
      PROVE  Inv'
  <2>1. PrefixOnDisk' /\ Aligned'
    BY <1>3 DEF PrefixOnDisk, Aligned
  <2>2. Delivered' BY <1>0, <1>3 DEF Delivered, Whole
  <2>3. Awaited' BY <1>0, <1>3 DEF Awaited, Packaging
  <2>4. MemoryNotAhead' /\ CheckpointNotAhead'
    BY <1>0, <1>3 DEF MemoryNotAhead, CheckpointNotAhead, Whole, Checkpoints
  <2> QED BY <1>1, <2>1, <2>2, <2>3, <2>4
<1>4. CASE Skip(f)
  <2>1. Whole(f) BY <1>4, PrefixIsSource DEF Skip, Skippable, PrefixOnDisk
  <2> QED BY <1>3, <1>4, <2>1 DEF Skip
<1>5. CASE BeginDownload(f) \/ MkdirFails(f)
  BY <1>2, <1>5 DEF BeginDownload, MkdirFails, Places
<1>6. CASE RequestAccepted(f)
  <2>1. disk' = disk BY <1>6 DEF RequestAccepted, Opened
  <2>2. pos' = [pos EXCEPT ![f] = Len(disk[f]) + 1] /\ at' = [at EXCEPT ![f] = "copy"]
    BY <1>6 DEF RequestAccepted, BodyStart, startPos
  <2>3. saved' = saved /\ chk' = chk BY <1>6 DEF RequestAccepted
  <2>4. PrefixOnDisk' BY <2>1 DEF PrefixOnDisk
  <2>5. Aligned' BY <2>1, <2>2 DEF Aligned
  <2>6. Delivered' BY <1>0, <2>1, <2>2 DEF Delivered, Whole
  <2>7. Awaited' BY <1>0, <2>2 DEF Awaited, Packaging
  <2>8. MemoryNotAhead' /\ CheckpointNotAhead'
    BY <1>0, <2>1, <2>3 DEF MemoryNotAhead, CheckpointNotAhead, Whole
  <2> QED BY <1>1, <2>4, <2>5, <2>6, <2>7, <2>8
<1>7. CASE RequestFails(f)
  <2>1. disk' = disk BY <1>7 DEF RequestFails, Opened
  <2> QED BY <1>2, <1>7, <2>1 DEF RequestFails, Places
<1>8. CASE CopyChunk(f)
  <2>1. PrefixOnDisk' /\ Aligned' BY <1>8 DEF CopyChunk, PrefixOnDisk, Aligned
  <2>2. ~Whole(f) BY <1>8 DEF CopyChunk, Whole, Source, Aligned
  <2>3. \A g \in Files : Whole(g) => Whole(g)' BY <1>8, <2>2 DEF CopyChunk, Whole
  <2>4. Delivered' BY <1>0, <1>8, <2>3 DEF CopyChunk, Delivered
  <2>5. Awaited' BY <1>0, <1>8 DEF CopyChunk, Awaited, Packaging
  <2>6. MemoryNotAhead' /\ CheckpointNotAhead'
    BY <1>0, <1>8, <2>3 DEF CopyChunk, MemoryNotAhead, CheckpointNotAhead
  <2> QED BY <1>1, <2>1, <2>4, <2>5, <2>6
<1>9. CASE CopyBreaks(f) BY <1>2, <1>9 DEF CopyBreaks, Places
<1>10. CASE CopyEnds(f)
  <2>1. Len(disk[f]) = Size[f] BY <1>10 DEF CopyEnds, Aligned, PrefixOnDisk
  <2>2. Whole(f) BY <2>1, PrefixIsSource DEF PrefixOnDisk
  <2> QED BY <1>3, <1>10, <2>2 DEF CopyEnds
<1>11. CASE Retry(f) BY <1>2, <1>11 DEF Retry, Places
<1>12. CASE GiveUp(f) BY <1>2, <1>12 DEF GiveUp, Places
<1>13. CASE MarkCompleted(f)
  <2>1. Whole(f) BY <1>13 DEF MarkCompleted, Delivered
  <2> QED BY <1>3, <1>13, <2>1 DEF MarkCompleted
<1>14. CASE SaveCheckpoint(f)
  <2>1. Whole(f) BY <1>14 DEF SaveCheckpoint, Delivered
  <2> QED BY <1>3, <1>14, <2>1 DEF SaveCheckpoint
<1> QED BY <1>4, <1>5, <1>6, <1>7, <1>8, <1>9, <1>10, <1>11, <1>12, <1>13, <1>14
        DEF Goroutine

(* The start of an export and its end, by return or crash, keep it. *)
LEMMA BoundaryInv ==
    Inv /\ TypeOK' /\ ((\E o \in Options : StartExport(o)) \/ Return \/ Crash) => Inv'
<1> SUFFICES ASSUME Inv, TypeOK', (\E o \in Options : StartExport(o)) \/ Return \/ Crash
             PROVE  Inv'
  OBVIOUS
<1> USE Constants DEF Inv, TypeOK, PrefixOnDisk, Aligned, Delivered, Quiescent, Awaited,
        Packaging, Packaged, MemoryNotAhead, CheckpointNotAhead, Whole, Working
<1>1. CASE \E o \in Options : StartExport(o)
  BY <1>1 DEF StartExport, NewCheckpoint, Loadable, download
<1>2. CASE Return \/ Crash
  BY <1>2 DEF Return, Crash, Forget
<1> QED BY <1>1, <1>2

(* Every step keeps the invariant. *)
LEMMA StepInv ==
    ASSUME HonoursRange PROVE Inv /\ [Next]_vars => Inv'
<1> SUFFICES ASSUME Inv, [Next]_vars PROVE Inv'
  OBVIOUS
<1>0. TypeOK' BY StepType DEF Inv
<1>1. CASE ExportOVF BY <1>0, <1>1, ExportInv
<1>2. CASE \E f \in Files : Goroutine(f) BY <1>0, <1>2, GoroutineInv
<1>3. CASE (\E o \in Options : StartExport(o)) \/ Return \/ Crash
  BY <1>0, <1>3, BoundaryInv
<1>4. CASE UNCHANGED vars
  BY <1>0, <1>4 DEF vars, Inv, PrefixOnDisk, Aligned, Delivered, Quiescent, Awaited,
     Packaging, Packaged, MemoryNotAhead, CheckpointNotAhead, Whole
<1> QED BY <1>1, <1>2, <1>3, <1>4 DEF Next

(* No step but the removal of a packaged file shortens what is on disk. *)
LEMMA StepKeeps ==
    ASSUME TypeOK, TypeOK', [Next]_vars, NEW f \in Files
    PROVE  Len(disk'[f]) >= Len(disk[f]) \/ f \in removed'
<1> USE DEF TypeOK
<1>1. CASE UNCHANGED disk BY <1>1
<1>2. CASE \E g \in Files : Remove(g) BY <1>2 DEF Remove
<1>3. CASE \E g \in Files : CopyChunk(g) BY <1>3 DEF CopyChunk
<1>4. CASE \E g \in Files : RequestAccepted(g) \/ RequestFails(g)
  <2> PICK g \in Files : RequestAccepted(g) \/ RequestFails(g) BY <1>4
  <2>1. disk' = [disk EXCEPT ![g] = disk[g]] BY DEF RequestAccepted, RequestFails, Opened
  <2>2. disk' = disk BY <2>1
  <2> QED BY <1>1, <2>2
<1>5. CASE ExportOVF
  BY <1>1, <1>2, <1>5
     DEF ExportOVF, LeaseReady, LeaseFails, InitCheckpoint, Spawn, DownloadsEnd,
         CompleteLease, CleanupEnds, DeleteCheckpoint
<1>6. CASE \E g \in Files : Goroutine(g)
  <2> PICK g \in Files : Goroutine(g) BY <1>6
  <2>1. CASE \/ Skip(g) \/ BeginDownload(g) \/ MkdirFails(g) \/ CopyBreaks(g)
             \/ CopyEnds(g) \/ Retry(g) \/ GiveUp(g) \/ MarkCompleted(g)
             \/ SaveCheckpoint(g)
    BY <1>1, <2>1 DEF Skip, BeginDownload, MkdirFails, CopyBreaks, CopyEnds, Retry,
                      GiveUp, MarkCompleted, SaveCheckpoint
  <2> QED BY <1>3, <1>4, <2>1 DEF Goroutine
<1>7. CASE (\E o \in Options : StartExport(o)) \/ Return \/ Crash \/ UNCHANGED vars
  BY <1>1, <1>7 DEF StartExport, Return, Crash, Forget, vars
<1> QED BY <1>5, <1>6, <1>7 DEF Next

-----------------------------------------------------------------------------
(* The invariant holds in every reachable state, if the host answers a      *)
(* request for a range with that range.                                     *)
THEOREM InvSafe == ASSUME HonoursRange PROVE Spec => []Inv
<1>1. Inv /\ [Next]_vars => Inv' BY StepInv
<1> QED BY <1>1, InitInv, PTL DEF Spec

(* What is on disk is always the beginning of the source (802-838). *)
THEOREM PrefixSafe == ASSUME HonoursRange PROVE Spec => []PrefixOnDisk
<1>1. Spec => []Inv BY InvSafe
<1>2. Inv => PrefixOnDisk BY DEF Inv
<1> QED BY <1>1, <1>2, PTL

(* A successful export packaged every file whole (615-635, 719-730). *)
THEOREM SuccessSafe == ASSUME HonoursRange PROVE Spec => []SuccessIsWhole
<1>1. Spec => []Inv BY InvSafe
<1>2. Inv => SuccessIsWhole BY DEF Inv, Packaged, Packaging, SuccessIsWhole
<1> QED BY <1>1, <1>2, PTL

(* The checkpoint on disk is never ahead of the files (684-708). *)
THEOREM CheckpointSafe == ASSUME HonoursRange PROVE Spec => []CheckpointNotAhead
<1>1. Spec => []Inv BY InvSafe
<1>2. Inv => CheckpointNotAhead BY DEF Inv
<1> QED BY <1>1, <1>2, PTL

(* No retry, failure, crash or new run shortens a file, whatever the host   *)
(* answers (825-838).                                                       *)
THEOREM BytesSafe == Spec => BytesKept
<1> DEFINE Keeps == \A f \in Files : Len(disk'[f]) >= Len(disk[f]) \/ f \in removed'
<1>1. TypeOK /\ TypeOK' /\ [Next]_vars => [Keeps]_vars
  <2> SUFFICES ASSUME TypeOK, TypeOK', [Next]_vars PROVE Keeps
    OBVIOUS
  <2> QED BY StepKeeps
<1>2. Spec => [][Keeps]_vars BY <1>1, TypeSafe, PTL DEF Spec
<1> QED BY <1>2 DEF BytesKept

-----------------------------------------------------------------------------
(* What the contract of ExportOVF sees of a state. *)
Held == [f \in Files |-> Amount(f)]
IsPackaged == phase \in Packaging
CallIs == IF phase \in {"idle", "done", "failed"} THEN phase ELSE "running"

(* The contract, written out for this state. *)
LEMMA Seen ==
    /\ Contract!contractVars = <<Held, IsPackaged, CallIs>>
    /\ Contract!contractVars' = <<Held', IsPackaged', CallIs'>>
BY DEF Contract!contractVars, Held, IsPackaged, CallIs, Packaging

(* A whole file is seen as whole, since no file is empty. *)
LEMMA AmountOfWhole ==
    ASSUME TypeOK, NEW f \in Files
    PROVE  /\ Whole(f) <=> Amount(f) = "whole"
           /\ Amount(f) \in {"none", "part", "whole"}
<1>1. Source(f) # <<>>
  <2>1. 1 \in DOMAIN Source(f) BY Constants DEF Source
  <2> QED BY <2>1
<1> QED BY <1>1 DEF Whole, Amount

(* What the disk holds is what is seen of it. *)
LEMMA SameDisk == UNCHANGED disk => UNCHANGED Held
BY DEF Held, Amount, Whole

(* No file, no call. *)
LEMMA InitContract == Init => Contract!ContractInit
BY DEF Init, Contract!ContractInit, Amount

(* Every step of the export is a step of the contract, or none. *)
LEMMA StepContract ==
    Inv /\ Inv' /\ [Next]_vars => [Contract!ContractNext]_Contract!contractVars
<1> SUFFICES ASSUME Inv, Inv', [Next]_vars
             PROVE  Contract!ContractNext \/ UNCHANGED <<Held, IsPackaged, CallIs>>
  BY Seen
<1> USE DEF Inv, Packaging, IsPackaged, CallIs
<1>1. CASE \E o \in Options : StartExport(o)
  <2>1. Contract!Begin BY <1>1, SameDisk DEF StartExport, Contract!Begin, Held
  <2> QED BY <2>1 DEF Contract!ContractNext
<1>2. CASE LeaseReady \/ InitCheckpoint \/ Spawn \/ CleanupEnds
  BY <1>2, SameDisk DEF LeaseReady, InitCheckpoint, Spawn, CleanupEnds
<1>3. CASE LeaseFails
  <2>1. Contract!Fail BY <1>3, SameDisk DEF LeaseFails, Contract!Fail, Held
  <2> QED BY <2>1 DEF Contract!ContractNext, Contract!Working
<1>4. CASE DownloadsEnd
  <2>1. CASE phase' = "completing" BY <1>4, <2>1, SameDisk DEF DownloadsEnd
  <2>2. CASE phase' = "failed"
    <3>1. Contract!Fail BY <1>4, <2>2, SameDisk DEF DownloadsEnd, Contract!Fail, Held
    <3> QED BY <3>1 DEF Contract!ContractNext, Contract!Working
  <2> QED BY <1>4, <2>1, <2>2 DEF DownloadsEnd
<1>5. CASE CompleteLease
  <2>1. \A f \in Files : Amount(f) = "whole"
    BY <1>5, AmountOfWhole DEF CompleteLease, Awaited, Delivered
  <2>2. Contract!Package
    BY <1>5, <2>1, SameDisk DEF CompleteLease, Contract!Package, Held
  <2> QED BY <2>2 DEF Contract!ContractNext, Contract!Working
<1>6. ASSUME NEW f \in Files, Remove(f)
      PROVE  Contract!ContractNext \/ UNCHANGED <<Held, IsPackaged, CallIs>>
  <2>1. Held' = [Held EXCEPT ![f] = "none"]
    BY <1>6 DEF Remove, Held, Amount, Whole, TypeOK
  <2>2. Contract!Clean(f) BY <1>6, <2>1 DEF Remove, Contract!Clean, Held
  <2> QED BY <2>2 DEF Contract!ContractNext
<1>7. CASE DeleteCheckpoint
  <2>1. Contract!Succeed BY <1>7, SameDisk DEF DeleteCheckpoint, Contract!Succeed, Held
  <2> QED BY <2>1 DEF Contract!ContractNext, Contract!Working
<1>8. ASSUME NEW f \in Files, CopyChunk(f)
      PROVE  Contract!ContractNext \/ UNCHANGED <<Held, IsPackaged, CallIs>>
  <2>1. phase = "downloading" /\ phase' = phase
    BY <1>8 DEF CopyChunk, control, Quiescent, Working
  <2>2. ~Whole(f) BY <1>8, Constants DEF CopyChunk, Whole, Source, Aligned, TypeOK
  <2>3. Amount(f) # "whole" BY <2>2, AmountOfWhole
  <2>4. Amount(f)' \in {"part", "whole"}
    <3>1. disk'[f] = Append(disk[f], pos[f]) /\ disk[f] \in Seq(Nat)
      BY <1>8 DEF CopyChunk, TypeOK
    <3>2. disk'[f] # <<>> BY <3>1
    <3> QED BY <3>2 DEF Amount
  <2>5. Held' = [Held EXCEPT ![f] = Amount(f)']
    BY <1>8 DEF CopyChunk, Held, Amount, Whole, TypeOK
  <2>6. Contract!Write(f)
    BY <2>1, <2>3, <2>4, <2>5 DEF Contract!Write, Held
  <2> QED BY <2>6 DEF Contract!ContractNext, Contract!Working
<1>9. ASSUME NEW f \in Files, Goroutine(f), ~CopyChunk(f)
      PROVE  Contract!ContractNext \/ UNCHANGED <<Held, IsPackaged, CallIs>>
  <2>1. phase' = phase
    BY <1>9 DEF Goroutine, control, Skip, BeginDownload, MkdirFails, RequestAccepted,
       RequestFails, CopyBreaks, CopyEnds, Retry, GiveUp, MarkCompleted, SaveCheckpoint
  <2>2. disk' = disk
    BY <1>9 DEF Goroutine, Skip, BeginDownload, MkdirFails, RequestAccepted, RequestFails,
       CopyBreaks, CopyEnds, Retry, GiveUp, MarkCompleted, SaveCheckpoint, Opened, TypeOK
  <2> QED BY <2>1, <2>2, SameDisk
<1>10. CASE Return \/ Crash
  <2>1. Contract!Over BY <1>10, SameDisk DEF Return, Crash, Forget, Contract!Over, Held
  <2> QED BY <2>1 DEF Contract!ContractNext
<1>11. CASE UNCHANGED vars BY <1>11, SameDisk DEF vars
<1> QED BY <1>1, <1>2, <1>3, <1>4, <1>5, <1>6, <1>7, <1>8, <1>9, <1>10, <1>11
        DEF Next, ExportOVF

(* ExportOVF implements the contract that hyperexport's run relies on. *)
THEOREM ImplementsExport == ASSUME HonoursRange PROVE Spec => ImplementsContract
<1>1. Spec => []Inv BY InvSafe
<1>2. Inv /\ Inv' /\ [Next]_vars => [Contract!ContractNext]_Contract!contractVars
  BY StepContract
<1> QED BY <1>1, <1>2, InitContract, PTL DEF Spec, ImplementsContract, Contract!ContractSpec
=============================================================================
