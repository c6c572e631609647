--------------------------- MODULE VMOperatorProofs ---------------------------
(***************************************************************************)
(* Proofs about the operator, for any operations, setups, edits and        *)
(* faults.                                                                 *)
(*                                                                         *)
(* VerdictMatchesEffect is not inductive: the worker runs on a copy of the *)
(* operation. A copy that will not be refused is what the server has       *)
(* (CopiesCurrent), and an executor that is past its first note was        *)
(* current then, so that since nobody but a user wrote the operation       *)
(* (PastNoteHeld). An operation that is complete, while no call failed,    *)
(* has been told of or is with the worker that completed it                *)
(* (CompleteIsTold); its last call cannot have been skipped                *)
(* (EndedHadLast). SucceededHad says what a success needs on any copy and  *)
(* under any faults. TerminalIsFinal follows: the worker writes only over  *)
(* a current copy, and nothing of a terminal one.                          *)
(***************************************************************************)
EXTENDS VMOperator, SequenceTheorems, TLAPS

(* The first note of an executor, before which it has no effect. *)
FirstNote(k) == IF k \in {"Restart", "CloneSnapshot"} THEN 1 ELSE 2

(* The effect with which an operation is complete. *)
Last(o) == Program(kind[o])[Len(Program(kind[o]))]

(* What the cache has of the latest version is that version, and a worker  *)
(* whose write will not be refused holds what the server has.              *)
CopiesCurrent ==
    /\ \A o \in opSynced : opCache[o] = op[o]
    /\ cur # "none" /\ opFresh => doing = op[cur]

(* A worker without an operation has nothing of one; with one, it has read *)
(* it somewhere between its creation and its end.                          *)
WorkerPlaced ==
    /\ cur = "none" => ip = 1 /\ ~err
    /\ cur # "none" => doing.phase \notin {"absent", "gone"}

(* The worker is in an executor. *)
Executes == cur # "none" /\ doing.phase = "Running"

(* An executor that is past its first note was current then: since, nobody *)
(* but a user, who cancels it, wrote the operation.                        *)
PastNoteHeld ==
    Executes /\ Noted(cur) /\ FirstNote(kind[cur]) < ip /\ ip <= Len(Program(kind[cur]))
        => op[cur].phase = "Running" /\ (opFresh \/ op[cur].deleting)

(* An executor that made all its calls made the last of them. *)
EndedHadLast ==
    cur # "none" /\ kind[cur] # "Delete" /\ ip > Len(Program(kind[cur])) => Complete(cur)

(* An operation that had its last effect is told a success, or cancelled   *)
(* before that, or about to be told.                                       *)
CompleteIsTold ==
    \A o \in Ops :
        Complete(o) /\ Noted(o) /\ faults = 0 =>
            \/ op[o].phase \in {"Succeeded", "gone"}
            \/ op[o].deleting /\ op[o].phase # "Failed"
            \/ /\ cur = o /\ ip > Len(Program(kind[o])) /\ ~err /\ opFresh
               /\ doing.phase = "Running"

-----------------------------------------------------------------------------
(* Executors make two to six calls, and the last has an effect. *)
LEMMA ProgramFacts ==
  ASSUME NEW k \in OpKinds
  PROVE  /\ Len(Program(k)) \in 2 .. 6
         /\ \A i \in 1 .. Len(Program(k)) : Program(k)[i] \in Effects \cup {"get", "load", "note"}
         /\ Program(k)[Len(Program(k))] \in Effects
         /\ \A i \in 1 .. Len(Program(k)) :
               Program(k)[i] = Program(k)[Len(Program(k))] => i = Len(Program(k))
         /\ \A i \in 1 .. Len(Program(k)) :
               Program(k)[i] \in {"created", "deleted"} => i = Len(Program(k))
         /\ \A i \in 1 .. Len(Program(k)) : Program(k)[i] = "deleted" => k = "Delete"
         /\ k \notin {"Start", "Stop"} =>
               /\ Program(k)[FirstNote(k)] = "note" /\ FirstNote(k) < Len(Program(k))
               /\ \A i \in 1 .. Len(Program(k)) :
                     Program(k)[i] \in Effects => FirstNote(k) < i
<1> USE DEF Program, FirstNote, Effects
<1>1. CASE k = "Start"
  BY <1>1
<1>2. CASE k = "Stop"
  BY <1>2
<1>3. CASE k = "Restart"
  BY <1>3
<1>4. CASE k = "Clone"
  BY <1>4
<1>5. CASE k = "Migrate"
  BY <1>5
<1>6. CASE k = "Resize"
  BY <1>6
<1>7. CASE k = "Snapshot"
  BY <1>7
<1>8. CASE k = "Delete"
  BY <1>8
<1>9. CASE k = "CloneSnapshot"
  BY <1>9
<1> QED BY <1>1, <1>2, <1>3, <1>4, <1>5, <1>6, <1>7, <1>8, <1>9 DEF OpKinds

(* The kinds are those of the setup a run began with. *)
LEMMA KindsTyped == TypeOK => \A o \in Ops : kind[o] \in OpKinds
BY SetupsChosen DEF TypeOK, kind

-----------------------------------------------------------------------------
(* The shared parts of the actions have the types of what they change. *)
OpTypes == /\ op \in [Ops -> Operation] /\ opCache \in [Ops -> Operation] /\ opSynced \subseteq Ops
IpTypes == ip \in 1 .. 7
WorkerTypes == /\ cur \in Ops \cup {"none"} /\ doing \in Operation
               /\ err \in BOOLEAN /\ opFresh \in BOOLEAN /\ vmFresh \in BOOLEAN
MachineTypes == /\ vm \in Machine /\ vmCache \in Machine /\ vmSynced \in BOOLEAN
PodTypes == pod \in {"none", "pending", "running", "dead", "ending", "leaving"}
VMWorkerTypes == /\ seen \in Machine /\ seenFresh \in BOOLEAN
                 /\ at \in {"idle", "act", "stopping", "restarting"}
OtherTypes == /\ spec \in Setups
              /\ done \in [Ops -> SUBSET Effects] /\ refused \subseteq Ops
              /\ edits \in 0 .. MaxEdits /\ faults \in 0 .. MaxFaults

(* They are the whole of TypeOK, in either state. *)
LEMMA TypesSplit ==
  /\ TypeOK
       <=> OpTypes /\ IpTypes /\ WorkerTypes /\ MachineTypes /\ PodTypes /\ VMWorkerTypes /\ OtherTypes
  /\ TypeOK'
       <=> /\ OpTypes' /\ IpTypes' /\ WorkerTypes' /\ MachineTypes' /\ PodTypes' /\ VMWorkerTypes'
           /\ OtherTypes'
BY DEF TypeOK, OpTypes, IpTypes, WorkerTypes, MachineTypes, PodTypes, VMWorkerTypes, OtherTypes

(* Writing the status of an operation. *)
LEMMA StoreOpTyped ==
  ASSUME OpTypes, cur \in Ops, NEW p \in OpPhases, StoreOp(p) PROVE OpTypes'
BY DEF OpTypes, StoreOp, Operation

(* The worker of operations returns. *)
LEMMA ReturnTyped == Return => IpTypes' /\ WorkerTypes'
<1>1. NoOp \in Operation
  BY DEF NoOp, Operation, OpPhases
<1>2. Return => IpTypes'
  BY DEF Return, IpTypes
<1> QED BY <1>1, <1>2 DEF Return, WorkerTypes

(* Writing the status of the machine. *)
LEMMA StorePhaseTyped ==
  ASSUME MachineTypes, VMWorkerTypes, vmFresh \in BOOLEAN,
         NEW p \in VMPhases, NEW n \in {"idle", "act", "restarting"}, StorePhase(p, n)
  PROVE  MachineTypes' /\ VMWorkerTypes' /\ vmFresh' \in BOOLEAN
<1>1. [seen EXCEPT !.phase = p] \in Machine /\ NewVM \in Machine
  BY DEF VMWorkerTypes, Machine, NewVM, VMPhases
<1> QED BY <1>1 DEF MachineTypes, VMWorkerTypes, StorePhase, Store, VMReturn

(* The worker of operations keeps the types. *)
LEMMA OpWorkerTyped ==
  ASSUME TypeOK, OpWorker \/ OpCallFails PROVE TypeOK'
<1> USE TypesSplit
<1>0. OpTypes /\ IpTypes /\ WorkerTypes /\ MachineTypes /\ PodTypes /\ VMWorkerTypes /\ OtherTypes
  OBVIOUS
<1>c. cur # "none" => cur \in Ops
  BY <1>0 DEF WorkerTypes
<1>v. UNCHANGED spec /\ UNCHANGED pod /\ UNCHANGED <<at, seen>> => spec' \in Setups /\ PodTypes'
  BY <1>0 DEF PodTypes, OtherTypes
<1>x. \A i \in Effects \cup {"get", "load", "note"} : Executing(i) => cur \in Ops /\ ip \in 1 .. 6
  <2> SUFFICES ASSUME NEW i \in Effects \cup {"get", "load", "note"}, Executing(i)
               PROVE  cur \in Ops /\ ip \in 1 .. 6
    OBVIOUS
  <2>1. cur \in Ops /\ ip <= Len(Program(kind[cur])) /\ kind[cur] \in OpKinds
    BY <1>c, KindsTyped DEF Executing
  <2>2. Len(Program(kind[cur])) \in 2 .. 6
    BY <2>1, ProgramFacts
  <2>3. ip \in 1 .. 7
    BY <1>0 DEF IpTypes
  <2>4. ASSUME NEW n \in 2 .. 6, ip <= n PROVE ip \in 1 .. 6
    BY <2>3, <2>4
  <2> QED BY <2>1, <2>2, <2>4
<1>p. ASSUME ip \in 1 .. 6, NEW ok \in BOOLEAN, Proceed(ok),
             opFresh' \in BOOLEAN, vmFresh' \in BOOLEAN
      PROVE  IpTypes' /\ WorkerTypes'
  <2>1. IpTypes'
    BY <1>p DEF Proceed, IpTypes
  <2>2. WorkerTypes'
    BY <1>0, <1>p DEF Proceed, WorkerTypes
  <2> QED BY <2>1, <2>2
<1>b. UNCHANGED <<vmVars, vmWorker, history, bounds, spec>> =>
         MachineTypes' /\ PodTypes' /\ VMWorkerTypes' /\ OtherTypes'
  BY <1>0 DEF vmVars, vmWorker, history, bounds, MachineTypes, PodTypes, VMWorkerTypes, OtherTypes
<1>d. \A e \in Effects : Had(e) => done' \in [Ops -> SUBSET Effects]
  BY <1>0 DEF Had, OtherTypes
<1>f. opFresh \in BOOLEAN /\ vmFresh \in BOOLEAN /\ vmSynced \in BOOLEAN
  BY <1>0 DEF WorkerTypes, MachineTypes
<1>1. ASSUME NEW o \in Ops, OpGet(o) PROVE TypeOK'
  <2>1. IpTypes' /\ WorkerTypes' /\ OpTypes'
    BY <1>0, <1>1 DEF OpGet, OpTypes, IpTypes, WorkerTypes, opVars
  <2> QED BY <1>1, <1>b, <2>1 DEF OpGet
<1>2. CASE OpPrepare
  <2>1. PICK p \in {"gone", "bare", "Pending"} :
           /\ StoreOp(p)
           /\ \/ Return
              \/ /\ doing' = [doing EXCEPT !.phase = p]
                 /\ UNCHANGED <<cur, ip, err, opFresh, vmFresh>>
    BY <1>2 DEF OpPrepare
  <2>2. OpTypes'
    BY <1>0, <1>2, <1>c, <2>1, StoreOpTyped DEF OpPrepare, OpPhases
  <2>3. IpTypes' /\ WorkerTypes'
    BY <1>0, <2>1, ReturnTyped DEF IpTypes, WorkerTypes, Operation, OpPhases
  <2> QED BY <1>2, <1>b, <2>2, <2>3 DEF OpPrepare
<1>3. CASE OpPending
  <2>1. OpTypes'
    BY <1>0, <1>3, <1>c, StoreOpTyped DEF OpPending, OpPhases, Terminal
  <2> QED BY <1>3, <1>b, <2>1, ReturnTyped DEF OpPending
<1>4. CASE OpNote
  <2>1. OpTypes' /\ IpTypes' /\ WorkerTypes'
    BY <1>0, <1>4, <1>x, <1>p, <1>f, StoreOpTyped DEF OpNote, OpPhases
  <2> QED BY <1>4, <1>b, <2>1 DEF OpNote
<1>5. CASE OpGetVM
  <2>1. cur \in Ops /\ ip \in 1 .. 6 /\ vmFresh' = vmSynced /\ opFresh' = opFresh
    BY <1>5, <1>x DEF OpGetVM
  <2>2. Len(Program("Delete")) + 1 = 4
    BY DEF Program
  <2>3. IpTypes' /\ WorkerTypes'
    <3>1. CASE Proceed(TRUE) \/ Proceed(FALSE)
      BY <1>f, <1>p, <2>1, <3>1
    <3>2. CASE ip' = Len(Program("Delete")) + 1 /\ UNCHANGED <<cur, doing, err>>
      <4>1. IpTypes'
        BY <2>2, <3>2 DEF IpTypes
      <4> QED BY <1>0, <1>f, <2>1, <3>2, <4>1 DEF WorkerTypes
    <3> QED BY <1>5, <3>1, <3>2 DEF OpGetVM
  <2>4. OpTypes'
    BY <1>0, <1>5 DEF OpGetVM, OpTypes, opVars
  <2> QED BY <1>5, <1>b, <2>3, <2>4 DEF OpGetVM
<1>6. CASE OpWriteVM
  <2>1. PICK e \in {"started", "stopped", "resized", "migrating", "migrated"} :
        /\ Executing(e)
        /\ IF vmFresh
           THEN Store(Applied(e)) /\ seenFresh' = FALSE /\ Had(e) /\ UNCHANGED refused
           ELSE /\ refused' = refused \cup {cur}
                /\ UNCHANGED <<vm, vmCache, vmSynced, seenFresh, done>>
        /\ Proceed(vmFresh)
        /\ UNCHANGED <<spec, opVars, pod, opFresh, vmFresh, at, seen, bounds>>
    BY <1>6 DEF OpWriteVM
  <2>2. e \in Effects /\ cur \in Ops /\ ip \in 1 .. 6
    BY <1>x, <2>1 DEF Effects
  <2>3. Applied(e) \in Machine
    BY <1>0 DEF Applied, MachineTypes, Machine, VMPhases
  <2>4. MachineTypes' /\ VMWorkerTypes'
    BY <1>0, <2>1, <2>3 DEF MachineTypes, VMWorkerTypes, Store
  <2>5. OpTypes' /\ PodTypes' /\ IpTypes' /\ WorkerTypes'
    BY <1>0, <1>p, <1>f, <2>1, <2>2 DEF OpTypes, PodTypes, opVars
  <2>6. OtherTypes'
    BY <1>0, <1>d, <2>1, <2>2 DEF OtherTypes, bounds
  <2> QED BY <2>4, <2>5, <2>6
<1>7. CASE OpCreate
  <2>1. "created" \in Effects /\ cur \in Ops /\ ip \in 1 .. 6
    BY <1>7, <1>x DEF OpCreate, Effects
  <2>2. IpTypes' /\ WorkerTypes'
    BY <1>7, <1>p, <1>f, <2>1 DEF OpCreate
  <2>3. OtherTypes'
    BY <1>0, <1>7, <1>d, <2>1 DEF OpCreate, OtherTypes, bounds
  <2>4. OpTypes' /\ MachineTypes' /\ PodTypes' /\ VMWorkerTypes'
    BY <1>0, <1>7 DEF OpCreate, OpTypes, MachineTypes, PodTypes, VMWorkerTypes, opVars, vmVars,
                      vmWorker
  <2> QED BY <2>2, <2>3, <2>4
<1>8. CASE OpDelete
  <2>1. "deleted" \in Effects /\ cur \in Ops /\ ip \in 1 .. 6
    BY <1>8, <1>x DEF OpDelete, Effects
  <2>2. Deleted \in Machine
    BY <1>0 DEF Deleted, MachineTypes, Machine, VMPhases
  <2>3. MachineTypes' /\ VMWorkerTypes'
    BY <1>0, <1>8, <2>2 DEF OpDelete, Store, MachineTypes, VMWorkerTypes
  <2>4. OpTypes' /\ PodTypes' /\ IpTypes' /\ WorkerTypes'
    BY <1>0, <1>8, <1>p, <1>f, <2>1 DEF OpDelete, OpTypes, PodTypes, opVars
  <2>5. OtherTypes'
    BY <1>0, <1>8, <1>d, <2>1 DEF OpDelete, OtherTypes, bounds
  <2> QED BY <2>3, <2>4, <2>5
<1>9. CASE OpVerdict
  <2>1. OpTypes'
    BY <1>0, <1>9, <1>c, StoreOpTyped DEF OpVerdict, OpPhases, Terminal
  <2> QED BY <1>9, <1>b, <2>1, ReturnTyped DEF OpVerdict
<1>10. CASE OpCallFails
  <2>1. faults' \in 0 .. MaxFaults
    BY <1>0, <1>10, Bounds DEF OpCallFails, OtherTypes
  <2>2. OtherTypes' /\ IpTypes' /\ WorkerTypes' /\ OpTypes'
    <3>1. cur \in Ops
      BY <1>0, <1>10 DEF OpCallFails, WorkerTypes
    <3> QED BY <1>0, <1>10, <2>1, <3>1 DEF OpCallFails, OtherTypes, IpTypes, WorkerTypes, OpTypes,
                                           opVars
  <2>3. MachineTypes' /\ PodTypes' /\ VMWorkerTypes'
    BY <1>0, <1>10 DEF OpCallFails, MachineTypes, PodTypes, VMWorkerTypes, vmVars, vmWorker
  <2> QED BY <2>2, <2>3
<1>11. CASE OpLoad
  <2>1. cur \in Ops /\ ip \in 1 .. 6
    BY <1>11, <1>x DEF OpLoad
  <2>2. IpTypes' /\ WorkerTypes'
    BY <1>11, <1>p, <1>f, <2>1 DEF OpLoad
  <2>3. OpTypes'
    BY <1>0, <1>11 DEF OpLoad, OpTypes, opVars
  <2>4. OtherTypes' /\ MachineTypes' /\ PodTypes' /\ VMWorkerTypes'
    BY <1>0, <1>11 DEF OpLoad, MachineTypes, PodTypes, VMWorkerTypes, OtherTypes, vmVars, vmWorker,
                       history, bounds
  <2> QED BY <2>2, <2>3, <2>4
<1> QED
  BY <1>1, <1>2, <1>3, <1>4, <1>5, <1>6, <1>7, <1>8, <1>9, <1>10, <1>11 DEF OpWorker

(* The worker of the machine: a phase that StorePhase writes, and the pod. *)
LEMMA VMWorkerTyped ==
  ASSUME TypeOK, VMWorker PROVE TypeOK'
<1> USE TypesSplit
<1>0. OpTypes /\ IpTypes /\ WorkerTypes /\ MachineTypes /\ PodTypes /\ VMWorkerTypes /\ OtherTypes
  OBVIOUS
<1>f. vmFresh \in BOOLEAN
  BY <1>0 DEF WorkerTypes
<1>u. ASSUME VMUnchanged, vmFresh' \in BOOLEAN PROVE OpTypes' /\ IpTypes' /\ WorkerTypes' /\ OtherTypes'
  BY <1>0, <1>u DEF VMUnchanged, OpTypes, IpTypes, WorkerTypes, OtherTypes, opVars, history, bounds
<1>s. ASSUME NEW p \in VMPhases, NEW n \in {"idle", "act", "restarting"}, StorePhase(p, n)
      PROVE  MachineTypes' /\ VMWorkerTypes' /\ vmFresh' \in BOOLEAN
  BY <1>0, <1>f, <1>s, StorePhaseTyped
<1>n. NewVM \in Machine
  BY DEF NewVM, Machine, VMPhases
<1>i. Idle => MachineTypes' /\ VMWorkerTypes' /\ vmFresh' \in BOOLEAN
  BY <1>0, <1>f, <1>n DEF Idle, VMReturn, MachineTypes, VMWorkerTypes
<1>d. PodTypes' <=> pod' \in {"none", "pending", "running", "dead", "ending", "leaving"}
  BY DEF PodTypes
<1>p. pod' = pod \/ DeletePod => PodTypes'
  BY <1>0 DEF PodTypes, DeletePod
<1>1. CASE VMGet
  <2>1. VMWorkerTypes'
    BY <1>0, <1>1 DEF VMGet, VMWorkerTypes, MachineTypes
  <2>2. OpTypes' /\ IpTypes' /\ WorkerTypes' /\ OtherTypes' /\ MachineTypes' /\ PodTypes'
    BY <1>0, <1>1 DEF VMGet, OpTypes, IpTypes, WorkerTypes, OtherTypes, MachineTypes, PodTypes, opVars,
                      workerVars, history, bounds, vmVars
  <2> QED BY <2>1, <2>2
<1>2. CASE VMDeletePod
  <2>1. PodTypes' /\ VMWorkerTypes'
    BY <1>0, <1>2, <1>p DEF VMDeletePod, VMWorkerTypes
  <2>2. OpTypes' /\ IpTypes' /\ WorkerTypes' /\ OtherTypes' /\ MachineTypes'
    BY <1>0, <1>2 DEF VMDeletePod, OpTypes, IpTypes, WorkerTypes, OtherTypes, MachineTypes, opVars,
                      workerVars, history, bounds
  <2> QED BY <2>1, <2>2
<1>3. ASSUME VMUnchanged, PodTypes',
             \/ \E p \in VMPhases, n \in {"idle", "act", "restarting"} : StorePhase(p, n)
             \/ Idle
      PROVE  TypeOK'
  BY <1>3, <1>i, <1>s, <1>u
<1>4. CASE VMPrepare \/ VMPending \/ VMStop \/ VMFails \/ VMHealthy \/ VMRestart
  <2>1. \E p \in VMPhases, n \in {"idle", "act", "restarting"} : StorePhase(p, n) \/ Idle
    BY <1>4 DEF VMPrepare, VMPending, VMStop, VMFails, VMHealthy, VMRestart, VMPhases
  <2>2. VMUnchanged /\ pod' = pod
    BY <1>4 DEF VMPrepare, VMPending, VMStop, VMFails, VMHealthy, VMRestart
  <2> QED BY <1>3, <1>p, <2>1, <2>2
<1>5. CASE VMCreating \/ VMStopped \/ VMNothing
  <2>1. \/ \E p \in VMPhases : StorePhase(p, "idle")
        \/ Idle
    BY <1>5 DEF VMCreating, VMStopped, VMNothing, VMPhases
  <2>2. VMUnchanged /\ (pod' \in {pod, "pending"} \/ DeletePod)
    BY <1>5 DEF VMCreating, VMStopped, VMNothing
  <2> QED BY <1>3, <1>d, <1>p, <2>1, <2>2
<1> QED BY <1>1, <1>2, <1>4, <1>5 DEF VMWorker

(* Every step keeps the types. *)
LEMMA VMTypeStep == TypeOK /\ [Next]_vars => TypeOK'
<1> SUFFICES ASSUME TypeOK, [Next]_vars PROVE TypeOK'
  OBVIOUS
<1> USE TypesSplit
<1>0. OpTypes /\ IpTypes /\ WorkerTypes /\ MachineTypes /\ PodTypes /\ VMWorkerTypes /\ OtherTypes
  OBVIOUS
<1> USE DEF opVars, vmVars, workerVars, vmWorker, history, bounds
<1>1. ASSUME NEW o \in Ops, UserCreates(o) \/ OpSync(o) PROVE TypeOK'
  <2>1. OpTypes'
    BY <1>0, <1>1 DEF UserCreates, OpSync, OpTypes, Operation, OpPhases
  <2>2. IpTypes' /\ WorkerTypes' /\ MachineTypes' /\ PodTypes' /\ VMWorkerTypes' /\ OtherTypes'
    BY <1>0, <1>1 DEF UserCreates, OpSync, IpTypes, WorkerTypes, MachineTypes, PodTypes, VMWorkerTypes,
                      OtherTypes
  <2> QED BY <2>1, <2>2
<1>2. ASSUME NEW o \in Ops, UserCancels(o) PROVE TypeOK'
  <2>1. OpTypes'
    BY <1>0, <1>2 DEF UserCancels, OpTypes, Operation, OpPhases
  <2>2. IpTypes' /\ WorkerTypes' /\ MachineTypes' /\ PodTypes' /\ VMWorkerTypes'
    BY <1>0, <1>2 DEF UserCancels, IpTypes, WorkerTypes, MachineTypes, PodTypes, VMWorkerTypes
  <2>3. OtherTypes'
    BY <1>0, <1>2, Bounds DEF UserCancels, OtherTypes
  <2> QED BY <2>1, <2>2, <2>3
<1>3. CASE UserEdits
  <2>0. \A v \in {[vm EXCEPT !.wanted = ~@], Deleted} : v \in Machine
    BY <1>0 DEF Deleted, MachineTypes, Machine, VMPhases
  <2>1. MachineTypes'
    BY <1>0, <1>3, <2>0 DEF UserEdits, Store, MachineTypes
  <2>2. OpTypes' /\ IpTypes' /\ WorkerTypes' /\ PodTypes' /\ VMWorkerTypes'
    BY <1>0, <1>3 DEF UserEdits, OpTypes, IpTypes, WorkerTypes, PodTypes, VMWorkerTypes
  <2>3. OtherTypes'
    BY <1>0, <1>3, Bounds DEF UserEdits, OtherTypes
  <2> QED BY <2>1, <2>2, <2>3
<1>4. CASE VMSync
  BY <1>0, <1>4 DEF VMSync, OpTypes, IpTypes, WorkerTypes, MachineTypes, PodTypes, VMWorkerTypes,
                    OtherTypes
<1>5. CASE PodProceeds \/ PodDies
  <2>1. PodTypes'
    BY <1>0, <1>5 DEF PodProceeds, PodDies, PodTypes
  <2>2. OpTypes' /\ IpTypes' /\ WorkerTypes' /\ MachineTypes' /\ VMWorkerTypes'
    BY <1>0, <1>5 DEF PodProceeds, PodDies, OpTypes, IpTypes, WorkerTypes, MachineTypes, VMWorkerTypes
  <2>3. OtherTypes'
    BY <1>0, <1>5, Bounds DEF PodProceeds, PodDies, OtherTypes
  <2> QED BY <2>1, <2>2, <2>3
<1>6. CASE OperatorRestarts
  <2>1. IpTypes' /\ WorkerTypes' /\ VMWorkerTypes'
    BY <1>6, ReturnTyped DEF OperatorRestarts, VMReturn, VMWorkerTypes, NewVM, Machine, VMPhases
  <2>2. OpTypes' /\ MachineTypes' /\ PodTypes'
    BY <1>0, <1>6 DEF OperatorRestarts, OpTypes, MachineTypes, PodTypes
  <2>3. OtherTypes'
    BY <1>0, <1>6, Bounds DEF OperatorRestarts, OtherTypes
  <2> QED BY <2>1, <2>2, <2>3
<1>7. CASE UNCHANGED vars
  BY <1>0, <1>7 DEF vars, OpTypes, IpTypes, WorkerTypes, MachineTypes, PodTypes, VMWorkerTypes, OtherTypes
<1> QED
  BY <1>1, <1>2, <1>3, <1>4, <1>5, <1>6, <1>7, OpWorkerTyped, VMWorkerTyped DEF Next

-----------------------------------------------------------------------------
(* A success is told of what had its last effect, or of a deletion. *)
SucceededHad == \A o \in Ops :
    op[o].phase = "Succeeded" => Complete(o) \/ kind[o] = "Delete"

(* What every step keeps of the operations, beside their types. *)
OpStory == /\ CopiesCurrent /\ WorkerPlaced /\ PastNoteHeld /\ EndedHadLast
           /\ CompleteIsTold /\ SucceededHad

(* Being complete is having had the last effect, which nobody else can     *)
(* give.                                                                   *)
LEMMA CompleteLast ==
  \A o : /\ Complete(o) <=> Last(o) \in done[o]
         /\ Complete(o)' <=> Last(o)' \in done'[o]
         /\ UNCHANGED spec => /\ Last(o)' = Last(o) /\ kind'[o] = kind[o]
                              /\ Noted(o)' <=> Noted(o)
BY DEF Complete, Last, kind, Noted

(* Nothing a failure is told of, to a worker that is current, is complete  *)
(* unless the worker has just completed it.                                *)
LEMMA CompleteBefore ==
  ASSUME TypeOK, OpStory, cur \in Ops, opFresh, ~doing.deleting, Complete(cur), Noted(cur),
         faults = 0, doing.phase \notin {"Succeeded", "gone"}
  PROVE  ip > Len(Program(kind[cur])) /\ ~err /\ doing.phase = "Running"
<1>1. doing = op[cur]
  BY OpsFinite DEF OpStory, CopiesCurrent
<1> QED BY <1>1 DEF OpStory, CompleteIsTold

(* Steps of others: the operations, and who works on which, stay. *)
LEMMA StoryFrame ==
  ASSUME TypeOK, OpStory, UNCHANGED <<spec, op, cur, doing, ip, opFresh, done>>,
         err' = err \/ (cur # "none" /\ faults' # 0),
         faults' = faults \/ faults' # 0,
         \A o \in opSynced' : opCache'[o] = op[o]
  PROVE  OpStory'
<1> USE CompleteLast DEF OpStory
<1>0. \A o \in Ops : Complete(o)' <=> Complete(o)
  OBVIOUS
<1>1. CopiesCurrent' /\ WorkerPlaced'
  BY DEF CopiesCurrent, WorkerPlaced
<1>2. PastNoteHeld' /\ EndedHadLast'
  BY DEF PastNoteHeld, EndedHadLast, Executes, Complete, kind, Noted
<1>3. CompleteIsTold'
  <2>1. CASE faults' # 0
    BY <2>1 DEF CompleteIsTold
  <2>2. CASE faults' = faults /\ err' = err
    BY <1>0, <2>2 DEF CompleteIsTold, kind, Noted
  <2> QED BY <2>1, <2>2
<1>4. SucceededHad'
  BY <1>0 DEF SucceededHad, kind
<1> QED BY <1>1, <1>2, <1>3, <1>4

(* A reconcile that ends with a write of the phase p, accepted or not. *)
LEMMA StoryReturns ==
  ASSUME TypeOK, OpStory, cur \in Ops, Return, UNCHANGED <<spec, done, faults>>,
         NEW p, StoreOp(p),
         opFresh => /\ p = "Succeeded" => Complete(cur) \/ kind[cur] = "Delete"
                    /\ Complete(cur) /\ Noted(cur) /\ faults = 0 => p \in {"Succeeded", "gone"}
  PROVE  OpStory'
<1> USE CompleteLast DEF OpStory
<1>0. /\ \A o \in Ops : Complete(o)' <=> Complete(o)
      /\ \A o \in Ops : kind'[o] = kind[o]
  OBVIOUS
<1>1. /\ cur' = "none" /\ ip' = 1 /\ ~err'
      /\ \A o \in Ops \ {cur} : op'[o] = op[o]
      /\ opCache' = opCache /\ opSynced' \subseteq opSynced
      /\ opFresh => op'[cur].phase = p /\ cur \notin opSynced'
      /\ ~opFresh => op'[cur] = op[cur]
  BY DEF Return, StoreOp, TypeOK, Operation
<1>2. CopiesCurrent' /\ WorkerPlaced'
  BY <1>1 DEF CopiesCurrent, WorkerPlaced, TypeOK
<1>3. PastNoteHeld' /\ EndedHadLast'
  BY <1>1 DEF PastNoteHeld, EndedHadLast, Executes
<1>4. CompleteIsTold'
  <2> SUFFICES ASSUME NEW o \in Ops, Complete(o), Noted(o), faults = 0
               PROVE  \/ op'[o].phase \in {"Succeeded", "gone"}
                      \/ op'[o].deleting /\ op'[o].phase # "Failed"
    BY <1>0 DEF CompleteIsTold
  <2>1. CASE o = cur /\ opFresh
    BY <1>1, <2>1
  <2>2. CASE ~(o = cur /\ opFresh)
    BY <1>1, <2>2 DEF CompleteIsTold
  <2> QED BY <2>1, <2>2
<1>5. SucceededHad'
  BY <1>0, <1>1 DEF SucceededHad
<1> QED BY <1>2, <1>3, <1>4, <1>5

(* A call of an executor, which goes on if it succeeds. *)
LEMMA StoryCalls ==
  ASSUME TypeOK, OpStory, NEW i \in Effects \cup {"get", "load", "note"}, Executing(i),
         UNCHANGED <<spec, op, opFresh, faults>>,
         \A o \in opSynced' : opCache'[o] = op[o],
         NEW ok \in BOOLEAN, Proceed(ok),
         done' = done \/ (i \in Effects /\ Had(i)),
         ok => (i \in Effects => Had(i)) /\ (i = "note" => opFresh),
         ~ok => done' = done \/ Complete(cur)
  PROVE  OpStory'
<1> USE CompleteLast DEF OpStory
<1>0. /\ cur \in Ops /\ doing.phase = "Running" /\ ~err /\ kind[cur] \in OpKinds
      /\ ip <= Len(Program(kind[cur])) /\ Program(kind[cur])[ip] = i
      /\ cur' = cur /\ doing' = doing
  BY KindsTyped DEF Executing, TypeOK, Proceed
<1>1. \A o \in Ops : kind'[o] = kind[o] /\ Last(o)' = Last(o) /\ (Noted(o)' <=> Noted(o))
  OBVIOUS
<1>2. /\ \A o \in Ops : Complete(o) => Complete(o)'
      /\ \A o \in Ops \ {cur} : Complete(o)' => Complete(o)
      /\ Complete(cur)' => Complete(cur) \/ (i \in Effects /\ Had(i) /\ i = Last(cur))
      /\ i \in Effects /\ Had(i) /\ i = Last(cur) => Complete(cur)'
  <2>1. done \in [Ops -> SUBSET Effects]
    BY DEF TypeOK
  <2>2. /\ \A o \in Ops \ {cur} : done'[o] = done[o]
        /\ done'[cur] = done[cur] \/ (i \in Effects /\ Had(i) /\ done'[cur] = done[cur] \cup {i})
        /\ Had(i) => done'[cur] = done[cur] \cup {i}
    BY <1>0, <2>1 DEF Had
  <2> QED BY <1>0, <1>1, <2>2
<1>3. CopiesCurrent' /\ WorkerPlaced'
  BY <1>0, OpsFinite DEF CopiesCurrent, WorkerPlaced
<1>n. /\ ip \in 1 .. 7
      /\ Len(Program(kind[cur])) \in 2 .. 6
      /\ ip \in 1 .. Len(Program(kind[cur]))
      /\ FirstNote(kind[cur]) \in 1 .. 2
  <2>1. ip \in 1 .. 7
    BY TypesSplit DEF IpTypes
  <2>2. Len(Program(kind[cur])) \in 2 .. 6
    BY <1>0, ProgramFacts
  <2>3. FirstNote(kind[cur]) \in 1 .. 2
    BY DEF FirstNote
  <2> QED BY <1>0, <2>1, <2>2, <2>3
<1>i. (ok => ip' = ip + 1) /\ (~ok => ip' = ip) /\ (err' <=> ~ok)
  BY DEF Proceed
(* The last call is the one that ends the program. *)
<1>e. /\ ip' > Len(Program(kind[cur])) => ok /\ ip = Len(Program(kind[cur]))
      /\ ok /\ ip = Len(Program(kind[cur])) => ip' > Len(Program(kind[cur]))
  BY <1>n, <1>i
<1>l. /\ ip = Len(Program(kind[cur])) => i \in Effects /\ i = Last(cur)
      /\ i = Last(cur) => ip = Len(Program(kind[cur]))
  BY <1>0, <1>n, ProgramFacts DEF Last
<1>f. Noted(cur) =>
        /\ i \in Effects => FirstNote(kind[cur]) < ip
        /\ ip = FirstNote(kind[cur]) => i = "note"
  BY <1>0, <1>n, ProgramFacts DEF Noted
<1>h. Noted(cur) /\ FirstNote(kind[cur]) < ip => op[cur].phase = "Running" /\ (opFresh \/ op[cur].deleting)
  BY <1>0, OpsFinite DEF PastNoteHeld, Executes
<1>4. PastNoteHeld'
  <2> SUFFICES ASSUME Noted(cur), FirstNote(kind[cur]) < ip', ip' <= Len(Program(kind[cur]))
               PROVE  op[cur].phase = "Running" /\ (opFresh \/ op[cur].deleting)
    BY <1>0, <1>1 DEF PastNoteHeld, Executes
  <2>1. CASE FirstNote(kind[cur]) < ip
    BY <1>h, <2>1
  <2>2. CASE ~(FirstNote(kind[cur]) < ip)
    <3>1. ok /\ ip = FirstNote(kind[cur])
      BY <1>n, <1>i, <2>2
    <3>2. opFresh
      BY <1>f, <3>1
    <3> QED BY <1>0, <3>2, OpsFinite DEF CopiesCurrent
  <2> QED BY <2>1, <2>2
<1>5. EndedHadLast'
  BY <1>0, <1>1, <1>2, <1>e, <1>l DEF EndedHadLast
<1>6. CompleteIsTold'
  <2> SUFFICES ASSUME NEW o \in Ops, Complete(o)', Noted(o), faults = 0
               PROVE  \/ op[o].phase \in {"Succeeded", "gone"}
                      \/ op[o].deleting /\ op[o].phase # "Failed"
                      \/ /\ cur = o /\ ip' > Len(Program(kind[o])) /\ ~err' /\ opFresh
                         /\ doing.phase = "Running"
    BY <1>0, <1>1 DEF CompleteIsTold
  <2>1. CASE Complete(o)
    <3>1. ~(cur = o /\ ip > Len(Program(kind[o])))
      BY <1>n
    <3> QED BY <2>1, <3>1 DEF CompleteIsTold
  <2>2. CASE ~Complete(o)
    <3>0. o = cur
      BY <1>2, <2>2
    <3>1. o = cur /\ i \in Effects /\ i = Last(cur)
      BY <1>2, <2>2, <3>0, <1>0
    <3>2. ok
      BY <1>1, <2>2, <3>1
    <3>3. ip' > Len(Program(kind[cur])) /\ ~err'
      BY <1>e, <1>i, <1>l, <3>1, <3>2
    <3>4. op[cur].phase = "Running" /\ (opFresh \/ op[cur].deleting)
      BY <1>f, <1>h, <3>1
    <3> QED BY <1>0, <3>1, <3>3, <3>4
  <2> QED BY <2>1, <2>2
<1>7. SucceededHad'
  BY <1>1, <1>2 DEF SucceededHad
<1> QED BY <1>3, <1>4, <1>5, <1>6, <1>7

-----------------------------------------------------------------------------
(* The worker of the operations. *)
LEMMA OpWorkerStory ==
  ASSUME TypeOK, OpStory, OpWorker \/ OpCallFails PROVE OpStory'
<1>s. \A o \in opSynced : opCache[o] = op[o]
  BY DEF OpStory, CopiesCurrent
<1>c. cur # "none" => cur \in Ops
  BY DEF TypeOK
<1>k. cur # "none" /\ opFresh => doing = op[cur]
  BY DEF OpStory, CopiesCurrent
<1>d. kind[cur] = "Delete" /\ ip' = Len(Program("Delete")) + 1
         => Len(Program(kind[cur])) = 3 /\ ip' = 4
  <2> DEFINE l == Len(Program("Delete"))
  <2>1. l = 3
    BY DEF Program
  <2>2. kind[cur] = "Delete" => Len(Program(kind[cur])) = l
    OBVIOUS
  <2> HIDE DEF l
  <2>3. ip' = l + 1 => ip' = 4
    BY <2>1
  <2> QED BY <2>1, <2>2, <2>3 DEF l
<1>1. ASSUME NEW o \in Ops, OpGet(o) PROVE OpStory'
  <2> USE CompleteLast DEF OpStory
  <2>1. /\ UNCHANGED <<spec, op, opCache, opSynced, ip, err, done, faults>>
        /\ cur = "none" /\ cur' = o /\ doing' = opCache[o] /\ (opFresh' <=> o \in opSynced)
        /\ opCache[o].phase \notin {"absent", "gone"}
    BY <1>1 DEF OpGet, opVars, history, bounds
  <2>2. ip' = 1 /\ kind[o] \in OpKinds
    BY <2>1, KindsTyped DEF WorkerPlaced
  <2>3. CopiesCurrent' /\ WorkerPlaced'
    BY <1>s, <2>1, OpsFinite DEF CopiesCurrent, WorkerPlaced
  <2>4. ~(FirstNote(kind[o]) < ip') /\ ~(ip' > Len(Program(kind[o])))
    <3>1. Len(Program(kind[o])) \in 2 .. 6
      BY <2>2, ProgramFacts
    <3>2. FirstNote(kind[o]) \in 1 .. 2
      BY DEF FirstNote
    <3>3. ASSUME NEW n \in 1 .. 2, NEW l \in 2 .. 6 PROVE ~(n < ip') /\ ~(ip' > l)
      BY <2>2
    <3> QED BY <3>1, <3>2, <3>3
  <2>5. PastNoteHeld' /\ EndedHadLast'
    BY <2>1, <2>4 DEF PastNoteHeld, EndedHadLast
  <2>6. \A p \in Ops : (Complete(p)' <=> Complete(p)) /\ kind'[p] = kind[p] /\ (Noted(p)' <=> Noted(p))
    BY <2>1
  <2>7. CompleteIsTold'
    BY <2>1, <2>6, OpsFinite DEF CompleteIsTold
  <2>8. SucceededHad'
    BY <2>1, <2>6 DEF SucceededHad
  <2> QED BY <2>3, <2>5, <2>7, <2>8
<1>2. CASE OpPrepare
  <2>1. cur \in Ops /\ UNCHANGED <<spec, done, faults>>
    BY <1>2, <1>c DEF OpPrepare, history, bounds
  <2>2. CASE doing.deleting /\ StoreOp("gone") /\ Return
    BY <2>1, <2>2, StoryReturns
  <2>3. ASSUME NEW next \in {"bare", "Pending"}, ~doing.deleting, doing.phase \in {"new", "bare"},
               StoreOp(next), ~opFresh, Return
        PROVE  OpStory'
    BY <2>1, <2>3, StoryReturns
  <2>4. ASSUME NEW next \in {"bare", "Pending"}, ~doing.deleting, doing.phase \in {"new", "bare"},
               StoreOp(next), opFresh, doing' = [doing EXCEPT !.phase = next],
               UNCHANGED <<cur, ip, err, opFresh, vmFresh>>
        PROVE  OpStory'
    <3> USE CompleteLast DEF OpStory
    <3>1. /\ op' = [op EXCEPT ![cur].phase = next]
          /\ opSynced' = opSynced \ {cur} /\ opCache' = opCache
          /\ doing = op[cur]
      BY <1>k, <2>1, <2>4, OpsFinite DEF StoreOp
    <3>2. /\ \A o \in Ops \ {cur} : op'[o] = op[o]
          /\ op'[cur] = doing' /\ op'[cur].phase = next /\ doing'.phase = next
      BY <2>1, <2>4, <3>1 DEF TypeOK, Operation
    <3>3. CopiesCurrent' /\ WorkerPlaced'
      BY <1>s, <2>1, <2>4, <3>1, <3>2 DEF CopiesCurrent, WorkerPlaced, TypeOK
    <3>4. PastNoteHeld'
      BY <2>4, <3>2 DEF PastNoteHeld, Executes
    <3>5. /\ \A p \in Ops : (Complete(p)' <=> Complete(p)) /\ kind'[p] = kind[p]
                            /\ (Noted(p)' <=> Noted(p))
          /\ Complete(cur)' <=> Complete(cur)
      BY <2>1, <2>4
    <3>6. EndedHadLast'
      BY <2>1, <2>4, <3>5 DEF EndedHadLast
    <3>7. Complete(cur) /\ Noted(cur) => faults # 0
      BY <2>1, <2>4, CompleteBefore
    <3>8. CompleteIsTold'
      BY <2>1, <2>4, <3>2, <3>5, <3>7 DEF CompleteIsTold
    <3>9. SucceededHad'
      BY <2>1, <3>2, <3>5 DEF SucceededHad
    <3> QED BY <3>3, <3>4, <3>6, <3>8, <3>9
  <2> QED BY <1>2, <2>2, <2>3, <2>4 DEF OpPrepare
<1>3. CASE OpPending
  <2>1. cur \in Ops /\ UNCHANGED <<spec, done, faults>> /\ Return
        /\ ~doing.deleting /\ doing.phase = "Pending"
    BY <1>3, <1>c DEF OpPending, history, bounds
  <2>2. PICK p \in {"Failed", "Running"} : StoreOp(p)
    BY <1>3 DEF OpPending
  <2>3. opFresh /\ Complete(cur) /\ Noted(cur) => faults # 0
    BY <2>1, CompleteBefore
  <2> QED BY <2>1, <2>2, <2>3, StoryReturns
<1>4. CASE OpNote
  <2>1. /\ Executing("note") /\ StoreOp("Running") /\ Proceed(opFresh)
        /\ UNCHANGED <<spec, opFresh, done, faults>>
    BY <1>4 DEF OpNote, history, bounds
  <2>2. opSynced' \subseteq opSynced /\ opCache' = opCache
    BY <2>1 DEF StoreOp
  <2>3. op' = op
    <3>1. CASE ~opFresh
      BY <2>1, <3>1 DEF StoreOp
    <3>2. CASE opFresh
      <4>1. op[cur].phase = "Running" /\ cur \in Ops /\ op' = [op EXCEPT ![cur].phase = "Running"]
        BY <1>c, <1>k, <2>1, <3>2 DEF StoreOp, Executing
      <4> QED BY <4>1 DEF TypeOK, Operation
    <3> QED BY <3>1, <3>2
  <2>4. opFresh \in BOOLEAN /\ "note" \notin Effects
    BY DEF TypeOK, Effects
  <2> QED BY <1>s, <2>1, <2>2, <2>3, <2>4, StoryCalls
<1>5. CASE OpGetVM
  <2>1. Executing("get") /\ UNCHANGED <<spec, op, opCache, opSynced, opFresh, done, faults>>
    BY <1>5 DEF OpGetVM, opVars, history, bounds
  <2>2. "get" \notin Effects
    BY DEF Effects
  <2>3. CASE Proceed(TRUE) \/ Proceed(FALSE)
    <3>0. "get" \in Effects \cup {"get", "load", "note"} /\ "get" # "note" /\ TRUE \in BOOLEAN
      OBVIOUS
    <3>1. CASE Proceed(TRUE)
      BY <1>s, <2>1, <2>2, <3>0, <3>1, StoryCalls
    <3>2. CASE Proceed(FALSE)
      BY <1>s, <2>1, <2>2, <3>2, StoryCalls
    <3> QED BY <2>3, <3>1, <3>2
  <2>4. CASE kind[cur] = "Delete" /\ ip' = Len(Program("Delete")) + 1 /\ UNCHANGED <<cur, doing, err>>
    <3> USE CompleteLast DEF OpStory
    <3>1. \A p \in Ops : (Complete(p)' <=> Complete(p)) /\ kind'[p] = kind[p]
                         /\ (Noted(p)' <=> Noted(p))
      BY <2>1
    <3>2. cur \in Ops /\ ip <= Len(Program(kind[cur]))
      BY <1>c, <2>1 DEF Executing
    <3>3. Len(Program(kind[cur])) = 3 /\ ip' = 4
      BY <1>d, <2>4
    <3>4. CopiesCurrent' /\ WorkerPlaced'
      BY <2>1, <2>4, <3>2, OpsFinite DEF CopiesCurrent, WorkerPlaced
    <3>5. ~(ip' <= Len(Program(kind[cur]))) /\ ip <= 3
      BY <2>4, <3>2, <3>3
    <3>6. PastNoteHeld' /\ EndedHadLast'
      BY <2>4, <3>1, <3>2, <3>5 DEF PastNoteHeld, EndedHadLast
    <3>7. CompleteIsTold'
      <4>1. ip \in 1 .. 7
        BY TypesSplit DEF IpTypes
      <4>2. ~(ip > Len(Program(kind[cur])))
        BY <2>4, <3>3, <3>5, <4>1
      <4> QED BY <2>1, <2>4, <3>1, <4>2 DEF CompleteIsTold
    <3>8. SucceededHad'
      BY <2>1, <3>1 DEF SucceededHad
    <3> QED BY <3>4, <3>6, <3>7, <3>8
  <2> QED BY <1>5, <2>3, <2>4 DEF OpGetVM
<1>6. CASE OpWriteVM
  <2>1. PICK e \in {"started", "stopped", "resized", "migrating", "migrated"} :
           /\ Executing(e) /\ Proceed(vmFresh)
           /\ vmFresh => Had(e)
           /\ ~vmFresh => done' = done
           /\ UNCHANGED <<spec, op, opCache, opSynced, opFresh, faults>>
    BY <1>6 DEF OpWriteVM, opVars, bounds
  <2>2. e \in Effects /\ e # "note" /\ vmFresh \in BOOLEAN
    BY DEF Effects, TypeOK
  <2> QED BY <1>s, <2>1, <2>2, StoryCalls
<1>7. CASE OpCreate
  <2>1. /\ Executing("created") /\ Had("created") /\ Proceed("created" \notin done[cur])
        /\ UNCHANGED <<spec, op, opCache, opSynced, opFresh, faults>>
    BY <1>7 DEF OpCreate, opVars, bounds
  <2>2. "created" \in Effects /\ ("created" \notin done[cur]) \in BOOLEAN
    BY DEF Effects
  <2>3. "created" \in done[cur] => Complete(cur)
    <3>1. /\ cur \in Ops /\ kind[cur] \in OpKinds /\ ip <= Len(Program(kind[cur]))
          /\ Program(kind[cur])[ip] = "created"
      BY <1>c, <2>1, KindsTyped DEF Executing
    <3>2. ip \in 1 .. 7 /\ Len(Program(kind[cur])) \in 2 .. 6
      <4>1. ip \in 1 .. 7
        BY TypesSplit DEF IpTypes
      <4> QED BY <3>1, <4>1, ProgramFacts
    <3>3. ip \in 1 .. Len(Program(kind[cur]))
      BY <3>1, <3>2
    <3>4. Last(cur) = "created"
      BY <3>1, <3>3, ProgramFacts DEF Last
    <3> QED BY <3>4, CompleteLast
  <2> QED BY <1>s, <2>1, <2>2, <2>3, StoryCalls
<1>8. CASE OpDelete
  <2>1. /\ Executing("deleted")
        /\ UNCHANGED <<spec, op, opCache, opSynced, opFresh, faults>>
        /\ \/ Proceed(FALSE) /\ done' = done
           \/ Proceed(TRUE) /\ Had("deleted")
    BY <1>8 DEF OpDelete, opVars, bounds
  <2>2. "deleted" \in Effects
    BY DEF Effects
  <2> QED BY <1>s, <2>1, <2>2, StoryCalls
<1>9. CASE OpVerdict
  <2>1. /\ cur \in Ops /\ UNCHANGED <<spec, done, faults>> /\ Return
        /\ ~doing.deleting /\ doing.phase = "Running"
        /\ err \/ ip > Len(Program(kind[cur]))
        /\ StoreOp(IF err THEN "Failed" ELSE "Succeeded")
    BY <1>9, <1>c DEF OpVerdict, history, bounds
  <2>2. CASE err
    <3>1. opFresh /\ Complete(cur) /\ Noted(cur) => faults # 0
      BY <2>1, <2>2, CompleteBefore
    <3>2. StoreOp("Failed")
      BY <2>1, <2>2
    <3> QED BY <2>1, <3>1, <3>2, StoryReturns
  <2>3. CASE ~err
    <3>1. Complete(cur) \/ kind[cur] = "Delete"
      BY <2>1, <2>3, OpsFinite DEF OpStory, EndedHadLast
    <3>2. StoreOp("Succeeded")
      BY <2>1, <2>3
    <3> QED BY <2>1, <3>1, <3>2, StoryReturns
  <2> QED BY <2>2, <2>3
<1>10. CASE OpCallFails
  <2>1. UNCHANGED <<spec, op, opCache, opSynced, cur, doing, ip, opFresh, done>> /\ cur # "none"
    BY <1>10 DEF OpCallFails, opVars
  <2>2. faults' # 0
    <3>1. faults \in Nat /\ faults' = faults + 1
      BY <1>10, TypesSplit, Bounds DEF OpCallFails, OtherTypes
    <3> QED BY <3>1
  <2> QED BY <1>s, <2>1, <2>2, StoryFrame
<1>11. CASE OpLoad
  <2>1. PICK found \in BOOLEAN : Proceed(found)
    BY <1>11 DEF OpLoad
  <2>2. /\ Executing("load")
        /\ UNCHANGED <<spec, op, opCache, opSynced, opFresh, done, faults>>
    BY <1>11 DEF OpLoad, opVars, history, bounds
  <2>3. "load" \notin Effects /\ "load" # "note"
    BY DEF Effects
  <2> QED BY <1>s, <2>1, <2>2, <2>3, StoryCalls
<1> QED
  BY <1>1, <1>2, <1>3, <1>4, <1>5, <1>6, <1>7, <1>8, <1>9, <1>10, <1>11 DEF OpWorker

(* Everybody else. *)
LEMMA OthersStory ==
  ASSUME TypeOK, OpStory, [Next]_vars, ~(OpWorker \/ OpCallFails) PROVE OpStory'
<1>s. \A o \in opSynced : opCache[o] = op[o]
  BY DEF OpStory, CopiesCurrent
<1>k. cur # "none" /\ opFresh => doing = op[cur]
  BY DEF OpStory, CopiesCurrent
<1>t. op \in [Ops -> Operation] /\ opSynced \subseteq Ops
  BY DEF TypeOK
<1>f. faults' = faults + 1 => faults' # 0
  <2>1. faults \in Nat
    BY TypesSplit, Bounds DEF OtherTypes
  <2> QED BY <2>1
<1>1. CASE VMWorker
  <2>1. UNCHANGED <<spec, op, opCache, opSynced, cur, doing, ip, err, opFresh, done, faults>>
    BY <1>1 DEF VMWorker, VMGet, VMPrepare, VMPending, VMCreating, VMDeletePod, VMStop, VMFails,
                VMHealthy, VMRestart, VMStopped, VMNothing, VMUnchanged, opVars, workerVars,
                history, bounds
  <2> QED BY <1>s, <2>1, StoryFrame
<1>2. CASE VMSync \/ UserEdits \/ PodProceeds
  <2>1. UNCHANGED <<spec, op, opCache, opSynced, cur, doing, ip, err, opFresh, done, faults>>
    BY <1>2 DEF VMSync, UserEdits, PodProceeds, opVars, workerVars, history, bounds
  <2> QED BY <1>s, <2>1, StoryFrame
<1>3. CASE PodDies
  <2>1. UNCHANGED <<spec, op, opCache, opSynced, cur, doing, ip, err, opFresh, done>>
        /\ faults' = faults + 1
    BY <1>3 DEF PodDies, opVars, workerVars, history
  <2> QED BY <1>f, <1>s, <2>1, StoryFrame
<1>4. CASE UNCHANGED vars
  <2>1. UNCHANGED <<spec, op, opCache, opSynced, cur, doing, ip, err, opFresh, done, faults>>
    BY <1>4 DEF vars, opVars, workerVars, history, bounds
  <2> QED BY <1>s, <2>1, StoryFrame
<1>5. ASSUME NEW o \in Ops, OpSync(o) PROVE OpStory'
  <2>1. /\ UNCHANGED <<spec, op, cur, doing, ip, err, opFresh, done, faults>>
        /\ opSynced' = opSynced \cup {o} /\ opCache' = [opCache EXCEPT ![o] = op[o]]
    BY <1>5 DEF OpSync, workerVars, history, bounds
  <2>2. \A p \in opSynced' : opCache'[p] = op[p]
    BY <1>s, <1>t, <2>1 DEF TypeOK
  <2> QED BY <2>1, <2>2, StoryFrame
(* Steps that write an operation and leave its effects and its executor. *)
<1>w. ASSUME NEW o \in Ops, UNCHANGED <<spec, cur, doing, ip, err, done, faults>>,
             \A p \in Ops \ {o} : op'[p] = op[p],
             opCache' = opCache, opSynced' = opSynced \ {o},
             opFresh' => opFresh /\ cur # o,
             opFresh /\ cur # o => opFresh',
             op'[o].phase # "Succeeded" \/ op[o].phase = "Succeeded",
             cur = o /\ doing.phase = "Running" /\ op[o].phase = "Running" =>
                op'[o].phase = "Running" /\ op'[o].deleting,
             Complete(o) /\ Noted(o) /\ faults = 0 =>
                \/ op'[o].phase \in {"Succeeded", "gone"}
                \/ op'[o].deleting /\ op'[o].phase # "Failed"
      PROVE  OpStory'
  <2> USE CompleteLast DEF OpStory
  <2>1. \A p \in Ops : (Complete(p)' <=> Complete(p)) /\ kind'[p] = kind[p] /\ (Noted(p)' <=> Noted(p))
    BY <1>w
  <2>2. CopiesCurrent' /\ WorkerPlaced'
    BY <1>k, <1>s, <1>t, <1>w DEF CopiesCurrent, WorkerPlaced, TypeOK
  <2>3. PastNoteHeld'
    <3> SUFFICES ASSUME cur # "none", doing.phase = "Running", Noted(cur),
                        FirstNote(kind[cur]) < ip, ip <= Len(Program(kind[cur]))
                 PROVE  op'[cur].phase = "Running" /\ (opFresh' \/ op'[cur].deleting)
      BY <1>w, <2>1 DEF PastNoteHeld, Executes, TypeOK
    <3>1. op[cur].phase = "Running" /\ (opFresh \/ op[cur].deleting) /\ cur \in Ops
      BY DEF PastNoteHeld, Executes, TypeOK
    <3> QED BY <1>w, <3>1
  <2>4. EndedHadLast'
    BY <1>w, <2>1 DEF EndedHadLast, TypeOK
  <2>5. CompleteIsTold'
    <3> SUFFICES ASSUME NEW p \in Ops, Complete(p), Noted(p), faults = 0
                 PROVE  \/ op'[p].phase \in {"Succeeded", "gone"}
                        \/ op'[p].deleting /\ op'[p].phase # "Failed"
                        \/ /\ cur = p /\ ip > Len(Program(kind[p])) /\ ~err /\ opFresh'
                           /\ doing.phase = "Running"
      BY <1>w, <2>1 DEF CompleteIsTold
    <3>1. CASE p = o
      BY <1>w, <3>1
    <3>2. CASE p # o
      BY <1>w, <3>2 DEF CompleteIsTold
    <3> QED BY <3>1, <3>2
  <2>6. SucceededHad'
    <3> SUFFICES ASSUME NEW p \in Ops, op'[p].phase = "Succeeded"
                 PROVE  Complete(p) \/ kind[p] = "Delete"
      BY <2>1 DEF SucceededHad
    <3>1. op[p].phase = "Succeeded"
      BY <1>w
    <3> QED BY <3>1 DEF SucceededHad
  <2> QED BY <2>2, <2>3, <2>4, <2>5, <2>6
<1>6. ASSUME NEW o \in Ops, UserCreates(o) PROVE OpStory'
  <2>1. /\ UNCHANGED <<spec, opCache, cur, doing, ip, err, opFresh, done, faults>>
        /\ opSynced' = opSynced \ {o} /\ op[o].phase = "absent"
        /\ op' = [op EXCEPT ![o].phase = "new"]
    BY <1>6 DEF UserCreates, workerVars, history, bounds
  <2>2. /\ \A p \in Ops \ {o} : op'[p] = op[p]
        /\ op'[o].phase = "new" /\ op'[o].deleting = op[o].deleting
    BY <1>t, <2>1 DEF Operation
  <2>3. cur = o => ~opFresh
    BY <1>k, <2>1, OpsFinite DEF OpStory, WorkerPlaced
  <2>4. Complete(o) /\ Noted(o) /\ faults = 0 => op[o].deleting
    BY <2>1, <2>3 DEF OpStory, CompleteIsTold
  <2> QED BY <1>w, <2>1, <2>2, <2>3, <2>4
<1>7. ASSUME NEW o \in Ops, UserCancels(o) PROVE OpStory'
  <2>1. /\ UNCHANGED <<spec, opCache, cur, doing, ip, err, done, faults>>
        /\ opSynced' = opSynced \ {o} /\ opFresh' = (opFresh /\ cur # o)
        /\ op[o].phase \notin {"absent", "gone"} /\ ~op[o].deleting
        /\ op' = [op EXCEPT ![o] = IF @.phase = "new" THEN [@ EXCEPT !.phase = "gone"]
                                                     ELSE [@ EXCEPT !.deleting = TRUE]]
    BY <1>7 DEF UserCancels, history
  <2>2. /\ \A p \in Ops \ {o} : op'[p] = op[p]
        /\ op[o].phase = "new" => op'[o].phase = "gone"
        /\ op[o].phase # "new" => op'[o].phase = op[o].phase /\ op'[o].deleting
    BY <1>t, <2>1 DEF Operation
  <2>3. Complete(o) /\ Noted(o) /\ faults = 0 => op[o].phase # "Failed"
    BY <1>k, <2>1, OpsFinite DEF OpStory, CompleteIsTold
  <2> QED BY <1>w, <2>1, <2>2, <2>3
<1>8. CASE OperatorRestarts
  <2> USE CompleteLast DEF OpStory
  <2>1. /\ UNCHANGED <<spec, op, done>> /\ cur' = "none" /\ ip' = 1 /\ ~err' /\ opCache' = op
        /\ faults' # 0
    BY <1>8, <1>f DEF OperatorRestarts, Return, history
  <2>2. CopiesCurrent' /\ WorkerPlaced' /\ PastNoteHeld' /\ EndedHadLast' /\ CompleteIsTold'
    BY <2>1 DEF CopiesCurrent, WorkerPlaced, PastNoteHeld, EndedHadLast, CompleteIsTold, Executes
  <2>3. SucceededHad'
    BY <2>1 DEF SucceededHad
  <2> QED BY <2>2, <2>3
<1> QED BY <1>1, <1>2, <1>3, <1>4, <1>5, <1>6, <1>7, <1>8 DEF Next

(* What the run checks follows from the story. *)
LEMMA StoryTellsEffect == TypeOK /\ OpStory => VerdictMatchesEffect
<1> SUFFICES ASSUME TypeOK, OpStory, NEW o \in Ops, op[o].phase = "Failed", faults = 0, Noted(o),
                    Complete(o)
             PROVE  FALSE
  BY DEF VerdictMatchesEffect, OpStory, SucceededHad
<1> QED BY OpsFinite DEF OpStory, CompleteIsTold, CopiesCurrent

(* No write that is accepted changes a verdict. *)
LEMMA VerdictKept ==
  ASSUME TypeOK, OpStory, [Next]_vars, NEW o \in Ops, op[o].phase \in Terminal
  PROVE  op'[o].phase \in {op[o].phase, "gone"}
<1>t. op \in [Ops -> Operation] /\ op[o].phase \in {"Succeeded", "Failed"}
  BY DEF TypeOK, Terminal
<1>k. cur # "none" /\ opFresh => doing = op[cur] /\ cur \in Ops
  BY DEF OpStory, CopiesCurrent, TypeOK
<1>1. ASSUME cur # "none", NEW p, StoreOp(p),
             ~doing.deleting => doing.phase \notin {"Succeeded", "Failed"},
             doing.deleting => p = "gone"
      PROVE  op'[o].phase \in {op[o].phase, "gone"}
  <2>1. CASE opFresh /\ cur = o
    BY <1>1, <1>k, <1>t, <2>1 DEF StoreOp, Operation
  <2>2. CASE ~(opFresh /\ cur = o)
    BY <1>1, <1>t, <2>2 DEF StoreOp, Operation
  <2> QED BY <2>1, <2>2
<1>2. CASE OpPrepare \/ OpPending \/ OpNote \/ OpVerdict
  <2>1. /\ cur # "none" /\ (~doing.deleting => doing.phase \notin {"Succeeded", "Failed"})
        /\ \E p : StoreOp(p) /\ (doing.deleting => p = "gone")
    BY <1>2 DEF OpPrepare, OpPending, OpNote, OpVerdict, Executing
  <2> QED BY <1>1, <2>1
<1>3. ASSUME NEW q \in Ops, UserCreates(q) \/ UserCancels(q)
      PROVE  op'[o].phase \in {op[o].phase, "gone"}
  BY <1>3, <1>t DEF UserCreates, UserCancels, Operation
<1>4. CASE VMWorker \/ UNCHANGED vars
  BY <1>4 DEF VMWorker, VMGet, VMPrepare, VMPending, VMCreating, VMDeletePod, VMStop, VMFails,
              VMHealthy, VMRestart, VMStopped, VMNothing, VMUnchanged, opVars, vars
<1>5. CASE \/ OpGetVM \/ OpLoad \/ OpWriteVM \/ OpCreate \/ OpDelete \/ OpCallFails
           \/ \E q \in Ops : OpGet(q) \/ OpSync(q)
           \/ VMSync \/ UserEdits \/ PodProceeds \/ PodDies \/ OperatorRestarts
  BY <1>5 DEF OpGetVM, OpLoad, OpWriteVM, OpCreate, OpDelete, OpCallFails, OpGet, OpSync, VMSync,
              UserEdits, PodProceeds, PodDies, OperatorRestarts, opVars
<1> QED BY <1>2, <1>3, <1>4, <1>5 DEF Next, OpWorker

(* The inductive invariant of the operations' worker. *)
LEMMA OpStoryAlways == Spec => [](TypeOK /\ OpStory)
<1>1. Init => TypeOK /\ OpStory
  <2> SUFFICES ASSUME Init PROVE TypeOK /\ OpStory
    OBVIOUS
  <2>1. NoOp \in Operation /\ NewVM \in Machine
    BY DEF NoOp, Operation, OpPhases, NewVM, Machine, VMPhases
  <2>2. OpTypes /\ WorkerTypes /\ MachineTypes /\ PodTypes /\ VMWorkerTypes
    BY <2>1 DEF Init, OpTypes, WorkerTypes, MachineTypes, PodTypes, VMWorkerTypes
  <2>3. IpTypes /\ OtherTypes
    BY Bounds DEF Init, IpTypes, OtherTypes
  <2>4. TypeOK
    BY <2>2, <2>3, TypesSplit
  <2>5. \A o \in Ops : done[o] = {} /\ op[o].phase = "absent"
    BY DEF Init, NoOp
  <2>6. CopiesCurrent /\ WorkerPlaced /\ PastNoteHeld /\ EndedHadLast
    BY DEF Init, CopiesCurrent, WorkerPlaced, PastNoteHeld, EndedHadLast, Executes
  <2>7. CompleteIsTold /\ SucceededHad
    BY <2>5, CompleteLast DEF CompleteIsTold, SucceededHad
  <2> QED BY <2>4, <2>6, <2>7 DEF OpStory
<1>2. TypeOK /\ OpStory /\ [Next]_vars => (TypeOK /\ OpStory)'
  BY VMTypeStep, OpWorkerStory, OthersStory
<1> QED BY <1>1, <1>2, PTL DEF Spec

(* A success has had its last effect (or deleted nothing), and while no    *)
(* call fails, no pod dies and the operator stays up, a failure has not:   *)
(* whatever copies of the operation the executors run on.                  *)
THEOREM VerdictSafe == Spec => []VerdictMatchesEffect
BY OpStoryAlways, StoryTellsEffect, PTL

(* "Terminal states - do nothing": a verdict given is never changed, only  *)
(* removed with its operation.                                             *)
THEOREM TerminalSafe == Spec => TerminalIsFinal
<1>1. TypeOK /\ OpStory /\ [Next]_vars
        => [\A o \in Ops : op[o].phase \in Terminal => op'[o].phase \in {op[o].phase, "gone"}]_vars
  BY VerdictKept
<1> QED BY <1>1, OpStoryAlways, PTL DEF Spec, TerminalIsFinal
=============================================================================
