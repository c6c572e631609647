----------------------------- MODULE VMOperator -----------------------------
(***************************************************************************)
(* Two reconcilers of the Kubernetes operator around one virtual machine:  *)
(* that of VirtualMachine (pkg/operator/controllers/vm_controller.go) and  *)
(* that of VMOperation (vmoperation_controller.go), each a single worker,  *)
(* with users who edit the machine, create and delete operations, a pod    *)
(* that starts, dies and terminates, and an operator that restarts.        *)
(*                                                                         *)
(* Each call of the API server is an action.  Get reads the informer's     *)
(* cache, which follows the server with a delay; a write of an object read *)
(* before somebody else wrote it is refused (the API server, external).    *)
(* Specs are valid, the disks are bound, what an operation creates has a   *)
(* name of its own, and a pod is read as it is on the server.              *)
(***************************************************************************)
EXTENDS Naturals, Sequences, FiniteSets

CONSTANTS Ops,        \* VMOperation objects
          Setups,     \* the kinds of the operations and HA, as users chose them
          MaxEdits,   \* bound on the users' edits of the machine
          MaxFaults   \* bound on restarts, failed calls and pods that die

(* "CloneSnapshot" is a clone with a SnapshotRef. *)
OpKinds == {"Start", "Stop", "Restart", "Clone", "CloneSnapshot", "Migrate",
            "Resize", "Snapshot", "Delete"}

ASSUME OpsFinite == IsFiniteSet(Ops) /\ "none" \notin Ops
ASSUME SetupsChosen == Setups \subseteq [kind : [Ops -> OpKinds], HA : BOOLEAN]
ASSUME Bounds == MaxEdits \in Nat /\ MaxFaults \in Nat

VARIABLES
    spec,                         \* Spec.Operation of each operation, and whether
                                  \*   HighAvailability restarts the machine
    op, opCache, opSynced,        \* operations: on the server, in the cache, those
                                  \*   whose latest version the cache has
    vm, vmCache, vmSynced,        \* the machine, in the same way
    pod,                          \* its pod on the server
    cur, doing, ip, err, opFresh, \* the worker of the operations: the object,
    vmFresh,                      \*   its phase there, where it is, what is current
    at, seen, seenFresh,          \* the worker of the machine
    done,                         \* history: effects each operation had
    refused,                      \* history: operations that had a write of vm refused
                                  \*   or a call fail
    edits, faults

opVars     == <<op, opCache, opSynced>>
vmVars     == <<vm, vmCache, vmSynced, pod>>
workerVars == <<cur, doing, ip, err, opFresh, vmFresh>>
vmWorker   == <<at, seen, seenFresh>>
history    == <<done, refused>>
bounds     == <<edits, faults>>
vars == <<spec, opVars, vmVars, workerVars, vmWorker, history, bounds>>

kind == spec.kind
HA == spec.HA

Terminal == {"Succeeded", "Failed"}
(* "new" has no finalizer yet, "bare" a finalizer and no phase. *)
OpPhases == {"absent", "new", "bare", "Pending", "Running", "gone"} \cup Terminal
VMPhases == {"new", "bare", "Pending", "Creating", "Running", "Stopped",
             "Migrating", "Failed", "gone"}
Machine == [phase : VMPhases, wanted : BOOLEAN, deleting : BOOLEAN]
Operation == [phase : OpPhases, deleting : BOOLEAN]
Effects == {"started", "stopped", "created", "migrating", "migrated", "resized",
            "deleted"}

(* The calls an executor makes after its checks, in their order. *)
Program(k) ==
    CASE k = "Start"    -> <<"get", "started">>
      [] k = "Stop"     -> <<"get", "stopped">>
      [] k = "Restart"  -> <<"note", "get", "stopped", "note", "get", "started">>
      [] k = "Clone"    -> <<"get", "note", "note", "created">>
      [] k = "CloneSnapshot" -> <<"note", "load", "note", "note", "created">>
      [] k = "Migrate"  -> <<"get", "note", "migrating", "note", "note", "migrated">>
      [] k = "Resize"   -> <<"get", "note", "resized">>
      [] k = "Snapshot" -> <<"get", "note", "created">>
      [] k = "Delete"   -> <<"get", "note", "deleted">>

TypeOK ==
    /\ spec \in Setups
    /\ op \in [Ops -> Operation] /\ opCache \in [Ops -> Operation]
    /\ vm \in Machine /\ vmCache \in Machine /\ seen \in Machine
    /\ opSynced \subseteq Ops /\ vmSynced \in BOOLEAN
    /\ pod \in {"none", "pending", "running", "dead", "ending", "leaving"}
    /\ cur \in Ops \cup {"none"}
    /\ doing \in Operation
    /\ ip \in 1 .. 7
    /\ {err, opFresh, vmFresh, seenFresh} \subseteq BOOLEAN
    /\ at \in {"idle", "act", "stopping", "restarting"}
    /\ done \in [Ops -> SUBSET Effects]
    /\ refused \subseteq Ops
    /\ edits \in 0 .. MaxEdits /\ faults \in 0 .. MaxFaults

NewVM == [phase |-> "new", wanted |-> TRUE, deleting |-> FALSE]
NoOp == [phase |-> "absent", deleting |-> FALSE]

Init ==
    /\ spec \in Setups
    /\ op = [o \in Ops |-> NoOp] /\ opCache = op /\ opSynced = Ops
    /\ vm = NewVM /\ vmCache = vm /\ vmSynced = TRUE /\ seen = vm
    /\ pod = "none"
    /\ cur = "none" /\ doing = NoOp /\ ip = 1
    /\ err = FALSE /\ opFresh = FALSE /\ vmFresh = FALSE
    /\ at = "idle" /\ seenFresh = FALSE
    /\ done = [o \in Ops |-> {}] /\ refused = {}
    /\ edits = 0 /\ faults = 0

-----------------------------------------------------------------------------
(* The worker of the operations. *)

(* A reconcile ends; the manager will call Reconcile again. *)
Return ==
    /\ cur' = "none" /\ doing' = NoOp /\ ip' = 1
    /\ err' = FALSE /\ opFresh' = FALSE /\ vmFresh' = FALSE

(* VMOperationReconciler.Reconcile, r.Get; a terminal phase needs nothing. *)
OpGet(o) ==
    /\ cur = "none"
    /\ opCache[o].phase \notin {"absent", "gone"}
    /\ opCache[o].phase \in Terminal => opCache[o].deleting
    /\ cur' = o /\ doing' = opCache[o]
    /\ opFresh' = (o \in opSynced)
    /\ UNCHANGED <<spec, opVars, vmVars, ip, err, vmFresh, vmWorker, history, bounds>>

(* Mutant: the write of the status is not refused when it is late. *)
StoreOpForced(p) ==
    /\ op' = [op EXCEPT ![cur].phase = p]
    /\ opSynced' = opSynced \ {cur}
    /\ UNCHANGED opCache

(* A write of the operation by its reconciler; refused if it is not the    *)
(* latest version that was read.                                           *)
StoreOp(p) ==
    /\ IF opFresh THEN op' = [op EXCEPT ![cur].phase = p] /\ opSynced' = opSynced \ {cur}
       ELSE UNCHANGED <<op, opSynced>>
    /\ UNCHANGED opCache

(* handleDeletion, or the step after which Reconcile goes on in the same   *)
(* call: the finalizer, the first phase.                                   *)
OpPrepare ==
    /\ cur # "none"
    /\ \/ /\ doing.deleting
          /\ StoreOp("gone") /\ Return
       \/ /\ ~doing.deleting /\ doing.phase \in {"new", "bare"}
          /\ LET next == IF doing.phase = "new" THEN "bare" ELSE "Pending"
             IN  /\ StoreOp(next)
                 /\ IF opFresh
                    THEN /\ doing' = [doing EXCEPT !.phase = next]
                         /\ UNCHANGED <<cur, ip, err, opFresh, vmFresh>>
                    ELSE Return
    /\ UNCHANGED <<spec, vmVars, vmWorker, history, bounds>>

(* reconcilePending: validate, which gets the machine, and set the phase. *)
OpPending ==
    /\ cur # "none" /\ ~doing.deleting /\ doing.phase = "Pending"
    /\ StoreOp(IF vmCache.phase = "gone" THEN "Failed" ELSE "Running")
    /\ Return
    /\ UNCHANGED <<spec, vmVars, vmWorker, history, bounds>>

(* The next call of the executor is i. *)
Executing(i) ==
    /\ cur # "none" /\ ~doing.deleting /\ doing.phase = "Running" /\ ~err
    /\ ip <= Len(Program(kind[cur]))
    /\ Program(kind[cur])[ip] = i

(* The executor goes on, or returns an error. *)
Proceed(ok) ==
    /\ ip' = IF ok THEN ip + 1 ELSE ip
    /\ err' = ~ok
    /\ UNCHANGED <<cur, doing>>

(* A progress note is a write of the operation's status. *)
OpNote ==
    /\ Executing("note")
    /\ StoreOp("Running") /\ Proceed(opFresh)
    /\ UNCHANGED <<spec, vmVars, opFresh, vmFresh, vmWorker, history, bounds>>

(* getVM; executeDelete returns nil when the machine is gone. *)
OpGetVM ==
    /\ Executing("get")
    /\ vmFresh' = vmSynced
    /\ IF vmCache.phase # "gone" THEN Proceed(TRUE)
       ELSE IF kind[cur] = "Delete"
            THEN ip' = Len(Program("Delete")) + 1 /\ UNCHANGED <<cur, doing, err>>
            ELSE Proceed(FALSE)
    /\ UNCHANGED <<spec, opVars, vmVars, opFresh, vmWorker, history, bounds>>

(* executeClone of a snapshot: it gets the snapshot and the machine that    *)
(* one names, which are outside the model and there or not.                *)
OpLoad ==
    /\ Executing("load")
    /\ \E found \in BOOLEAN : Proceed(found)
    /\ UNCHANGED <<spec, opVars, vmVars, opFresh, vmFresh, vmWorker, history, bounds>>

(* Mutant: the migration does not set the phase back. *)
AppliedHalf(e) ==
    CASE e = "started"   -> [vm EXCEPT !.wanted = TRUE]
      [] e = "stopped"   -> [vm EXCEPT !.wanted = FALSE]
      [] e = "migrating" -> [vm EXCEPT !.phase = "Migrating"]
      [] OTHER           -> vm

(* What the machine becomes by an effect. *)
Applied(e) ==
    CASE e = "started"   -> [vm EXCEPT !.wanted = TRUE]
      [] e = "stopped"   -> [vm EXCEPT !.wanted = FALSE]
      [] e = "resized"   -> vm
      [] e = "migrating" -> [vm EXCEPT !.phase = "Migrating"]
      [] e = "migrated"  -> [vm EXCEPT !.phase = "Running"]

Had(e) == done' = [done EXCEPT ![cur] = @ \cup {e}]

(* The machine becomes v on the server: the cache is late, and so is what  *)
(* the workers hold.                                                       *)
Store(v) ==
    /\ vm' = v
    /\ vmSynced' = FALSE
    /\ UNCHANGED vmCache

(* r.Update(vm) or r.Status().Update(vm) by an executor. *)
OpWriteVM ==
    \E e \in {"started", "stopped", "resized", "migrating", "migrated"} :
        /\ Executing(e)
        /\ IF vmFresh
           THEN Store(Applied(e)) /\ seenFresh' = FALSE /\ Had(e) /\ UNCHANGED refused
           ELSE /\ refused' = refused \cup {cur}
                /\ UNCHANGED <<vm, vmCache, vmSynced, seenFresh, done>>
        /\ Proceed(vmFresh)
        /\ UNCHANGED <<spec, opVars, pod, opFresh, vmFresh, at, seen, bounds>>

(* r.Create of the clone or of the snapshot: refused if the name is taken. *)
OpCreate ==
    /\ Executing("created")
    /\ Had("created")
    /\ Proceed("created" \notin done[cur])
    /\ UNCHANGED <<spec, opVars, vmVars, opFresh, vmFresh, vmWorker, refused, bounds>>

(* Deleting a machine without a finalizer removes it at once. *)
Deleted == IF vm.phase = "new" THEN [vm EXCEPT !.phase = "gone"]
                               ELSE [vm EXCEPT !.deleting = TRUE]

(* executeDelete: r.Delete, which asks for no version. *)
OpDelete ==
    /\ Executing("deleted")
    /\ IF vm.phase = "gone"
       THEN Proceed(FALSE) /\ UNCHANGED <<vm, vmCache, vmSynced, done, seenFresh>>
       ELSE Store(Deleted) /\ seenFresh' = FALSE /\ Had("deleted") /\ Proceed(TRUE)
    /\ UNCHANGED <<spec, opVars, pod, opFresh, vmFresh, at, seen, refused, bounds>>

(* The end of reconcileRunning: the verdict is written. *)
OpVerdict ==
    /\ cur # "none" /\ ~doing.deleting /\ doing.phase = "Running"
    /\ err \/ ip > Len(Program(kind[cur]))
    /\ StoreOp(IF err THEN "Failed" ELSE "Succeeded")
    /\ Return
    /\ UNCHANGED <<spec, vmVars, vmWorker, history, bounds>>

(* A call of the API server fails, without effect. *)
OpCallFails ==
    /\ cur # "none" /\ \E i \in Effects \cup {"get", "load", "note"} : Executing(i)
    /\ faults < MaxFaults /\ faults' = faults + 1
    /\ err' = TRUE
    /\ refused' = refused \cup {cur}
    /\ UNCHANGED <<spec, opVars, vmVars, cur, doing, ip, opFresh, vmFresh,
                   vmWorker, done, edits>>

OpWorker ==
    \/ \E o \in Ops : OpGet(o)
    \/ OpPrepare \/ OpPending \/ OpNote \/ OpGetVM \/ OpLoad \/ OpWriteVM
    \/ OpCreate \/ OpDelete \/ OpVerdict

-----------------------------------------------------------------------------
(* The worker of the machine. *)

(* VirtualMachineReconciler.Reconcile, r.Get. *)
VMGet ==
    /\ at = "idle" /\ vmCache.phase # "gone"
    /\ at' = "act" /\ seen' = vmCache /\ seenFresh' = vmSynced
    /\ UNCHANGED <<spec, opVars, vmVars, workerVars, history, bounds>>

VMReturn == at' = "idle" /\ seen' = NewVM /\ seenFresh' = FALSE

(* The reconciler writes the phase p of what it read and goes on at n; a   *)
(* refused write ends the reconcile.                                       *)
StorePhase(p, n) ==
    IF seenFresh
    THEN /\ Store([seen EXCEPT !.phase = p])
         /\ vmFresh' = FALSE
         /\ IF n = "idle" THEN VMReturn
            ELSE at' = n /\ seen' = [seen EXCEPT !.phase = p] /\ UNCHANGED seenFresh
    ELSE VMReturn /\ UNCHANGED <<vm, vmCache, vmSynced, vmFresh>>

VMUnchanged == UNCHANGED <<spec, opVars, cur, doing, ip, err, opFresh, history, bounds>>

Acting(p) == at = "act" /\ ~seen.deleting /\ seen.phase = p

(* The finalizer, then the first phase; the reconcile goes on. *)
VMPrepare ==
    /\ \/ Acting("new") /\ StorePhase("bare", "act")
       \/ Acting("bare") /\ StorePhase("Pending", "act")
    /\ UNCHANGED pod /\ VMUnchanged

(* reconcilePending *)
VMPending ==
    /\ Acting("Pending") /\ StorePhase("Creating", "idle")
    /\ UNCHANGED pod /\ VMUnchanged

(* A pod that terminates keeps its phase, Running or not. *)
PodPhaseRunning == pod \in {"running", "ending"}

Idle == VMReturn /\ UNCHANGED <<vm, vmCache, vmSynced, vmFresh>>

(* reconcileCreating *)
VMCreating ==
    /\ Acting("Creating")
    /\ IF PodPhaseRunning THEN StorePhase("Running", "idle") ELSE Idle
    /\ pod' = IF pod = "none" THEN "pending" ELSE pod
    /\ VMUnchanged

(* r.Delete of the pod. *)
DeletePod == pod' = CASE pod \in {"pending", "dead"} -> "leaving"
                      [] pod = "running" -> "ending"
                      [] OTHER -> pod

(* handleDeletion and stopVM delete the pod ... *)
VMDeletePod ==
    /\ at = "act" /\ (seen.deleting \/ (seen.phase = "Running" /\ ~seen.wanted))
    /\ DeletePod
    /\ at' = "stopping"
    /\ UNCHANGED <<spec, opVars, vm, vmCache, vmSynced, workerVars, seen, seenFresh,
                   history, bounds>>

(* ... and then remove the finalizer, or write that the machine stopped. *)
VMStop ==
    /\ at = "stopping"
    /\ StorePhase(IF seen.deleting THEN "gone" ELSE "Stopped", "idle")
    /\ UNCHANGED pod /\ VMUnchanged

(* Mutant: only a pod that is lost is noticed. *)
VMFailsLost ==
    /\ Acting("Running") /\ seen.wanted /\ pod = "none"
    /\ StorePhase("Failed", IF HA THEN "restarting" ELSE "idle")
    /\ UNCHANGED pod /\ VMUnchanged

(* reconcileRunning: the pod is lost or has ended, ... *)
VMFails ==
    /\ Acting("Running") /\ seen.wanted /\ ~PodPhaseRunning
    /\ StorePhase("Failed", IF HA THEN "restarting" ELSE "idle")
    /\ UNCHANGED pod /\ VMUnchanged

(* ... or it runs; the write of its resources may change the machine. *)
VMHealthy ==
    /\ Acting("Running") /\ seen.wanted /\ PodPhaseRunning
    /\ \/ StorePhase("Running", "idle")
       \/ Idle
    /\ UNCHANGED pod /\ VMUnchanged

(* handleVMFailure, called by reconcileRunning and by reconcileFailed. *)
VMRestart ==
    /\ at = "restarting" \/ (Acting("Failed") /\ HA)
    /\ StorePhase("Pending", "idle")
    /\ UNCHANGED pod /\ VMUnchanged

(* reconcileStopped: startVM, or the pod that is left is deleted. *)
VMStopped ==
    /\ Acting("Stopped")
    /\ IF seen.wanted THEN StorePhase("Creating", "idle") /\ UNCHANGED pod
                      ELSE Idle /\ DeletePod
    /\ VMUnchanged

(* reconcileFailed without HA, and the phases Reconcile does not know. *)
VMNothing ==
    /\ Acting("Migrating") \/ (Acting("Failed") /\ ~HA) \/ (at = "act" /\ seen.phase = "gone")
    /\ Idle
    /\ UNCHANGED pod /\ VMUnchanged

VMWorker ==
    \/ VMGet \/ VMPrepare \/ VMPending \/ VMCreating \/ VMDeletePod \/ VMStop
    \/ VMFails \/ VMHealthy \/ VMRestart \/ VMStopped \/ VMNothing

-----------------------------------------------------------------------------
(* Users, the informers, the pod and the operator's process. *)

UserCreates(o) ==
    /\ op[o].phase = "absent"
    /\ op' = [op EXCEPT ![o].phase = "new"] /\ opSynced' = opSynced \ {o}
    /\ UNCHANGED <<spec, opCache, vmVars, workerVars, vmWorker, history, bounds>>

(* An operation without a finalizer is removed at once. *)
UserCancels(o) ==
    /\ op[o].phase \notin {"absent", "gone"} /\ ~op[o].deleting
    /\ edits < MaxEdits /\ edits' = edits + 1
    /\ op' = [op EXCEPT ![o] = IF @.phase = "new" THEN [@ EXCEPT !.phase = "gone"]
                                                 ELSE [@ EXCEPT !.deleting = TRUE]]
    /\ opSynced' = opSynced \ {o}
    /\ opFresh' = (opFresh /\ cur # o)
    /\ UNCHANGED <<spec, opCache, vmVars, cur, doing, ip, err, vmFresh, vmWorker,
                   history, faults>>

(* A user starts, stops or deletes the machine. *)
UserEdits ==
    /\ vm.phase # "gone" /\ ~vm.deleting
    /\ edits < MaxEdits /\ edits' = edits + 1
    /\ \E v \in {[vm EXCEPT !.wanted = ~@], Deleted} : Store(v)
    /\ vmFresh' = FALSE /\ seenFresh' = FALSE
    /\ UNCHANGED <<spec, opVars, pod, cur, doing, ip, err, opFresh, at, seen, history, faults>>

OpSync(o) ==
    /\ o \notin opSynced
    /\ opSynced' = opSynced \cup {o}
    /\ opCache' = [opCache EXCEPT ![o] = op[o]]
    /\ UNCHANGED <<spec, op, vmVars, workerVars, vmWorker, history, bounds>>

VMSync ==
    /\ ~vmSynced
    /\ vmSynced' = TRUE /\ vmCache' = vm
    /\ UNCHANGED <<spec, opVars, vm, pod, workerVars, vmWorker, history, bounds>>

PodProceeds ==
    /\ pod' = CASE pod = "pending" -> "running"
              [] pod \in {"ending", "leaving"} -> "none"
              [] OTHER -> pod
    /\ pod' # pod
    /\ UNCHANGED <<spec, opVars, vm, vmCache, vmSynced, workerVars, vmWorker, history, bounds>>

PodDies ==
    /\ pod \in {"pending", "running"}
    /\ pod' \in {"dead", "none"}
    /\ faults < MaxFaults /\ faults' = faults + 1
    /\ UNCHANGED <<spec, opVars, vm, vmCache, vmSynced, workerVars, vmWorker, history, edits>>

(* The operator's process ends, a new one lists everything and starts. *)
OperatorRestarts ==
    /\ faults < MaxFaults /\ faults' = faults + 1
    /\ opCache' = op /\ opSynced' = Ops
    /\ vmCache' = vm /\ vmSynced' = TRUE
    /\ Return /\ VMReturn
    /\ UNCHANGED <<spec, op, vm, pod, history, edits>>

Next ==
    \/ OpWorker \/ OpCallFails \/ VMWorker \/ VMSync
    \/ \E o \in Ops : UserCreates(o) \/ UserCancels(o) \/ OpSync(o)
    \/ UserEdits \/ PodProceeds \/ PodDies \/ OperatorRestarts

(* The controllers' workers are goroutines that are fed by watches and by  *)
(* requeues; informers and kubelets work on.  Nothing is owed by users and *)
(* by faults.                                                              *)
Fairness ==
    /\ WF_vars(OpWorker) /\ WF_vars(VMWorker) /\ WF_vars(VMSync)
    /\ WF_vars(PodProceeds)
    /\ \A o \in Ops : WF_vars(OpSync(o))

Spec == Init /\ [][Next]_vars /\ Fairness

-----------------------------------------------------------------------------
(* Properties. *)

Noted(o) == kind[o] \notin {"Start", "Stop"}
Complete(o) == LET p == Program(kind[o]) IN p[Len(p)] \in done[o]

(* A success is told only of an operation that had its last effect, or of  *)
(* a deletion that found no machine; and a failure, unless a call failed,  *)
(* a pod died or the operator restarted, only of one that had not: an      *)
(* executor that runs again on a stale copy of the operation is stopped by *)
(* its first note.  Start and Stop have none.  With the types of the state.*)
VerdictMatchesEffect ==
    /\ TypeOK
    /\ \A o \in Ops :
        /\ op[o].phase = "Succeeded" => Complete(o) \/ kind[o] = "Delete"
        /\ op[o].phase = "Failed" /\ faults = 0 /\ Noted(o) => ~Complete(o)

(* reconcileRunning: "Terminal states - do nothing".  No reconcile, late   *)
(* as its copy of the operation may be, changes a verdict that was given.  *)
TerminalIsFinal ==
    [][\A o \in Ops : op[o].phase \in Terminal => op'[o].phase \in {op[o].phase, "gone"}]_vars

(* A machine leaves "Migrating", which its own reconciler never touches,   *)
(* unless a migration was cancelled, or had a write of the machine refused *)
(* or a call fail. Edits of the machine at other times, pods that die and  *)
(* an operator that restarts half way do not leave it there: the operation *)
(* is executed again.                                                      *)
CutShort(o) == op[o].deleting \/ op[o].phase = "gone" \/ o \in refused

MigrationEnds ==
    (vm.phase = "Migrating")
        ~> \/ vm.phase # "Migrating"
           \/ \E o \in Ops : kind[o] = "Migrate" /\ CutShort(o)

AsWanted ==
    \/ vm.phase = "gone" /\ pod = "none"
    \/ ~vm.deleting /\ vm.wanted /\ vm.phase = "Running" /\ pod = "running"
    \/ ~vm.deleting /\ ~vm.wanted /\ vm.phase = "Stopped" /\ pod = "none"

(* The states no reconciler leaves: an interrupted migration, a failure    *)
(* without HA, and a machine that waits for a pod that died.               *)
Abandoned ==
    /\ ~vm.deleting
    /\ \/ vm.phase = "Migrating"
       \/ vm.phase = "Failed" /\ ~HA
       \/ vm.phase = "Creating" /\ pod = "dead"

(* When users and faults come to rest, so does the machine: as it is       *)
(* wanted, or in one of the states named above.                            *)
MachineSettles == <>[](AsWanted \/ Abandoned)
=============================================================================
