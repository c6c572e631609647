----------------------------- MODULE JobManager -----------------------------
(***************************************************************************)
(* The job manager of the daemon (daemon/jobs/manager.go): the job table   *)
(* behind Manager.mu, one goroutine per accepted job (executeJob), the     *)
(* WaitGroup Shutdown waits on, and the calls to the webhook manager.      *)
(*                                                                         *)
(* Every section under m.mu is one action; a handler that unlocks and      *)
(* locks again, or calls out between, is one action per section.  The      *)
(* exporter is external: it may report progress any number of times and    *)
(* returns a result or an error whether or not m.ctx was cancelled.        *)
(***************************************************************************)
EXTENDS Naturals, Sequences, FiniteSets

CONSTANTS Jobs,              \* the job IDs clients submit under
          WebhooksConfigured, \* m.webhookManager # nil
          Reports            \* progress reports the exporter may make per job

ASSUME JobsFinite == IsFiniteSet(Jobs)
ASSUME ConfiguredBoolean == WebhooksConfigured \in BOOLEAN
ASSUME ReportsNat == Reports \in Nat

VARIABLES
    status,     \* Job.Status, "absent" when the ID is not in m.jobs
    result,     \* Job.Result # nil
    completedAt, \* Job.CompletedAt # nil
    progress,   \* 0: nil, 1: "connecting", n + 1: the n-th report
    pc,         \* where SubmitJob and then executeJob are for the job
    wg,         \* the counter of m.wg
    cancelled,  \* m.ctx is cancelled
    shutdown,   \* Shutdown: "no", "waiting", "graceful", "timeout"
    sent        \* the webhookManager calls made for the job, in order

vars == <<status, result, completedAt, progress, pc, wg, cancelled, shutdown, sent>>

table == <<status, result, completedAt, progress>>

Statuses == {"pending", "running", "completed", "failed", "cancelled"}
Events   == {"created", "started", "completed", "failed", "cancelled"}
Steps    == {"none", "unlocked", "spawned", "started", "prepare", "exporting",
             "storing", "succeeding", "failing", "returned", "done"}

(* The steps at which the job's goroutine is counted by m.wg. *)
Tracked == {"spawned", "started", "prepare", "exporting", "storing",
            "succeeding", "failing", "returned"}

TypeOK ==
    /\ status \in [Jobs -> Statuses \cup {"absent"}]
    /\ result \in [Jobs -> BOOLEAN]
    /\ completedAt \in [Jobs -> BOOLEAN]
    /\ progress \in [Jobs -> Nat]
    /\ pc \in [Jobs -> Steps]
    /\ wg \in Nat
    /\ cancelled \in BOOLEAN
    /\ shutdown \in {"no", "waiting", "graceful", "timeout"}
    /\ sent \in [Jobs -> Seq(Events)]

Init ==
    /\ status = [j \in Jobs |-> "absent"]
    /\ result = [j \in Jobs |-> FALSE]
    /\ completedAt = [j \in Jobs |-> FALSE]
    /\ progress = [j \in Jobs |-> 0]
    /\ pc = [j \in Jobs |-> "none"]
    /\ wg = 0
    /\ cancelled = FALSE
    /\ shutdown = "no"
    /\ sent = [j \in Jobs |-> <<>>]

Notify(j, event) ==
    sent' = IF WebhooksConfigured
            THEN [sent EXCEPT ![j] = Append(@, event)]
            ELSE sent

Goto(j, from, to) ==
    /\ pc[j] = from
    /\ pc' = [pc EXCEPT ![j] = to]

-----------------------------------------------------------------------------
(* SubmitJob under m.mu.  A known ID is refused and changes nothing.  The  *)
(* manager accepts jobs whether or not Shutdown was called.                *)
SubmitJob(j) ==
    /\ status[j] = "absent"
    /\ status' = [status EXCEPT ![j] = "pending"]
    /\ Notify(j, "created")
    /\ Goto(j, "none", "unlocked")
    /\ UNCHANGED <<result, completedAt, progress, wg, cancelled, shutdown>>

(* Mutant: the go statement without m.wg.Add(1). *)
SpawnJobUncounted(j) ==
    /\ Goto(j, "unlocked", "spawned")
    /\ UNCHANGED <<table, wg, cancelled, shutdown, sent>>

(* SubmitJob after the unlock: m.wg.Add(1) and the go statement. *)
SpawnJob(j) ==
    /\ Goto(j, "unlocked", "spawned")
    /\ wg' = wg + 1
    /\ UNCHANGED <<table, cancelled, shutdown, sent>>

(* Mutant: CancelJob without its status check. *)
CancelJobAny(j) ==
    /\ status[j] # "absent"
    /\ status' = [status EXCEPT ![j] = "cancelled"]
    /\ completedAt' = [completedAt EXCEPT ![j] = TRUE]
    /\ Notify(j, "cancelled")
    /\ UNCHANGED <<result, progress, pc, wg, cancelled, shutdown>>

(* CancelJob: refused unless pending or running; it marks the job and does *)
(* not touch the goroutine that exports it.                                *)
CancelJob(j) ==
    /\ status[j] \in {"running", "pending"}
    /\ status' = [status EXCEPT ![j] = "cancelled"]
    /\ completedAt' = [completedAt EXCEPT ![j] = TRUE]
    /\ Notify(j, "cancelled")
    /\ UNCHANGED <<result, progress, pc, wg, cancelled, shutdown>>

(* executeJob, first section: running, whatever the status was. *)
StartJob(j) ==
    /\ Goto(j, "spawned", "started")
    /\ status' = [status EXCEPT ![j] = "running"]
    /\ progress' = [progress EXCEPT ![j] = 1]
    /\ UNCHANGED <<result, completedAt, wg, cancelled, shutdown, sent>>

(* executeJob after the unlock: SendJobStarted. *)
NotifyStarted(j) ==
    /\ Goto(j, "started", "prepare")
    /\ Notify(j, "started")
    /\ UNCHANGED <<table, wg, cancelled, shutdown>>

(* Mutant: an error before Export returns without a final status. *)
PrepareExportSilent(j) ==
    /\ \E next \in {"exporting", "returned"} : Goto(j, "prepare", next)
    /\ UNCHANGED <<table, wg, cancelled, shutdown, sent>>

(* runExport and runNutanixExport up to the call of Export: creating the   *)
(* exporter and validating the definition may each fail.                   *)
PrepareExport(j) ==
    /\ \E next \in {"exporting", "failing"} : Goto(j, "prepare", next)
    /\ UNCHANGED <<table, wg, cancelled, shutdown, sent>>

(* The progress callback of a running export. *)
UpdateProgress(j) ==
    /\ pc[j] = "exporting"
    /\ progress[j] <= Reports
    /\ progress' = [progress EXCEPT ![j] = @ + 1]
    /\ UNCHANGED <<status, result, completedAt, pc, wg, cancelled, shutdown, sent>>

(* exporter.Export returns a result or an error. *)
ExportReturns(j) ==
    /\ \E next \in {"storing", "failing"} : Goto(j, "exporting", next)
    /\ UNCHANGED <<table, wg, cancelled, shutdown, sent>>

(* runExport stores the result under m.mu. *)
StoreResult(j) ==
    /\ Goto(j, "storing", "succeeding")
    /\ result' = [result EXCEPT ![j] = TRUE]
    /\ UNCHANGED <<status, completedAt, progress, wg, cancelled, shutdown, sent>>

(* executeJob, last section: the final status, whatever the status was. *)
FinishJob(j) ==
    /\ \/ /\ Goto(j, "succeeding", "returned")
          /\ status' = [status EXCEPT ![j] = "completed"]
          /\ Notify(j, "completed")
       \/ /\ Goto(j, "failing", "returned")
          /\ status' = [status EXCEPT ![j] = "failed"]
          /\ Notify(j, "failed")
    /\ completedAt' = [completedAt EXCEPT ![j] = TRUE]
    /\ UNCHANGED <<result, progress, wg, cancelled, shutdown>>

(* The deferred m.wg.Done(). *)
GoroutineDone(j) ==
    /\ Goto(j, "returned", "done")
    /\ wg' = wg - 1
    /\ UNCHANGED <<table, cancelled, shutdown, sent>>

(* Shutdown: cancel the context, then wait for the WaitGroup or 30 s. *)
BeginShutdown ==
    /\ shutdown = "no"
    /\ cancelled' = TRUE
    /\ shutdown' = "waiting"
    /\ UNCHANGED <<table, pc, wg, sent>>

ShutdownGraceful ==
    /\ shutdown = "waiting"
    /\ wg = 0
    /\ shutdown' = "graceful"
    /\ UNCHANGED <<table, pc, wg, cancelled, sent>>

(* Mutant: no time.After case in the select. *)
ShutdownWaitsForever ==
    /\ shutdown = "waiting"
    /\ wg = 0
    /\ shutdown' = "timeout"
    /\ UNCHANGED <<table, pc, wg, cancelled, sent>>

ShutdownTimeout ==
    /\ shutdown = "waiting"
    /\ shutdown' = "timeout"
    /\ UNCHANGED <<table, pc, wg, cancelled, sent>>

-----------------------------------------------------------------------------
(* The steps of SubmitJob and executeJob other than the exporter's own. *)
Run(j) == \/ SpawnJob(j) \/ StartJob(j) \/ NotifyStarted(j) \/ PrepareExport(j)
          \/ StoreResult(j) \/ FinishJob(j) \/ GoroutineDone(j)

Next == \/ \E j \in Jobs : \/ SubmitJob(j) \/ CancelJob(j)
                           \/ Run(j) \/ UpdateProgress(j) \/ ExportReturns(j)
        \/ BeginShutdown \/ ShutdownGraceful \/ ShutdownTimeout

Spec == Init /\ [][Next]_vars

(* The Go scheduler runs every goroutine that can run and Shutdown's       *)
(* select fires.  Nobody must submit or cancel, and an exporter may hang.  *)
FairSpec == /\ Spec
            /\ \A j \in Jobs : WF_vars(Run(j))
            /\ WF_vars(ShutdownGraceful \/ ShutdownTimeout)

-----------------------------------------------------------------------------
Resolved(j) == status[j] \in {"completed", "failed"}

(***************************************************************************)
(* A job the daemon reports as pending or running has a goroutine that is  *)
(* still going to finish it, and a resolved job has none: executeJob       *)
(* writes the status in two sections and CancelJob may write between them. *)
(***************************************************************************)
StatusMatchesGoroutine ==
    \A j \in Jobs :
        /\ pc[j] = "none" <=> status[j] = "absent"
        /\ pc[j] \in {"unlocked", "spawned"} => status[j] \in {"pending", "cancelled"}
        /\ pc[j] \in Tracked \ {"spawned", "returned"} => status[j] \in {"running", "cancelled"}
        /\ pc[j] \in {"returned", "done"} => Resolved(j)

(***************************************************************************)
(* The stored result and the final status agree although they are written  *)
(* in two critical sections with CancelJob and progress reports between:   *)
(* a completed job has a result, a failed one has none, and a job is       *)
(* stamped completed exactly once it was cancelled or resolved.            *)
(***************************************************************************)
ResultMatchesStatus ==
    \A j \in Jobs :
        /\ status[j] = "completed" => result[j] /\ completedAt[j]
        /\ status[j] = "failed" => ~result[j] /\ completedAt[j]
        /\ status[j] = "cancelled" => completedAt[j]
        /\ result[j] => pc[j] \in {"succeeding", "returned", "done"}

(***************************************************************************)
(* m.wg counts the goroutines that run executeJob: it is what makes the    *)
(* graceful branch of Shutdown mean anything.                              *)
(***************************************************************************)
WaitGroupCounts == wg = Cardinality({j \in Jobs : pc[j] \in Tracked})

Count(j, event) == Cardinality({i \in DOMAIN sent[j] : sent[j][i] = event})

(***************************************************************************)
(* The calls SubmitJob, CancelJob and executeJob make to the webhook       *)
(* manager for one job: created comes first and once, started at most      *)
(* once, at most one of completed and failed and only as the last call,    *)
(* and cancelled at most twice (CancelJob before and after executeJob      *)
(* marks the job running again).                                           *)
(***************************************************************************)
WebhookStory ==
    \A j \in Jobs :
        /\ Count(j, "created") <= 1 /\ Count(j, "started") <= 1
        /\ Count(j, "cancelled") <= 2
        /\ sent[j] # <<>> => sent[j][1] = "created"
        /\ \A i \in DOMAIN sent[j] :
              sent[j][i] \in {"completed", "failed"} =>
                  i = Len(sent[j]) /\ status[j] = sent[j][i]
        /\ Resolved(j) /\ WebhooksConfigured => sent[j][Len(sent[j])] = status[j]

(***************************************************************************)
(* Shutdown reports "all jobs completed gracefully" only in a state in     *)
(* which no goroutine that m.wg tracks is left.                            *)
(***************************************************************************)
GracefulSeesNoJob ==
    [][shutdown # "graceful" /\ shutdown' = "graceful" =>
           \A j \in Jobs : pc[j] \notin Tracked]_vars

(***************************************************************************)
(* The manager implements the contract: accepted at most once, resolved    *)
(* at most once, for good, whatever CancelJob and Shutdown do meanwhile.   *)
(***************************************************************************)
outcome == [j \in Jobs |-> CASE status[j] = "absent" -> "absent"
                             [] Resolved(j)          -> status[j]
                             [] OTHER                -> "accepted"]

Contract == INSTANCE JobContract WITH Jobs <- Jobs, outcome <- outcome
ImplementsContract == Contract!Spec

(***************************************************************************)
(* If exporters return, every accepted job is resolved in the end: no path *)
(* through executeJob and runExport loses it, cancelled or not.            *)
(***************************************************************************)
ExportersReturn == \A j \in Jobs : WF_vars(ExportReturns(j))

EveryJobResolves ==
    ExportersReturn => \A j \in Jobs : status[j] = "pending" ~> Resolved(j)

(***************************************************************************)
(* Shutdown returns even when an export hangs for ever.                    *)
(***************************************************************************)
ShutdownReturns == shutdown = "waiting" ~> shutdown \in {"graceful", "timeout"}
=============================================================================
