------------------------------ MODULE JobQueue ------------------------------
(***************************************************************************)
(* The priority work queue (daemon/queue/queue.go): clients enqueue jobs,  *)
(* MaxWorkers goroutines dequeue and run them, failed runs are enqueued    *)
(* again after a pause, results go through a bounded channel to one        *)
(* collector that keeps the metrics, and Shutdown stops everyone.          *)
(*                                                                         *)
(* The heap (container/heap, external) is the set of queued jobs: Pop      *)
(* returns a job that no other precedes under Less.  A client enqueues a   *)
(* Job value once, with SubmittedAt zero, and again only if it was refused.*)
(***************************************************************************)
EXTENDS Integers, Sequences, FiniteSets

CONSTANTS Jobs, Workers,
          Priority,       \* Job.Priority of each job
          MaxRetries,     \* Job.MaxRetries of each job
          MaxQueueSize,   \* Config.MaxQueueSize
          ResultsCap,     \* capacity of q.results (100 in the code)
          MaxClock        \* bound on the clock that stamps SubmittedAt

ASSUME FiniteSets == IsFiniteSet(Jobs) /\ IsFiniteSet(Workers)
ASSUME JobFields == Priority \in [Jobs -> Nat] /\ MaxRetries \in [Jobs -> Nat]
ASSUME Bounds == /\ MaxQueueSize \in Nat /\ ResultsCap \in Nat
                 /\ MaxClock \in Nat \ {0}
ASSUME NoJobKnown == "none" \notin Jobs

VARIABLES
    queue,       \* the jobs in q.pq
    submittedAt, \* Job.SubmittedAt, 0 when zero
    retryCount,  \* Job.RetryCount
    clock,       \* time.Now
    at,          \* where each worker is
    holds,       \* the job it is processing, or "none"
    verdict,     \* the result it is about to send: it succeeded or not
    results,     \* the results channel
    metrics,     \* q.metrics, without durations and timeouts
    done,        \* q.ctx is cancelled
    collector,   \* the collector goroutine runs
    shutdown,    \* Shutdown: "no", "waiting", "ok", "expired"
    runs,        \* history: handler calls begun for each job
    finished,    \* history: jobs whose last run is over
    dropped      \* history: results lost to a full channel

vars == <<queue, submittedAt, retryCount, clock, at, holds, verdict, results,
          metrics, done, collector, shutdown, runs, finished, dropped>>

jobVars    == <<submittedAt, retryCount, runs, finished>>
workerVars == <<at, holds, verdict>>
resultVars == <<results, collector, dropped>>
stopVars   == <<done, shutdown>>

Counters == {"enqueued", "dequeued", "completed", "failed", "retried"}
Places == {"idle", "ready", "running", "backoff", "sending", "exited"}

TypeOK ==
    /\ queue \subseteq Jobs
    /\ submittedAt \in [Jobs -> 0 .. MaxClock]
    /\ retryCount \in [Jobs -> Nat]
    /\ clock \in 1 .. MaxClock
    /\ at \in [Workers -> Places]
    /\ holds \in [Workers -> Jobs \cup {"none"}]
    /\ verdict \in [Workers -> BOOLEAN]
    /\ results \in Seq(BOOLEAN)
    /\ metrics \in [Counters -> Nat]
    /\ done \in BOOLEAN /\ collector \in BOOLEAN
    /\ shutdown \in {"no", "waiting", "ok", "expired"}
    /\ runs \in [Jobs -> Nat]
    /\ finished \subseteq Jobs
    /\ dropped \in Nat

Init ==
    /\ queue = {}
    /\ submittedAt = [j \in Jobs |-> 0]
    /\ retryCount = [j \in Jobs |-> 0]
    /\ clock = 1
    /\ at = [w \in Workers |-> "idle"]
    /\ holds = [w \in Workers |-> "none"]
    /\ verdict = [w \in Workers |-> FALSE]
    /\ results = <<>>
    /\ metrics = [c \in Counters |-> 0]
    /\ done = FALSE
    /\ collector = TRUE
    /\ shutdown = "no"
    /\ runs = [j \in Jobs |-> 0]
    /\ finished = {}
    /\ dropped = 0

Full == Cardinality(queue) >= MaxQueueSize

Count(c) == metrics' = [metrics EXCEPT ![c] = @ + 1]

(* Mutant: the oldest job goes last within a priority. *)
LessReversed(j, k) ==
    \/ Priority[j] > Priority[k]
    \/ Priority[j] = Priority[k] /\ submittedAt[j] > submittedAt[k]

(* priorityQueue.Less: higher priority first, then earlier submission. *)
Less(j, k) ==
    \/ Priority[j] > Priority[k]
    \/ Priority[j] = Priority[k] /\ submittedAt[j] < submittedAt[k]

-----------------------------------------------------------------------------
(* Time passes; two submissions may carry the same stamp. *)
Tick == /\ clock < MaxClock
        /\ clock' = clock + 1
        /\ UNCHANGED <<queue, jobVars, workerVars, resultVars, metrics, stopVars>>

(* Enqueue by a client.  It is refused when the queue is full, and is not  *)
(* refused after Shutdown.                                                 *)
Enqueue(j) ==
    /\ j \notin queue /\ submittedAt[j] = 0
    /\ ~Full
    /\ submittedAt' = [submittedAt EXCEPT ![j] = clock]
    /\ queue' = queue \cup {j}
    /\ Count("enqueued")
    /\ UNCHANGED <<retryCount, runs, finished, clock, workerVars, resultVars, stopVars>>

(* worker.run, the select: leave when the context is done. *)
WorkerLoop(w) ==
    /\ at[w] = "idle"
    /\ at' = [at EXCEPT ![w] = IF done THEN "exited" ELSE "ready"]
    /\ UNCHANGED <<queue, jobVars, clock, holds, verdict, resultVars, metrics, stopVars>>

(* Mutant: the job is read from the heap and not removed. *)
DequeuePeek(w) ==
    /\ at[w] = "ready"
    /\ \E j \in queue :
          /\ \A k \in queue : ~Less(k, j)
          /\ holds' = [holds EXCEPT ![w] = j]
          /\ at' = [at EXCEPT ![w] = "running"]
          /\ runs' = [runs EXCEPT ![j] = @ + 1]
          /\ Count("dequeued")
    /\ UNCHANGED <<queue, submittedAt, retryCount, finished, clock, verdict, resultVars, stopVars>>

(* worker.run: Dequeue under q.mu and, with a job, the call of processJob  *)
(* up to the handler; an empty queue sends the worker back to the select.  *)
Dequeue(w) ==
    /\ at[w] = "ready"
    /\ \E j \in queue :
          /\ \A k \in queue : ~Less(k, j)
          /\ queue' = queue \ {j}
          /\ holds' = [holds EXCEPT ![w] = j]
          /\ at' = [at EXCEPT ![w] = "running"]
          /\ runs' = [runs EXCEPT ![j] = @ + 1]
          /\ Count("dequeued")
    /\ UNCHANGED <<submittedAt, retryCount, finished, clock, verdict, resultVars, stopVars>>

DequeueEmpty(w) ==
    /\ at[w] = "ready"
    /\ queue = {}
    /\ at' = [at EXCEPT ![w] = "idle"]
    /\ UNCHANGED <<queue, jobVars, clock, holds, verdict, resultVars, metrics, stopVars>>

(* The end of a run: the result the worker will send, nothing left to retry. *)
Settle(w, ok) ==
    /\ verdict' = [verdict EXCEPT ![w] = ok]
    /\ at' = [at EXCEPT ![w] = "sending"]
    /\ finished' = finished \cup {holds[w]}

(* Mutant: <= for < in the retry test. *)
MayRetryOneMore(j) == retryCount[j] <= MaxRetries[j]

MayRetry(j) == retryCount[j] < MaxRetries[j]

(* processJob from the return of the handler: an error, or an expired      *)
(* deadline whatever the handler returned, is retried while RetryCount is  *)
(* below MaxRetries.                                                       *)
HandlerReturns(w) ==
    /\ at[w] = "running"
    /\ \E failed \in BOOLEAN :
         LET j == holds[w]
         IN  \/ /\ failed /\ MayRetry(j)
                /\ retryCount' = [retryCount EXCEPT ![j] = @ + 1]
                /\ at' = [at EXCEPT ![w] = "backoff"]
                /\ Count("retried")
                /\ UNCHANGED <<verdict, finished>>
             \/ /\ ~(failed /\ MayRetry(j))
                /\ Settle(w, ~failed)
                /\ UNCHANGED <<retryCount, metrics>>
    /\ UNCHANGED <<queue, submittedAt, runs, clock, holds, resultVars, stopVars>>

(* Mutant: a full queue drops the job that should be retried. *)
ReEnqueueDrops(w) ==
    /\ at[w] = "backoff"
    /\ at' = [at EXCEPT ![w] = "idle"]
    /\ holds' = [holds EXCEPT ![w] = "none"]
    /\ verdict' = [verdict EXCEPT ![w] = FALSE]
    /\ \/ ~Full /\ queue' = queue \cup {holds[w]} /\ Count("enqueued")
       \/ Full /\ UNCHANGED <<queue, metrics>>
    /\ UNCHANGED <<jobVars, clock, resultVars, stopVars>>

(* processJob after the pause: enqueue again, keeping SubmittedAt; when the *)
(* queue is full the failure is reported instead.                          *)
ReEnqueue(w) ==
    /\ at[w] = "backoff"
    /\ \/ /\ ~Full
          /\ queue' = queue \cup {holds[w]}
          /\ Count("enqueued")
          /\ at' = [at EXCEPT ![w] = "idle"]
          /\ holds' = [holds EXCEPT ![w] = "none"]
          /\ verdict' = [verdict EXCEPT ![w] = FALSE]
          /\ UNCHANGED finished
       \/ /\ Full
          /\ Settle(w, FALSE)
          /\ UNCHANGED <<queue, metrics, holds>>
    /\ UNCHANGED <<submittedAt, retryCount, runs, clock, resultVars, stopVars>>

(* processJob, the last select: a full channel drops the result. *)
SendResult(w) ==
    /\ at[w] = "sending"
    /\ \/ /\ Len(results) < ResultsCap
          /\ results' = Append(results, verdict[w])
          /\ UNCHANGED dropped
       \/ /\ Len(results) >= ResultsCap
          /\ dropped' = dropped + 1
          /\ UNCHANGED results
    /\ at' = [at EXCEPT ![w] = "idle"]
    /\ holds' = [holds EXCEPT ![w] = "none"]
    /\ verdict' = [verdict EXCEPT ![w] = FALSE]
    /\ UNCHANGED <<queue, jobVars, clock, collector, metrics, stopVars>>

(* Mutant: handleResult counts every result as completed and as failed. *)
CollectResultTwice ==
    /\ collector /\ results # <<>>
    /\ metrics' = [metrics EXCEPT !["completed"] = @ + 1, !["failed"] = @ + 1]
    /\ results' = Tail(results)
    /\ UNCHANGED <<queue, jobVars, clock, workerVars, collector, dropped, stopVars>>

(* collectResults: one result into handleResult. *)
CollectResult ==
    /\ collector /\ results # <<>>
    /\ Count(IF Head(results) THEN "completed" ELSE "failed")
    /\ results' = Tail(results)
    /\ UNCHANGED <<queue, jobVars, clock, workerVars, collector, dropped, stopVars>>

(* collectResults leaves as soon as its select picks the context. *)
CollectorExit ==
    /\ collector /\ done
    /\ collector' = FALSE
    /\ UNCHANGED <<queue, jobVars, clock, workerVars, results, dropped, metrics, stopVars>>

(* Shutdown: cancel, then wait for every goroutine or the caller's context. *)
BeginShutdown ==
    /\ shutdown = "no"
    /\ done' = TRUE
    /\ shutdown' = "waiting"
    /\ UNCHANGED <<queue, jobVars, clock, workerVars, resultVars, metrics>>

Stopped == ~collector /\ \A w \in Workers : at[w] = "exited"

ShutdownReturns ==
    /\ shutdown = "waiting"
    /\ \/ Stopped /\ shutdown' = "ok"
       \/ shutdown' = "expired"
    /\ UNCHANGED <<queue, jobVars, clock, workerVars, resultVars, metrics, done>>

-----------------------------------------------------------------------------
(* The worker's own steps: it waits for nobody in them. *)
Proceed(w) == WorkerLoop(w) \/ Dequeue(w) \/ DequeueEmpty(w) \/ ReEnqueue(w) \/ SendResult(w)

Work(w) == Proceed(w) \/ HandlerReturns(w)

Collect == CollectResult \/ CollectorExit

Next == \/ Tick \/ Collect \/ BeginShutdown \/ ShutdownReturns
        \/ \E j \in Jobs : Enqueue(j)
        \/ \E w \in Workers : Work(w)

Spec == Init /\ [][Next]_vars

(* Every goroutine that can run does.  A handler need not return: its      *)
(* deadline is a context that it may ignore, and the worker waits for it.  *)
(* Nobody must enqueue or shut down.                                       *)
FairSpec == Spec /\ WF_vars(Collect) /\ \A w \in Workers : WF_vars(Proceed(w))
-----------------------------------------------------------------------------
Accepted(j) == submittedAt[j] # 0

(***************************************************************************)
(* No job is lost or run twice at a time: an accepted job is queued, held  *)
(* by one worker, or finished, and in only one of these places, through    *)
(* every retry, full queue and shutdown.                                   *)
(***************************************************************************)
OnePlace ==
    /\ \A v, w \in Workers : holds[v] = holds[w] => v = w \/ holds[v] = "none"
    /\ \A w \in Workers : holds[w] \notin queue
    /\ queue \cap finished = {}
    /\ \A j \in Jobs : Accepted(j) =>
          j \in queue \/ j \in finished \/ \E w \in Workers : holds[w] = j
    /\ \A w \in Workers : holds[w] \in finished => at[w] = "sending"

(***************************************************************************)
(* Enqueue is called by clients and by retrying workers, and the results   *)
(* channel is filled by all workers: neither outgrows its limit.           *)
(***************************************************************************)
CapacityRespected ==
    Cardinality(queue) <= MaxQueueSize /\ Len(results) <= ResultsCap

Busy == {w \in Workers : holds[w] # "none"}

(***************************************************************************)
(* The metrics balance although each counter is updated by another         *)
(* goroutine: enqueued and dequeued differ by the queue's size, and every  *)
(* dequeued run is still held, enqueued again, waiting in the channel,     *)
(* dropped at a full channel, or counted as completed or failed; and only  *)
(* a retry is enqueued again.                                              *)
(***************************************************************************)
MetricsBalance ==
    LET accepted == Cardinality({j \in Jobs : Accepted(j)})
    IN  /\ metrics["enqueued"] - metrics["dequeued"] = Cardinality(queue)
        /\ metrics["dequeued"] = Cardinality(Busy) + (metrics["enqueued"] - accepted)
                                 + Len(results) + dropped
                                 + metrics["completed"] + metrics["failed"]
        /\ metrics["enqueued"] - accepted <= metrics["retried"]

(***************************************************************************)
(* First runs of equal priority begin in submission order, though any      *)
(* worker may dequeue and retried jobs return to the queue with their old  *)
(* stamp (README: "FIFO Within Priority").                                 *)
(***************************************************************************)
FifoWithinPriority ==
    \A j, k \in Jobs :
        /\ Priority[j] = Priority[k] /\ Accepted(j)
        /\ submittedAt[j] < submittedAt[k]
        /\ runs[k] > 0
        => runs[j] > 0

(***************************************************************************)
(* The queue implements the contract of a single job: one worker at a      *)
(* time, at most MaxRetries + 1 runs, none after the last.                 *)
(***************************************************************************)
phase == [j \in Jobs |-> IF ~Accepted(j)        THEN "absent"
                         ELSE IF j \in queue    THEN "waiting"
                         ELSE IF j \in finished THEN "finished"
                         ELSE "running"]

Contract == INSTANCE QueueContract WITH phase <- phase, runs <- runs
ImplementsContract == Contract!Spec

(***************************************************************************)
(* As long as the handlers of one worker return, handlers that hang cost   *)
(* no job but those they hold: every accepted job is finished, unless the  *)
(* queue is shut down or the job's own handler never returns.  Retries are *)
(* bounded and no worker gets stuck elsewhere.  Jobs is finite: an endless *)
(* stream of more urgent jobs may starve a less urgent one in the code.    *)
(***************************************************************************)
Returns(w) == []<>(at[w] # "running")
Hangs(j)   == <>[](\E w \in Workers : at[w] = "running" /\ holds[w] = j)

EveryJobFinishes ==
    (\E w \in Workers : Returns(w)) =>
        \A j \in Jobs : Hangs(j) \/ (Accepted(j) ~> (j \in finished \/ done))

(***************************************************************************)
(* Enqueue does not look at the context: a retry is accepted after         *)
(* Shutdown, and its result is never sent (processJob's comment: "instead  *)
(* of silently dropping the job").  Nothing else is lost: when everything  *)
(* has stopped, a job that ran is finished or still in the queue.          *)
(***************************************************************************)
LostOnlyInQueue ==
    Stopped => \A j \in Jobs : runs[j] > 0 => j \in finished \cup queue
=============================================================================
