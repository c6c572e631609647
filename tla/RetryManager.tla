----------------------------- MODULE RetryManager -----------------------------
(***************************************************************************)
(* RetryManager (daemon/scheduler/retry.go): the retries of scheduled jobs *)
(* that failed.  A chain is a call of ScheduleRetry by a client and the    *)
(* goroutines that follow from it: each waits, submits the job and, when   *)
(* the submission is refused, schedules the next.  The table of attempts   *)
(* has one entry per job, whoever retries it.                              *)
(*                                                                         *)
(* Each section under rm.mu is an action; ShouldRetry takes the lock for   *)
(* its read only.  How long a chain waits is left out: any timer may fire. *)
(***************************************************************************)
EXTENDS Integers, FiniteSets

CONSTANTS Chains, RetriedJobs, RetriedJob,
          MaxAttempts,            \* policy.MaxAttempts
          Errors, RetryOnErrors,  \* errors of a run; those that match the policy
          MaxCalls, MaxSweeps     \* bounds on clients and on ClearOldRetries

(* The constants a scheduler may be given. *)
ChainsOk == IsFiniteSet(Chains) /\ RetriedJob \in [Chains -> RetriedJobs]
Policy ==
    /\ MaxAttempts \in Nat
    /\ RetryOnErrors \subseteq Errors

VARIABLES
    entry,     \* retryAttempts: Attempt of each job, 0 when it has none
    chainAt,   \* where the chain is
    err,       \* the error it goes by
    cancelled, \* chains whose context was cancelled
    calls,     \* clients' calls so far
    sweeps,    \* ClearOldRetries that hit an entry so far
    tries,     \* history: submissions of a chain, up to TriesCap
    robbed,    \* history: chains whose entry was deleted by another
    left       \* history: jobs whose entry was left by a chain that ended

retryVars == <<entry, chainAt, err, cancelled, calls, sweeps, tries, robbed, left>>

Max2(a, b) == IF a > b THEN a ELSE b

(* The chains at work on a job. *)
Chained(j) == {c \in Chains : RetriedJob[c] = j}
Active(j)  == {c \in Chained(j) : chainAt[c] # "free"}

(* More submissions than any entry may count are as bad as this many. *)
TriesCap == MaxAttempts + Cardinality(Chains)

RetryTypeOK ==
    /\ entry \in [RetriedJobs -> Nat]
    /\ chainAt \in [Chains -> {"free", "passed", "timer", "failed", "again", "clear"}]
    /\ tries \in [Chains -> Nat]
    /\ robbed \subseteq Chains

RetryInit ==
    /\ entry = [j \in RetriedJobs |-> 0]
    /\ chainAt = [c \in Chains |-> "free"] /\ err = [c \in Chains |-> "none"]
    /\ tries = [c \in Chains |-> 0]
    /\ cancelled = {} /\ robbed = {} /\ left = {}
    /\ calls = [c \in Chains |-> 0] /\ sweeps = 0

-----------------------------------------------------------------------------
(* ShouldRetry: true of a job without an entry, or with attempts left. *)
ShouldRetry(j, e) == entry[j] < MaxAttempts /\ e \in RetryOnErrors

(* A run of the job failed with e, and a client calls ScheduleRetry. *)
Call(c, e) ==
    /\ chainAt[c] = "free" /\ calls[c] < MaxCalls
    /\ calls' = [calls EXCEPT ![c] = @ + 1]
    /\ IF ShouldRetry(RetriedJob[c], e)
       THEN /\ chainAt' = [chainAt EXCEPT ![c] = "passed"]
            /\ err' = [err EXCEPT ![c] = e]
       ELSE UNCHANGED <<chainAt, err>>
    /\ UNCHANGED <<entry, cancelled, sweeps, tries, robbed, left>>

(* The rest of ScheduleRetry: the attempt is counted and executeRetry is   *)
(* started.                                                                *)
Schedule(c) ==
    /\ chainAt[c] = "passed"
    /\ entry' = [entry EXCEPT ![RetriedJob[c]] = @ + 1]
    /\ chainAt' = [chainAt EXCEPT ![c] = "timer"]
    /\ left' = left \ {RetriedJob[c]}
    /\ UNCHANGED <<err, cancelled, calls, sweeps, tries, robbed>>

(* The goroutine returns, and a client may use the name of its chain. *)
Ends(c) ==
    /\ chainAt' = [chainAt EXCEPT ![c] = "free"] /\ err' = [err EXCEPT ![c] = "none"]
    /\ tries' = [tries EXCEPT ![c] = 0]
    /\ cancelled' = cancelled \ {c}

(* The chain ends and leaves the entry of its job as it is. *)
EndsWithEntry(c) ==
    /\ Ends(c)
    /\ robbed' = robbed \ {c}
    /\ left' = IF entry[RetriedJob[c]] > 0 THEN left \cup {RetriedJob[c]} ELSE left
    /\ UNCHANGED <<entry, calls, sweeps>>

CancelContext(c) ==
    /\ chainAt[c] # "free" /\ c \notin cancelled
    /\ cancelled' = cancelled \cup {c}
    /\ UNCHANGED <<entry, chainAt, err, calls, sweeps, tries, robbed, left>>

(* executeRetry, case <-ctx.Done() *)
StopsWaiting(c) == chainAt[c] = "timer" /\ c \in cancelled /\ EndsWithEntry(c)

(* executeRetry, case <-timer.C: the job is submitted, or that fails. *)
Fire(c) ==
    /\ chainAt[c] = "timer"
    /\ tries' = [tries EXCEPT ![c] = IF @ < TriesCap THEN @ + 1 ELSE @]
    /\ \/ chainAt' = [chainAt EXCEPT ![c] = "clear"] /\ err' = [err EXCEPT ![c] = "none"]
       \/ \E e \in Errors : /\ chainAt' = [chainAt EXCEPT ![c] = "failed"]
                            /\ err' = [err EXCEPT ![c] = e]
    /\ UNCHANGED <<entry, cancelled, calls, sweeps, robbed, left>>

(* Should it be retried again? *)
AskAgain(c) ==
    /\ chainAt[c] = "failed"
    /\ chainAt' = [chainAt EXCEPT ![c] =
                       IF ShouldRetry(RetriedJob[c], err[c]) THEN "again" ELSE "clear"]
    /\ UNCHANGED <<entry, err, cancelled, calls, sweeps, tries, robbed, left>>

(* ScheduleRetry asks once more; if refused, its error is logged. *)
ScheduleAgain(c) ==
    /\ chainAt[c] = "again"
    /\ IF ShouldRetry(RetriedJob[c], err[c])
       THEN /\ chainAt' = [chainAt EXCEPT ![c] = "passed"]
            /\ UNCHANGED <<entry, err, cancelled, calls, sweeps, tries, robbed, left>>
       ELSE EndsWithEntry(c)

(* Deleting the entry of j, by the chains in own. *)
Delete(j, own) ==
    /\ entry' = [entry EXCEPT ![j] = 0]
    /\ robbed' = (robbed \cup Active(j)) \ own
    /\ left' = left \ {j}

(* ClearRetry after a success, or when there are no more retries. *)
ClearRetry(c) ==
    /\ chainAt[c] = "clear" /\ Ends(c)
    /\ Delete(RetriedJob[c], {c})
    /\ UNCHANGED <<calls, sweeps>>

(* ClearOldRetries: the last record is old, which a long wait allows.      *)
ClearOldRetry(j) ==
    /\ entry[j] > 0 /\ sweeps < MaxSweeps
    /\ sweeps' = sweeps + 1
    /\ Delete(j, {})
    /\ UNCHANGED <<chainAt, err, cancelled, calls, tries>>

Step(c) ==
    \/ Schedule(c) \/ StopsWaiting(c) \/ Fire(c)
    \/ AskAgain(c) \/ ScheduleAgain(c) \/ ClearRetry(c)

RetryNext ==
    \/ \E c \in Chains : Step(c) \/ CancelContext(c) \/ \E e \in Errors : Call(c, e)
    \/ \E j \in RetriedJobs : ClearOldRetry(j)

RetrySpec == RetryInit /\ [][RetryNext]_retryVars

-----------------------------------------------------------------------------
(* Properties. *)

(* RetryPolicy: "Maximum retry attempts".  The check is made before the    *)
(* lock is taken to count, so two failures of a job may pass it together;  *)
(* the excess is less than the number of chains at work on the job.        *)
Passed(j) == {c \in Chained(j) : chainAt[c] = "passed"}
AttemptsBounded ==
    \A j \in RetriedJobs : entry[j] <= Max2(0, MaxAttempts + Cardinality(Chained(j)) - 1)

(* A chain submits at most as often as the entry counts, as long as nobody *)
(* else deletes the entry under it.                                        *)
TriesCounted ==
    \A c \in Chains : chainAt[c] # "free" /\ c \notin robbed => tries[c] <= entry[RetriedJob[c]]

(* An entry is either worked on, or was left by a chain that was cancelled *)
(* or refused: a job that failed for good starts afresh next time.         *)
EntryAccounted ==
    \A j \in RetriedJobs : entry[j] > 0 => Active(j) # {} \/ j \in left
=============================================================================
