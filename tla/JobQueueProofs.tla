--------------------------- MODULE JobQueueProofs ---------------------------
(***************************************************************************)
(* Proofs about the priority queue, for any jobs, priorities, retries,     *)
(* workers and limits.                                                     *)
(*                                                                         *)
(* What the properties need beyond themselves: a worker holds a job exactly*)
(* between Dequeue and the end of processJob (HoldsWhere), and a worker    *)
(* that sends a result holds a finished one (SendsFinished); a job nobody  *)
(* submitted is nowhere (Unknown), and one that never ran is in the queue  *)
(* (FirstRun), stamped no later than now; and the runs of a job are its    *)
(* retries, and one more while its handler runs (RunsCounted).  The        *)
(* metrics balance because every worker that pauses has counted its retry  *)
(* already (Balanced).                                                     *)
(***************************************************************************)
EXTENDS JobQueue, FiniteSetTheorems, TLAPS

HoldsWhere ==
    \A w \in Workers : holds[w] # "none" <=> at[w] \in {"running", "backoff", "sending"}

SendsFinished == \A w \in Workers : at[w] = "sending" => holds[w] \in finished

Unknown ==
    \A j \in Jobs : ~Accepted(j) =>
        /\ j \notin queue /\ j \notin finished
        /\ \A w \in Workers : holds[w] # j
        /\ runs[j] = 0

FirstRun ==
    \A j \in Jobs : /\ submittedAt[j] <= clock
                    /\ Accepted(j) /\ runs[j] = 0 => j \in queue

RunsCounted ==
    \A j \in Jobs :
        /\ retryCount[j] <= MaxRetries[j]
        /\ ~Accepted(j) => retryCount[j] = 0
        /\ j \in queue => runs[j] = retryCount[j]
        /\ \A w \in Workers : holds[w] = j =>
              /\ at[w] = "running" => runs[j] = retryCount[j] + 1
              /\ at[w] = "backoff" => runs[j] = retryCount[j]

Known  == {j \in Jobs : Accepted(j)}
Paused == {w \in Workers : at[w] = "backoff"}

(* Enqueued, dequeued, completed, failed and retried; the jobs in the queue, *)
(* known, busy workers, paused ones, and results in the channel or dropped.  *)
Sums(e, d, c, f, r, q, k, b, p, l) ==
    /\ e - d = q
    /\ d = b + (e - k) + l + c + f
    /\ e - k + p <= r

Balanced ==
    Sums(metrics["enqueued"], metrics["dequeued"], metrics["completed"],
         metrics["failed"], metrics["retried"], Cardinality(queue),
         Cardinality(Known), Cardinality(Busy), Cardinality(Paused),
         Len(results) + dropped)

PlaceInv == TypeOK /\ HoldsWhere /\ SendsFinished /\ Unknown /\ OnePlace

Inv == /\ PlaceInv /\ CapacityRespected /\ RunsCounted /\ Balanced
       /\ FirstRun /\ FifoWithinPriority

-----------------------------------------------------------------------------
(* The constants' assumptions in the form the steps use. *)
LEMMA Constants ==
    /\ \A j \in Jobs : Priority[j] \in Nat /\ MaxRetries[j] \in Nat
    /\ MaxQueueSize \in Nat /\ ResultsCap \in Nat /\ MaxClock \in Nat \ {0}
    /\ "none" \notin Jobs
BY JobFields, Bounds, NoJobKnown

(* The queue is finite. *)
LEMMA Finite ==
    ASSUME NEW S, S \subseteq Jobs
    PROVE  IsFiniteSet(S) /\ Cardinality(S) \in Nat
BY FiniteSets, FS_Subset, FS_CardinalityType

(* The results channel holds results. *)
LEMMA AppendBoolean ==
    ASSUME NEW S, NEW q \in Seq(S), NEW b \in S PROVE Append(q, b) \in Seq(S)
OBVIOUS

LEMMA TailBoolean ==
    ASSUME NEW S, NEW q \in Seq(S), q # <<>>
    PROVE  /\ Tail(q) \in Seq(S) /\ Len(Tail(q)) \in Nat
           /\ Len(Tail(q)) < Len(q)
OBVIOUS

(* The initial state satisfies the invariant: nothing was submitted. *)
LEMMA InitInv == Init => Inv
<1> SUFFICES ASSUME Init PROVE Inv
  OBVIOUS
<1> USE Constants DEF Init
<1>1. TypeOK
  <2>1. /\ submittedAt \in [Jobs -> 0 .. MaxClock] /\ clock \in 1 .. MaxClock
        /\ retryCount \in [Jobs -> Nat] /\ runs \in [Jobs -> Nat]
    <3>1. 0 \in 0 .. MaxClock /\ 1 \in 1 .. MaxClock
      OBVIOUS
    <3> QED BY <3>1, Zenon
  <2>2. /\ verdict \in [Workers -> BOOLEAN]
        /\ done \in BOOLEAN /\ collector \in BOOLEAN
    OBVIOUS
  <2>4. results \in Seq(BOOLEAN)
    OBVIOUS
  <2>3. /\ at \in [Workers -> Places] /\ holds \in [Workers -> Jobs \cup {"none"}]
        /\ metrics \in [Counters -> Nat]
    BY DEF Places
  <2> QED BY <2>1, <2>2, <2>3, <2>4 DEF TypeOK
<1>2. HoldsWhere /\ SendsFinished /\ Unknown /\ OnePlace
  BY DEF HoldsWhere, SendsFinished, Unknown, OnePlace, Accepted
<1>3. CapacityRespected BY FS_EmptySet DEF CapacityRespected
<1>4. RunsCounted /\ FirstRun /\ FifoWithinPriority
  BY DEF RunsCounted, FirstRun, FifoWithinPriority, Accepted
<1>5. Balanced
  <2>1. Known = {} /\ Busy = {} /\ Paused = {} BY DEF Known, Busy, Paused, Accepted
  <2> QED BY <2>1, FS_EmptySet DEF Balanced, Counters, Sums
<1> QED BY <1>1, <1>2, <1>3, <1>4, <1>5 DEF Inv, PlaceInv

-----------------------------------------------------------------------------
(* The types are inductive with HoldsWhere. *)
LEMMA StepType == TypeOK /\ HoldsWhere /\ [Next]_vars => TypeOK' /\ HoldsWhere'
<1> SUFFICES ASSUME TypeOK, HoldsWhere, [Next]_vars PROVE TypeOK' /\ HoldsWhere'
  OBVIOUS
<1> USE Constants DEF TypeOK, HoldsWhere, Places, jobVars, workerVars, resultVars, stopVars
<1>0. ASSUME NEW m \in Counters, Count(m) PROVE metrics' \in [Counters -> Nat]
  BY <1>0 DEF Count
<1>1. CASE Tick BY <1>1 DEF Tick
<1>2. ASSUME NEW j \in Jobs, Enqueue(j) PROVE TypeOK' /\ HoldsWhere'
  <2>1. submittedAt' \in [Jobs -> 0 .. MaxClock]
    <3>1. clock \in 0 .. MaxClock
      OBVIOUS
    <3> QED BY <1>2, <3>1 DEF Enqueue
  <2>2. metrics' \in [Counters -> Nat] BY <1>0, <1>2 DEF Enqueue, Counters
  <2> QED BY <1>2, <2>1, <2>2 DEF Enqueue
<1>3. ASSUME NEW w \in Workers, WorkerLoop(w) \/ DequeueEmpty(w)
      PROVE  TypeOK' /\ HoldsWhere'
  BY <1>3 DEF WorkerLoop, DequeueEmpty
<1>4. ASSUME NEW w \in Workers, Dequeue(w) PROVE TypeOK' /\ HoldsWhere'
  <2>1. metrics' \in [Counters -> Nat] BY <1>0, <1>4 DEF Dequeue, Counters
  <2>2. PICK j \in queue : /\ queue' = queue \ {j}
                           /\ holds' = [holds EXCEPT ![w] = j]
                           /\ at' = [at EXCEPT ![w] = "running"]
                           /\ runs' = [runs EXCEPT ![j] = @ + 1]
    BY <1>4 DEF Dequeue
  <2>3. runs' \in [Jobs -> Nat] BY <2>2
  <2>4. /\ holds' \in [Workers -> Jobs \cup {"none"}] /\ at' \in [Workers -> Places]
        /\ HoldsWhere'
    BY <2>2
  <2> QED BY <1>4, <2>1, <2>2, <2>3, <2>4 DEF Dequeue
<1>5. ASSUME NEW w \in Workers, HandlerReturns(w) PROVE TypeOK' /\ HoldsWhere'
  <2> DEFINE j == holds[w]
  <2>0. j \in Jobs BY <1>5 DEF HandlerReturns
  <2>1. CASE /\ retryCount' = [retryCount EXCEPT ![j] = @ + 1]
             /\ at' = [at EXCEPT ![w] = "backoff"]
             /\ Count("retried") /\ UNCHANGED <<verdict, finished>>
    <3>1. metrics' \in [Counters -> Nat] BY <1>0, <2>1 DEF Counters
    <3>2. retryCount' \in [Jobs -> Nat] BY <2>0, <2>1
    <3> QED BY <1>5, <2>1, <3>1, <3>2 DEF HandlerReturns
  <2>2. ASSUME NEW ok \in BOOLEAN, Settle(w, ok), UNCHANGED <<retryCount, metrics>>
        PROVE  TypeOK' /\ HoldsWhere'
    <3>1. verdict' \in [Workers -> BOOLEAN] BY <2>2 DEF Settle
    <3> QED BY <1>5, <2>0, <2>2, <3>1 DEF HandlerReturns, Settle
  <2> QED BY <1>5, <2>1, <2>2 DEF HandlerReturns
<1>6. ASSUME NEW w \in Workers, ReEnqueue(w) PROVE TypeOK' /\ HoldsWhere'
  <2>0. holds[w] \in Jobs /\ at[w] = "backoff" BY <1>6 DEF ReEnqueue
  <2>1. verdict' \in [Workers -> BOOLEAN] BY <1>6 DEF ReEnqueue, Settle
  <2>2. metrics' \in [Counters -> Nat] BY <1>0, <1>6 DEF ReEnqueue, Counters
  <2>3. CASE Full BY <1>6, <2>0, <2>1, <2>2, <2>3 DEF ReEnqueue, Settle
  <2>4. CASE ~Full BY <1>6, <2>0, <2>1, <2>2, <2>4 DEF ReEnqueue
  <2> QED BY <2>3, <2>4
<1>7. ASSUME NEW w \in Workers, SendResult(w) PROVE TypeOK' /\ HoldsWhere'
  <2>1. verdict' \in [Workers -> BOOLEAN] BY <1>7 DEF SendResult
  <2>2. results' \in Seq(BOOLEAN) /\ dropped' \in Nat
    <3>1. Append(results, verdict[w]) \in Seq(BOOLEAN) BY AppendBoolean
    <3>2. CASE results' = Append(results, verdict[w]) /\ dropped' = dropped
      BY <3>1, <3>2
    <3>3. CASE results' = results /\ dropped' = dropped + 1
      BY <3>3
    <3> QED BY <1>7, <3>2, <3>3 DEF SendResult
  <2> QED BY <1>7, <2>1, <2>2 DEF SendResult
<1>8. CASE CollectResult
  <2>1. metrics' \in [Counters -> Nat] BY <1>0, <1>8 DEF CollectResult, Counters
  <2>2. results' \in Seq(BOOLEAN) BY <1>8, TailBoolean DEF CollectResult
  <2> QED BY <1>8, <2>1, <2>2 DEF CollectResult
<1>9. CASE CollectorExit \/ BeginShutdown \/ ShutdownReturns
  BY <1>9 DEF CollectorExit, BeginShutdown, ShutdownReturns
<1>10. CASE UNCHANGED vars BY <1>10 DEF vars
<1> QED BY <1>1, <1>2, <1>3, <1>4, <1>5, <1>6, <1>7, <1>8, <1>9, <1>10
     DEF Next, Work, Proceed, Collect

-----------------------------------------------------------------------------
(* What a step does to the jobs, by the kind of step.  These are all the   *)
(* facts the properties of jobs need; the rest of the state is abstracted. *)
Sleeps ==
    UNCHANGED <<queue, submittedAt, retryCount, runs, finished, holds>>

Idles ==
    /\ Sleeps /\ clock <= clock' /\ clock' \in Nat
    /\ \A w \in Workers : at'[w] = at[w] \/ {at[w], at'[w]} \subseteq {"idle", "ready", "exited"}

Submits(j) ==
    /\ j \notin queue /\ ~Accepted(j) /\ ~Full
    /\ submittedAt' = [submittedAt EXCEPT ![j] = clock] /\ queue' = queue \cup {j}
    /\ UNCHANGED <<retryCount, runs, finished, clock, at, holds>>

Begins(w, j) ==
    /\ at[w] = "ready" /\ j \in queue /\ \A k \in queue : ~Less(k, j)
    /\ queue' = queue \ {j} /\ runs' = [runs EXCEPT ![j] = @ + 1]
    /\ holds' = [holds EXCEPT ![w] = j] /\ at' = [at EXCEPT ![w] = "running"]
    /\ UNCHANGED <<submittedAt, retryCount, finished, clock>>

Pauses(w, j) ==
    /\ at[w] = "running" /\ holds[w] = j /\ MayRetry(j)
    /\ retryCount' = [retryCount EXCEPT ![j] = @ + 1]
    /\ at' = [at EXCEPT ![w] = "backoff"]
    /\ UNCHANGED <<queue, submittedAt, runs, finished, clock, holds>>

Settles(w, j) ==
    /\ at[w] \in {"running", "backoff"} /\ holds[w] = j
    /\ at' = [at EXCEPT ![w] = "sending"] /\ finished' = finished \cup {j}
    /\ UNCHANGED <<queue, submittedAt, retryCount, runs, clock, holds>>

Requeues(w, j) ==
    /\ at[w] = "backoff" /\ holds[w] = j /\ ~Full
    /\ queue' = queue \cup {j}
    /\ holds' = [holds EXCEPT ![w] = "none"] /\ at' = [at EXCEPT ![w] = "idle"]
    /\ UNCHANGED <<submittedAt, retryCount, runs, finished, clock>>

Sends(w) ==
    /\ at[w] = "sending"
    /\ holds' = [holds EXCEPT ![w] = "none"] /\ at' = [at EXCEPT ![w] = "idle"]
    /\ UNCHANGED <<queue, submittedAt, retryCount, runs, finished, clock>>

LEMMA Kinds ==
    ASSUME TypeOK, HoldsWhere, [Next]_vars
    PROVE  \/ Idles
           \/ \E j \in Jobs : Submits(j)
           \/ \E w \in Workers : Sends(w)
           \/ \E w \in Workers, j \in Jobs :
                 Begins(w, j) \/ Pauses(w, j) \/ Settles(w, j) \/ Requeues(w, j)
<1> USE DEF Sleeps, jobVars, workerVars, resultVars, stopVars
<1>0. clock \in Nat BY Constants DEF TypeOK
<1>1. CASE Tick BY <1>0, <1>1 DEF Tick, Idles
<1>2. ASSUME NEW j \in Jobs, Enqueue(j) PROVE Submits(j)
  BY <1>2 DEF Enqueue, Submits, Accepted
<1>3. ASSUME NEW w \in Workers, WorkerLoop(w) \/ DequeueEmpty(w) PROVE Idles
  BY <1>0, <1>3 DEF WorkerLoop, DequeueEmpty, Idles, TypeOK
<1>4. ASSUME NEW w \in Workers, Dequeue(w) PROVE \E j \in Jobs : Begins(w, j)
  BY <1>4 DEF Dequeue, Begins, TypeOK
<1>5. ASSUME NEW w \in Workers, HandlerReturns(w)
      PROVE  holds[w] \in Jobs /\ (Pauses(w, holds[w]) \/ Settles(w, holds[w]))
  <2>1. holds[w] \in Jobs BY <1>5 DEF HandlerReturns, HoldsWhere, TypeOK
  <2> QED BY <1>5, <2>1 DEF HandlerReturns, Settle, Pauses, Settles
<1>6. ASSUME NEW w \in Workers, ReEnqueue(w)
      PROVE  holds[w] \in Jobs /\ (Requeues(w, holds[w]) \/ Settles(w, holds[w]))
  <2>1. holds[w] \in Jobs BY <1>6 DEF ReEnqueue, HoldsWhere, TypeOK
  <2> QED BY <1>6, <2>1 DEF ReEnqueue, Settle, Requeues, Settles
<1>7. ASSUME NEW w \in Workers, SendResult(w) PROVE Sends(w)
  BY <1>7 DEF SendResult, Sends
<1>8. ASSUME Collect \/ BeginShutdown \/ ShutdownReturns \/ UNCHANGED vars
      PROVE  Idles
  <2>1. UNCHANGED <<queue, jobVars, clock, workerVars>>
    BY <1>8 DEF Collect, CollectResult, CollectorExit, BeginShutdown, ShutdownReturns, vars
  <2> QED BY <1>0, <2>1 DEF Idles
<1> QED BY <1>1, <1>2, <1>3, <1>4, <1>5, <1>6, <1>7, <1>8 DEF Next, Work, Proceed

(* A job has one place: it moves between the queue, one worker and the     *)
(* finished jobs, and leaves the last never.                               *)
LEMMA StepPlace == PlaceInv /\ [Next]_vars => SendsFinished' /\ Unknown' /\ OnePlace'
<1> SUFFICES ASSUME PlaceInv, [Next]_vars PROVE SendsFinished' /\ Unknown' /\ OnePlace'
  OBVIOUS
<1> USE Constants DEF PlaceInv, TypeOK, SendsFinished, Unknown, OnePlace, Accepted, HoldsWhere
<1>1. CASE Idles
  <2>1. \A w \in Workers : at'[w] = "sending" <=> at[w] = "sending"
    BY <1>1 DEF Idles
  <2> QED BY <1>1, <2>1 DEF Idles, Sleeps
<1>2. ASSUME NEW j \in Jobs, Submits(j) PROVE SendsFinished' /\ Unknown' /\ OnePlace'
  BY <1>2 DEF Submits
<1>3. ASSUME NEW w \in Workers, Sends(w) PROVE SendsFinished' /\ Unknown' /\ OnePlace'
  BY <1>3 DEF Sends
<1>4. ASSUME NEW w \in Workers, NEW j \in Jobs, Begins(w, j)
      PROVE  SendsFinished' /\ Unknown' /\ OnePlace'
  <2>1. j \in queue /\ at[w] = "ready" BY <1>4 DEF Begins
  <2>2. Accepted(j) BY <2>1
  <2>3. j \notin finished BY <2>1
  <2>4. \A v \in Workers : holds[v] # j BY <2>1
  <2>5. holds[w] = "none" BY <2>1
  <2>6. /\ holds'[w] = j /\ at'[w] = "running"
        /\ \A v \in Workers \ {w} : holds'[v] = holds[v] /\ at'[v] = at[v]
    BY <1>4 DEF Begins
  <2>7. \A i \in Jobs \ {j} : runs'[i] = runs[i] /\ (i \in queue' <=> i \in queue)
    BY <1>4 DEF Begins
  <2>8. queue' = queue \ {j} /\ UNCHANGED <<submittedAt, finished>>
    BY <1>4 DEF Begins
  <2>9. SendsFinished' BY <2>6, <2>8
  <2>10. Unknown' BY <2>2, <2>6, <2>7, <2>8
  <2>11. OnePlace'
    <3>1. \A u, v \in Workers : holds[u] = holds[v] => u = v \/ holds[u] = "none"
      OBVIOUS
    <3>2. \A u, v \in Workers : holds'[u] = holds'[v] => u = v \/ holds'[u] = "none"
      <4> HIDE DEF PlaceInv
      <4> QED BY <2>4, <2>6, <3>1
    <3>3. \A v \in Workers : holds'[v] \notin queue' BY <2>6, <2>8
    <3>4. queue' \cap finished' = {} BY <2>8
    <3>5. \A i \in Jobs : Accepted(i) =>
              i \in queue \/ i \in finished \/ \E v \in Workers : holds[v] = i
      OBVIOUS
    <3>6. \A i \in Jobs : Accepted(i)' =>
              i \in queue' \/ i \in finished' \/ \E v \in Workers : holds'[v] = i
      <4> HIDE DEF PlaceInv
      <4> SUFFICES ASSUME NEW i \in Jobs \ {j}, Accepted(i)', i \notin queue', i \notin finished'
                   PROVE  \E v \in Workers : holds'[v] = i
        BY <2>6
      <4>1. PICK v \in Workers : holds[v] = i BY <2>7, <2>8, <3>5
      <4>2. v # w BY <2>5, <4>1, Constants
      <4> QED BY <2>6, <4>1, <4>2
    <3>7. \A v \in Workers : holds'[v] \in finished' => at'[v] = "sending"
      BY <2>3, <2>6, <2>8
    <3> QED BY <3>2, <3>3, <3>4, <3>6, <3>7
  <2> QED BY <2>9, <2>10, <2>11
<1>5. ASSUME NEW w \in Workers, NEW j \in Jobs, Pauses(w, j) PROVE SendsFinished' /\ Unknown' /\ OnePlace'
  BY <1>5 DEF Pauses
<1>6. ASSUME NEW w \in Workers, NEW j \in Jobs, Settles(w, j) PROVE SendsFinished' /\ Unknown' /\ OnePlace'
  BY <1>6 DEF Settles
<1>7. ASSUME NEW w \in Workers, NEW j \in Jobs, Requeues(w, j) PROVE SendsFinished' /\ Unknown' /\ OnePlace'
  BY <1>7 DEF Requeues
<1> QED BY <1>1, <1>2, <1>3, <1>4, <1>5, <1>6, <1>7, Kinds

(* The runs of a job are its retries, and one more in the handler. *)
LEMMA StepRuns == PlaceInv /\ RunsCounted /\ [Next]_vars => RunsCounted'
<1> SUFFICES ASSUME PlaceInv, RunsCounted, [Next]_vars PROVE RunsCounted'
  OBVIOUS
<1> USE Constants DEF PlaceInv, TypeOK, RunsCounted, Accepted, Unknown, OnePlace
<1>0. \A i \in Jobs : runs[i] \in Nat /\ retryCount[i] \in Nat
  OBVIOUS
<1>1. CASE Idles
  <2>1. \A w \in Workers : /\ at'[w] = "running" => at[w] = "running"
                           /\ at'[w] = "backoff" => at[w] = "backoff"
    BY <1>1 DEF Idles
  <2> QED BY <1>1, <2>1 DEF Idles, Sleeps
<1>2. ASSUME NEW j \in Jobs, Submits(j) PROVE RunsCounted'
  BY <1>2 DEF Submits
<1>3. ASSUME NEW w \in Workers, Sends(w) PROVE RunsCounted'
  BY <1>3 DEF Sends
<1>4. ASSUME NEW w \in Workers, NEW j \in Jobs, Begins(w, j) PROVE RunsCounted'
  <2>1. /\ j \in queue /\ queue' = queue \ {j} /\ runs'[j] = runs[j] + 1
        /\ \A i \in Jobs \ {j} : runs'[i] = runs[i]
        /\ UNCHANGED <<submittedAt, retryCount>>
        /\ holds'[w] = j /\ at'[w] = "running"
        /\ \A v \in Workers \ {w} : holds'[v] = holds[v] /\ at'[v] = at[v]
    BY <1>4 DEF Begins
  <2>2. \A v \in Workers : holds[v] # j BY <2>1
  <2>3. runs[j] = retryCount[j] BY <2>1
  <2> QED BY <1>0, <2>1, <2>2, <2>3
<1>5. ASSUME NEW w \in Workers, NEW j \in Jobs, Pauses(w, j) PROVE RunsCounted'
  <2>1. /\ at[w] = "running" /\ holds[w] = j /\ retryCount[j] < MaxRetries[j]
        /\ retryCount'[j] = retryCount[j] + 1
        /\ \A i \in Jobs \ {j} : retryCount'[i] = retryCount[i]
        /\ at'[w] = "backoff" /\ \A v \in Workers \ {w} : at'[v] = at[v]
        /\ UNCHANGED <<queue, submittedAt, runs, holds>>
    BY <1>5 DEF Pauses, MayRetry
  <2>2. j \notin queue /\ submittedAt[j] # 0 BY <2>1
  <2>3. \A v \in Workers \ {w} : holds[v] # j BY <2>1
  <2>4. runs[j] = retryCount[j] + 1 BY <2>1
  <2> QED BY <1>0, <2>1, <2>2, <2>3, <2>4
<1>6. ASSUME NEW w \in Workers, NEW j \in Jobs, Settles(w, j) PROVE RunsCounted'
  BY <1>6 DEF Settles
<1>7. ASSUME NEW w \in Workers, NEW j \in Jobs, Requeues(w, j) PROVE RunsCounted'
  BY <1>7 DEF Requeues
<1> QED BY <1>1, <1>2, <1>3, <1>4, <1>5, <1>6, <1>7, Kinds

(* The queue and the results channel keep to their limits. *)
LEMMA StepCapacity == Inv /\ [Next]_vars => CapacityRespected'
<1> SUFFICES ASSUME Inv, [Next]_vars PROVE CapacityRespected'
  OBVIOUS
<1> USE Constants DEF Inv, PlaceInv
<1>1. Cardinality(queue') <= MaxQueueSize
  <2>0. /\ queue \subseteq Jobs /\ IsFiniteSet(queue) /\ Cardinality(queue) \in Nat
        /\ Cardinality(queue) <= MaxQueueSize
    BY Finite DEF TypeOK, CapacityRespected
  <2>1. ASSUME NEW j \in Jobs, ~Full, queue' = queue \cup {j}
        PROVE  Cardinality(queue') <= MaxQueueSize
    <3>1. CASE j \in queue
      <4>1. queue' = queue BY <2>1, <3>1
      <4> QED BY <2>0, <4>1
    <3>2. CASE j \notin queue
      <4>1. Cardinality(queue') = Cardinality(queue) + 1
        BY <2>0, <2>1, <3>2, FS_AddElement
      <4> QED BY <2>0, <2>1, <4>1 DEF Full
    <3> QED BY <3>1, <3>2
  <2>2. ASSUME queue' \subseteq queue
        PROVE  Cardinality(queue') <= MaxQueueSize
    BY <2>0, <2>2, FS_Subset, FS_CardinalityType
  <2>3. \/ queue' \subseteq queue
        \/ \E j \in Jobs : ~Full /\ queue' = queue \cup {j}
    BY Kinds DEF Idles, Sleeps, Submits, Sends, Begins, Pauses, Settles, Requeues
  <2> QED BY <2>1, <2>2, <2>3
<1>2. Len(results') <= ResultsCap
  <2>0. results \in Seq(BOOLEAN) /\ Len(results) \in Nat /\ Len(results) <= ResultsCap
    BY DEF TypeOK, CapacityRespected
  <2>1. ASSUME NEW w \in Workers, SendResult(w) PROVE Len(results') <= ResultsCap
    <3>1. verdict[w] \in BOOLEAN BY DEF TypeOK
    <3>2. Len(Append(results, verdict[w])) = Len(results) + 1 BY <2>0, <3>1
    <3> QED BY <2>0, <2>1, <3>2 DEF SendResult
  <2>2. CASE CollectResult
    <3>1. results # <<>> /\ results' = Tail(results) BY <2>2 DEF CollectResult
    <3> QED BY <2>0, <3>1, TailBoolean
  <2>3. CASE results' = results BY <2>0, <2>3
  <2>4. \/ results' = results \/ CollectResult \/ \E w \in Workers : SendResult(w)
    BY DEF Next, Work, Proceed, Collect, Tick, Enqueue, WorkerLoop, Dequeue, DequeueEmpty,
           HandlerReturns, ReEnqueue, CollectorExit, BeginShutdown, ShutdownReturns,
           vars, resultVars
  <2> QED BY <2>1, <2>2, <2>3, <2>4
<1> QED BY <1>1, <1>2 DEF CapacityRespected

(* First runs begin in the order of submission: a job that never ran is in *)
(* the queue, and Dequeue takes no other of its priority before it.        *)
LEMMA StepFifo == Inv /\ [Next]_vars => FirstRun' /\ FifoWithinPriority'
<1> SUFFICES ASSUME Inv, [Next]_vars PROVE FirstRun' /\ FifoWithinPriority'
  OBVIOUS
<1> USE Constants DEF Inv, PlaceInv, TypeOK, FirstRun, FifoWithinPriority, Accepted
<1>0. /\ clock \in Nat
      /\ \A i \in Jobs : runs[i] \in Nat /\ submittedAt[i] \in Nat
  OBVIOUS
<1>1. CASE Idles BY <1>0, <1>1 DEF Idles, Sleeps
<1>2. ASSUME NEW j \in Jobs, Submits(j) PROVE FirstRun' /\ FifoWithinPriority'
  <2>1. /\ submittedAt'[j] = clock /\ queue' = queue \cup {j}
        /\ \A i \in Jobs \ {j} : submittedAt'[i] = submittedAt[i]
        /\ UNCHANGED <<runs, clock>>
    BY <1>2 DEF Submits
  <2>2. runs[j] = 0 BY <1>2 DEF Submits, Unknown
  <2>3. FirstRun' BY <1>0, <2>1
  <2>4. FifoWithinPriority'
    <3> SUFFICES ASSUME NEW i \in Jobs, NEW k \in Jobs,
                        Priority[i] = Priority[k], submittedAt'[i] # 0,
                        submittedAt'[i] < submittedAt'[k], runs[k] > 0
                 PROVE  runs[i] > 0
      BY <2>1
    <3>1. k # j BY <2>2
    <3>2. i # j
      <4>1. submittedAt'[k] = submittedAt[k] /\ submittedAt[k] <= clock BY <2>1, <3>1
      <4> QED BY <1>0, <2>1, <4>1
    <3>3. submittedAt[i] # 0 /\ submittedAt[i] < submittedAt[k] BY <2>1, <3>1, <3>2
    <3> QED BY <3>3
  <2> QED BY <2>3, <2>4
<1>3. ASSUME NEW w \in Workers, Sends(w) PROVE FirstRun' /\ FifoWithinPriority'
  BY <1>3 DEF Sends
<1>4. ASSUME NEW w \in Workers, NEW j \in Jobs, Begins(w, j)
      PROVE  FirstRun' /\ FifoWithinPriority'
  <2>1. /\ j \in queue /\ queue' = queue \ {j} /\ runs'[j] = runs[j] + 1
        /\ \A i \in Jobs \ {j} : runs'[i] = runs[i]
        /\ UNCHANGED <<submittedAt, clock>>
        /\ \A k \in queue : ~Less(k, j)
    BY <1>4 DEF Begins
  <2>2. FirstRun' BY <1>0, <2>1
  <2>3. FifoWithinPriority'
    <3> SUFFICES ASSUME NEW i \in Jobs, NEW k \in Jobs,
                        Priority[i] = Priority[k], submittedAt[i] # 0,
                        submittedAt[i] < submittedAt[k], runs'[k] > 0
                 PROVE  runs'[i] > 0
      BY <2>1
    <3>1. CASE k # j
      <4>1. runs[k] > 0 BY <2>1, <3>1
      <4>2. runs[i] > 0 BY <4>1
      <4>3. runs'[i] \in {runs[i], runs[i] + 1} /\ runs[i] \in Nat BY <1>0, <2>1
      <4> QED BY <4>2, <4>3
    <3>2. CASE k = j
      <4>1. i \notin queue BY <2>1, <3>2 DEF Less
      <4>2. i # j BY <1>0, <3>2
      <4> QED BY <1>0, <2>1, <4>1, <4>2
    <3> QED BY <3>1, <3>2
  <2> QED BY <2>2, <2>3
<1>5. ASSUME NEW w \in Workers, NEW j \in Jobs,
             Pauses(w, j) \/ Settles(w, j) \/ Requeues(w, j)
      PROVE  FirstRun' /\ FifoWithinPriority'
  BY <1>5 DEF Pauses, Settles, Requeues
<1> QED BY <1>1, <1>2, <1>3, <1>4, <1>5, Kinds

(* The sets and numbers that the metrics count, as numbers. *)
LEMMA Sizes ==
    ASSUME TypeOK
    PROVE  /\ queue \subseteq Jobs /\ Known \subseteq Jobs
           /\ IsFiniteSet(queue) /\ IsFiniteSet(Known)
           /\ IsFiniteSet(Busy) /\ IsFiniteSet(Paused)
           /\ Cardinality(queue) \in Nat /\ Cardinality(Known) \in Nat
           /\ Cardinality(Busy) \in Nat /\ Cardinality(Paused) \in Nat
           /\ Len(results) \in Nat /\ dropped \in Nat
           /\ metrics["enqueued"] \in Nat /\ metrics["dequeued"] \in Nat
           /\ metrics["completed"] \in Nat /\ metrics["failed"] \in Nat
           /\ metrics["retried"] \in Nat
<1>1. Busy \subseteq Workers /\ Paused \subseteq Workers BY DEF Busy, Paused
<1>2. queue \subseteq Jobs /\ Known \subseteq Jobs BY DEF TypeOK, Known
<1>3. \A m \in Counters : metrics[m] \in Nat BY DEF TypeOK
<1>4. /\ IsFiniteSet(queue) /\ IsFiniteSet(Known)
      /\ IsFiniteSet(Busy) /\ IsFiniteSet(Paused)
  BY <1>1, <1>2, FiniteSets, FS_Subset
<1>5. Len(results) \in Nat /\ dropped \in Nat BY DEF TypeOK
<1> QED BY <1>2, <1>3, <1>4, <1>5, FS_CardinalityType DEF Counters

(* One element more, one element fewer. *)
LEMMA OneMore ==
    ASSUME NEW S, NEW T, IsFiniteSet(S), NEW x, x \notin S, T = S \cup {x}
    PROVE  Cardinality(T) = Cardinality(S) + 1
BY FS_AddElement

LEMMA OneLess ==
    ASSUME NEW S, NEW T, IsFiniteSet(S), NEW x \in S, T = S \ {x}
    PROVE  Cardinality(T) = Cardinality(S) - 1
BY FS_RemoveElement

(* The five counters by name, and one count more in one of them. *)
MetricsAre(m, e, d, c, f, r) ==
    /\ m["enqueued"] = e /\ m["dequeued"] = d /\ m["completed"] = c
    /\ m["failed"] = f /\ m["retried"] = r

LEMMA CountOne ==
    ASSUME TypeOK, NEW e, NEW d, NEW c, NEW f, NEW r, MetricsAre(metrics, e, d, c, f, r)
    PROVE  /\ Count("enqueued")  => MetricsAre(metrics', e + 1, d, c, f, r)
           /\ Count("dequeued")  => MetricsAre(metrics', e, d + 1, c, f, r)
           /\ Count("completed") => MetricsAre(metrics', e, d, c + 1, f, r)
           /\ Count("failed")    => MetricsAre(metrics', e, d, c, f + 1, r)
           /\ Count("retried")   => MetricsAre(metrics', e, d, c, f, r + 1)
<1>1. \A m \in Counters : Count(m) =>
          \A n \in Counters : metrics'[n] = IF n = m THEN metrics[n] + 1 ELSE metrics[n]
  BY DEF TypeOK, Count
<1> QED BY <1>1 DEF MetricsAre, Counters

(* Every step keeps the metrics balanced. *)
LEMMA StepBalanced == PlaceInv /\ Balanced /\ [Next]_vars => Balanced'
<1> SUFFICES ASSUME PlaceInv, Balanced, [Next]_vars PROVE Balanced'
  OBVIOUS
<1>0. TypeOK BY DEF PlaceInv
<1>s. /\ IsFiniteSet(queue) /\ IsFiniteSet(Known)
      /\ IsFiniteSet(Busy) /\ IsFiniteSet(Paused)
  BY <1>0, Sizes
<1>n. /\ Cardinality(queue) \in Nat /\ Cardinality(Known) \in Nat
      /\ Cardinality(Busy) \in Nat /\ Cardinality(Paused) \in Nat
      /\ Len(results) \in Nat /\ dropped \in Nat /\ Len(results) + dropped \in Nat
      /\ metrics["enqueued"] \in Nat /\ metrics["dequeued"] \in Nat
      /\ metrics["completed"] \in Nat /\ metrics["failed"] \in Nat
      /\ metrics["retried"] \in Nat
  BY <1>0, Sizes
<1> DEFINE e == metrics["enqueued"]
           d == metrics["dequeued"]
           c == metrics["completed"]
           f == metrics["failed"]
           r == metrics["retried"]
           q == Cardinality(queue)
           k == Cardinality(Known)
           b == Cardinality(Busy)
           p == Cardinality(Paused)
           l == Len(results) + dropped
<1>b. Sums(e, d, c, f, r, q, k, b, p, l) BY DEF Balanced
<1>t. /\ e \in Nat /\ d \in Nat /\ c \in Nat /\ f \in Nat /\ r \in Nat
      /\ q \in Nat /\ k \in Nat /\ b \in Nat /\ p \in Nat /\ l \in Nat
  BY <1>n
<1>m. MetricsAre(metrics, e, d, c, f, r) BY DEF MetricsAre
<1> HIDE DEF e, d, c, f, r, q, k, b, p, l
<1>a. /\ Sums(e + 1, d, c, f, r, q + 1, k + 1, b, p, l)
      /\ Sums(e, d + 1, c, f, r, q - 1, k, b + 1, p, l)
      /\ Sums(e, d, c, f, r + 1, q, k, b, p + 1, l)
      /\ Sums(e + 1, d, c, f, r, q + 1, k, b - 1, p - 1, l)
      /\ Sums(e, d, c, f, r, q, k, b, p - 1, l)
      /\ Sums(e, d, c, f, r, q, k, b - 1, p, l + 1)
      /\ Sums(e, d, c + 1, f, r, q, k, b, p, l - 1)
      /\ Sums(e, d, c, f + 1, r, q, k, b, p, l - 1)
  BY <1>b, <1>t DEF Sums
<1>c. /\ Count("enqueued")  => MetricsAre(metrics', e + 1, d, c, f, r)
      /\ Count("dequeued")  => MetricsAre(metrics', e, d + 1, c, f, r)
      /\ Count("completed") => MetricsAre(metrics', e, d, c + 1, f, r)
      /\ Count("failed")    => MetricsAre(metrics', e, d, c, f + 1, r)
      /\ Count("retried")   => MetricsAre(metrics', e, d, c, f, r + 1)
  BY <1>0, <1>m, CountOne
<1>1. ASSUME UNCHANGED <<queue, submittedAt, at, holds, results, dropped, metrics>>
      PROVE  Balanced'
  <2>1. Known' = Known /\ Busy' = Busy /\ Paused' = Paused
    BY <1>1 DEF Known, Busy, Paused, Accepted
  <2> QED BY <1>1, <2>1 DEF Balanced
<1>2. ASSUME NEW j \in Jobs, Enqueue(j) PROVE Balanced'
  <2>1. /\ Cardinality(queue') = Cardinality(queue) + 1
        /\ Cardinality(Known') = Cardinality(Known) + 1
    <3>1. queue' = queue \cup {j} /\ j \notin queue BY <1>2 DEF Enqueue
    <3>2. j \notin Known BY <1>2 DEF Enqueue, Known, Accepted
    <3>3. submittedAt'[j] # 0 /\ \A i \in Jobs \ {j} : submittedAt'[i] = submittedAt[i]
      BY <1>0, <1>2 DEF Enqueue, TypeOK
    <3>4. Known' = Known \cup {j} BY <3>3 DEF Known, Accepted
    <3> QED BY <1>s, <3>1, <3>2, <3>4, OneMore
  <2>2. Busy' = Busy /\ Paused' = Paused /\ UNCHANGED <<results, dropped>>
    BY <1>2 DEF Enqueue, Busy, Paused, workerVars, resultVars
  <2>3. MetricsAre(metrics', e + 1, d, c, f, r)
    BY <1>2, <1>c DEF Enqueue
  <2> QED BY <1>a, <2>1, <2>2, <2>3
           DEF Balanced, MetricsAre, q, k, b, p, l
<1>3. ASSUME NEW w \in Workers, WorkerLoop(w) \/ DequeueEmpty(w) PROVE Balanced'
  <2>1. Known' = Known /\ Busy' = Busy /\ Paused' = Paused
    BY <1>0, <1>3 DEF WorkerLoop, DequeueEmpty, Known, Busy, Paused, Accepted, jobVars, TypeOK
  <2>2. UNCHANGED <<queue, results, dropped, metrics>>
    BY <1>3 DEF WorkerLoop, DequeueEmpty, resultVars
  <2> QED BY <2>1, <2>2 DEF Balanced
<1>4. ASSUME NEW w \in Workers, Dequeue(w) PROVE Balanced'
  <2>1. PICK j \in queue : /\ queue' = queue \ {j}
                           /\ holds' = [holds EXCEPT ![w] = j]
                           /\ at' = [at EXCEPT ![w] = "running"]
    BY <1>4 DEF Dequeue
  <2>2. Cardinality(queue') = Cardinality(queue) - 1 BY <1>s, <2>1, OneLess
  <2>3. holds[w] = "none" /\ j # "none"
    <3>1. at[w] = "ready" /\ j \in Jobs BY <1>0, <1>4 DEF Dequeue, TypeOK
    <3> QED BY <3>1, Constants DEF PlaceInv, HoldsWhere
  <2>8. holds'[w] = j /\ \A v \in Workers \ {w} : holds'[v] = holds[v]
    BY <1>0, <2>1 DEF TypeOK
  <2>9. Busy' = Busy \cup {w} /\ w \notin Busy
    BY <2>3, <2>8 DEF Busy
  <2>4. Cardinality(Busy') = Cardinality(Busy) + 1 BY <1>s, <2>9, OneMore
  <2>5. Paused' = Paused BY <1>0, <1>4, <2>1 DEF Dequeue, Paused, TypeOK
  <2>6. Known' = Known /\ UNCHANGED <<results, dropped>>
    BY <1>4 DEF Dequeue, Known, Accepted, resultVars
  <2>7. MetricsAre(metrics', e, d + 1, c, f, r)
    BY <1>4, <1>c DEF Dequeue
  <2> QED BY <1>a, <2>2, <2>4, <2>5, <2>6, <2>7
           DEF Balanced, MetricsAre, q, k, b, p, l
<1>5. ASSUME NEW w \in Workers, HandlerReturns(w) PROVE Balanced'
  <2>1. Known' = Known /\ Busy' = Busy /\ UNCHANGED <<queue, results, dropped>>
    BY <1>5 DEF HandlerReturns, Known, Busy, Accepted, resultVars
  <2>2. CASE Count("retried") /\ at' = [at EXCEPT ![w] = "backoff"]
    <3>1. Paused' = Paused \cup {w} /\ w \notin Paused
      BY <1>0, <1>5, <2>2 DEF HandlerReturns, Paused, TypeOK
    <3>2. Cardinality(Paused') = Cardinality(Paused) + 1 BY <1>s, <3>1, OneMore
    <3>3. MetricsAre(metrics', e, d, c, f, r + 1)
      BY <2>2, <1>c
    <3> QED BY <1>a, <2>1, <3>2, <3>3
           DEF Balanced, MetricsAre, q, k, b, p, l
  <2>3. CASE metrics' = metrics /\ at' = [at EXCEPT ![w] = "sending"]
    <3>1. Paused' = Paused BY <1>0, <1>5, <2>3 DEF HandlerReturns, Paused, TypeOK
    <3> QED BY <2>1, <2>3, <3>1 DEF Balanced
  <2> QED BY <1>5, <2>2, <2>3 DEF HandlerReturns, Settle
<1>6. ASSUME NEW w \in Workers, ReEnqueue(w) PROVE Balanced'
  <2>1. Known' = Known /\ UNCHANGED <<results, dropped>>
    BY <1>6 DEF ReEnqueue, Known, Accepted, resultVars
  <2>2. Paused' = Paused \ {w} /\ w \in Paused
    BY <1>0, <1>6 DEF ReEnqueue, Settle, Paused, TypeOK
  <2>3. Cardinality(Paused') = Cardinality(Paused) - 1 BY <1>s, <2>2, OneLess
  <2>4. CASE ~Full
    <3>1. queue' = queue \cup {holds[w]} /\ holds[w] \notin queue
      BY <1>6, <2>4 DEF ReEnqueue, PlaceInv, OnePlace
    <3>2. Cardinality(queue') = Cardinality(queue) + 1 BY <1>s, <3>1, OneMore
    <3>6. holds[w] # "none" BY <1>6 DEF ReEnqueue, PlaceInv, HoldsWhere
    <3>7. holds'[w] = "none" /\ \A v \in Workers \ {w} : holds'[v] = holds[v]
      BY <1>0, <1>6, <2>4 DEF ReEnqueue, TypeOK
    <3>3. Busy' = Busy \ {w} /\ w \in Busy BY <3>6, <3>7 DEF Busy
    <3>4. Cardinality(Busy') = Cardinality(Busy) - 1 BY <1>s, <3>3, OneLess
    <3>5. MetricsAre(metrics', e + 1, d, c, f, r)
      BY <1>6, <2>4, <1>c DEF ReEnqueue
    <3> QED BY <1>a, <2>1, <2>3, <3>2, <3>4, <3>5
           DEF Balanced, MetricsAre, q, k, b, p, l
  <2>5. CASE Full
    <3>1. Busy' = Busy /\ UNCHANGED <<queue, metrics>>
      BY <1>6, <2>5 DEF ReEnqueue, Busy
    <3> QED BY <1>a, <1>m, <2>1, <2>3, <3>1
           DEF Balanced, MetricsAre, q, k, b, p, l
  <2> QED BY <2>4, <2>5
<1>7. ASSUME NEW w \in Workers, SendResult(w) PROVE Balanced'
  <2>1. Known' = Known /\ UNCHANGED <<queue, metrics>>
    BY <1>7 DEF SendResult, Known, Accepted, jobVars
  <2>2. Paused' = Paused BY <1>0, <1>7 DEF SendResult, Paused, TypeOK
  <2>6. holds[w] # "none" BY <1>7 DEF SendResult, PlaceInv, HoldsWhere
  <2>7. holds'[w] = "none" /\ \A v \in Workers \ {w} : holds'[v] = holds[v]
    BY <1>0, <1>7 DEF SendResult, TypeOK
  <2>3. Busy' = Busy \ {w} /\ w \in Busy BY <2>6, <2>7 DEF Busy
  <2>4. Cardinality(Busy') = Cardinality(Busy) - 1 BY <1>s, <2>3, OneLess
  <2>5. Len(results') + dropped' = (Len(results) + dropped) + 1
    <3>1. verdict[w] \in BOOLEAN /\ results \in Seq(BOOLEAN) BY <1>0 DEF TypeOK
    <3>2. Len(Append(results, verdict[w])) = Len(results) + 1 BY <3>1
    <3>3. Len(results) \in Nat /\ dropped \in Nat BY <1>n
    <3>4. \/ results' = Append(results, verdict[w]) /\ dropped' = dropped
          \/ results' = results /\ dropped' = dropped + 1
      BY <1>7 DEF SendResult
    <3> QED BY <3>2, <3>3, <3>4
  <2> QED BY <1>a, <1>m, <2>1, <2>2, <2>4, <2>5
           DEF Balanced, MetricsAre, q, k, b, p, l
<1>8. CASE CollectResult
  <2>1. Known' = Known /\ Busy' = Busy /\ Paused' = Paused /\ UNCHANGED <<queue, dropped>>
    BY <1>8 DEF CollectResult, Known, Accepted, Busy, Paused, jobVars, workerVars
  <2>2. Len(results') + dropped' = (Len(results) + dropped) - 1
    <3>1. results \in Seq(BOOLEAN) /\ results # <<>> /\ results' = Tail(results)
      BY <1>0, <1>8 DEF CollectResult, TypeOK
    <3>2. Len(Tail(results)) = Len(results) - 1 BY <3>1
    <3> QED BY <1>n, <2>1, <3>1, <3>2
  <2>3. CASE Count("completed")
    <3>1. MetricsAre(metrics', e, d, c + 1, f, r)
      BY <2>3, <1>c
    <3> QED BY <1>a, <2>1, <2>2, <3>1
           DEF Balanced, MetricsAre, q, k, b, p, l
  <2>4. CASE Count("failed")
    <3>1. MetricsAre(metrics', e, d, c, f + 1, r)
      BY <2>4, <1>c
    <3> QED BY <1>a, <2>1, <2>2, <3>1
           DEF Balanced, MetricsAre, q, k, b, p, l
  <2> QED BY <1>8, <2>3, <2>4 DEF CollectResult
<1>9. CASE Tick \/ CollectorExit \/ BeginShutdown \/ ShutdownReturns \/ UNCHANGED vars
  BY <1>1, <1>9 DEF Tick, CollectorExit, BeginShutdown, ShutdownReturns, vars,
                    jobVars, workerVars, resultVars
<1> QED BY <1>2, <1>3, <1>4, <1>5, <1>6, <1>7, <1>8, <1>9 DEF Next, Work, Proceed, Collect

(* Every step preserves the invariant. *)
LEMMA StepInv == Inv /\ [Next]_vars => Inv'
BY StepType, StepPlace, StepRuns, StepCapacity, StepFifo, StepBalanced DEF Inv, PlaceInv

-----------------------------------------------------------------------------
(* A job is in the phase its place says. *)
LEMMA PhaseOf ==
    ASSUME NEW j \in Jobs, PlaceInv
    PROVE  /\ ~Accepted(j) => phase[j] = "absent"
           /\ j \in queue => phase[j] = "waiting"
           /\ j \in finished => phase[j] = "finished"
           /\ \A w \in Workers : holds[w] = j /\ at[w] \in {"running", "backoff"}
                                    => phase[j] = "running"
<1>1. j \in queue => Accepted(j) /\ j \notin finished
  BY DEF PlaceInv, Unknown, OnePlace
<1>2. j \in finished => Accepted(j)
  BY DEF PlaceInv, Unknown
<1>3. ASSUME NEW w \in Workers, holds[w] = j, at[w] \in {"running", "backoff"}
      PROVE  Accepted(j) /\ j \notin queue /\ j \notin finished
  BY <1>3 DEF PlaceInv, Unknown, OnePlace
<1> QED BY <1>1, <1>2, <1>3 DEF phase

(* The same after a step. *)
LEMMA PhaseOfNext ==
    ASSUME NEW j \in Jobs, PlaceInv'
    PROVE  /\ j \in queue' => phase'[j] = "waiting"
           /\ j \in finished' => phase'[j] = "finished"
           /\ \A w \in Workers : holds'[w] = j /\ at'[w] \in {"running", "backoff"}
                                    => phase'[j] = "running"
<1>1. j \in queue' => Accepted(j)' /\ j \notin finished'
  BY DEF PlaceInv, Unknown, OnePlace
<1>2. j \in finished' => Accepted(j)'
  BY DEF PlaceInv, Unknown
<1>3. ASSUME NEW w \in Workers, holds'[w] = j, at'[w] \in {"running", "backoff"}
      PROVE  Accepted(j)' /\ j \notin queue' /\ j \notin finished'
  BY <1>3 DEF PlaceInv, Unknown, OnePlace
<1> QED BY <1>1, <1>2, <1>3 DEF phase

(* A job no step moves keeps its phase. *)
LEMMA PhaseKept ==
    ASSUME NEW j \in Jobs, submittedAt'[j] = submittedAt[j],
           j \in queue' <=> j \in queue, j \in finished' <=> j \in finished
    PROVE  phase'[j] = phase[j]
BY DEF phase, Accepted

(* The step of the contract that changes job j. *)
LEMMA PhaseChange ==
    ASSUME NEW j \in Jobs, NEW p, phase'[j] = p,
           \A i \in Jobs \ {j} : phase'[i] = phase[i]
    PROVE  phase' = [phase EXCEPT ![j] = p]
<1>1. /\ phase = [i \in Jobs |-> phase[i]] /\ phase' = [i \in Jobs |-> phase'[i]]
  BY DEF phase
<1> QED BY <1>1

(* Every step of the queue is a step of the contract or a stutter. *)
LEMMA StepContract == Inv /\ [Next]_vars => [Contract!Next]_<<phase, runs>>
<1> SUFFICES ASSUME Inv, [Next]_vars PROVE [Contract!Next]_<<phase, runs>>
  OBVIOUS
<1> USE DEF Inv
<1>0. PlaceInv /\ PlaceInv' BY StepInv
<1>1. ASSUME \A i \in Jobs : phase'[i] = phase[i], runs' = runs
      PROVE  UNCHANGED <<phase, runs>>
  BY <1>1 DEF phase
<1>2. CASE Idles \/ \E w \in Workers : Sends(w) \/ \E j \in Jobs : Pauses(w, j)
  BY <1>1, <1>2, PhaseKept DEF Idles, Sleeps, Sends, Pauses
<1>3. ASSUME NEW j \in Jobs, Submits(j) PROVE Contract!Accept(j)
  <2>1. phase[j] = "absent" BY <1>0, <1>3, PhaseOf DEF Submits
  <2>2. phase'[j] = "waiting"
    <3>1. j \in queue' BY <1>3 DEF Submits
    <3> QED BY <1>0, <3>1, PhaseOfNext
  <2>3. \A i \in Jobs \ {j} : phase'[i] = phase[i]
    BY <1>3, PhaseKept DEF Submits, PlaceInv, TypeOK
  <2>4. phase' = [phase EXCEPT ![j] = "waiting"] BY <2>2, <2>3, PhaseChange
  <2> QED BY <1>3, <2>1, <2>4 DEF Contract!Accept, Submits
<1>4. ASSUME NEW w \in Workers, NEW j \in Jobs, Begins(w, j) PROVE Contract!Begin(j)
  <2>1. phase[j] = "waiting" BY <1>0, <1>4, PhaseOf DEF Begins
  <2>2. runs[j] <= MaxRetries[j] BY <1>4 DEF Begins, RunsCounted
  <2>3. phase'[j] = "running"
    <3>1. holds'[w] = j /\ at'[w] = "running" BY <1>4 DEF Begins, PlaceInv, TypeOK
    <3> QED BY <1>0, <3>1, PhaseOfNext
  <2>4. \A i \in Jobs \ {j} : phase'[i] = phase[i]
    BY <1>4, PhaseKept DEF Begins
  <2>5. phase' = [phase EXCEPT ![j] = "running"] BY <2>3, <2>4, PhaseChange
  <2> QED BY <1>4, <2>1, <2>2, <2>5 DEF Contract!Begin, Begins
<1>5. ASSUME NEW w \in Workers, NEW j \in Jobs, Settles(w, j) PROVE Contract!Finish(j)
  <2>1. phase[j] = "running" BY <1>0, <1>5, PhaseOf DEF Settles
  <2>2. phase'[j] = "finished"
    <3>1. j \in finished' BY <1>5 DEF Settles
    <3> QED BY <1>0, <3>1, PhaseOfNext
  <2>3. \A i \in Jobs \ {j} : phase'[i] = phase[i]
    BY <1>5, PhaseKept DEF Settles
  <2>4. phase' = [phase EXCEPT ![j] = "finished"] BY <2>2, <2>3, PhaseChange
  <2> QED BY <1>5, <2>1, <2>4 DEF Contract!Finish, Settles
<1>6. ASSUME NEW w \in Workers, NEW j \in Jobs, Requeues(w, j) PROVE Contract!Requeue(j)
  <2>1. phase[j] = "running" BY <1>0, <1>6, PhaseOf DEF Requeues
  <2>2. runs[j] <= MaxRetries[j]
    BY <1>6 DEF Requeues, RunsCounted
  <2>3. phase'[j] = "waiting"
    <3>1. j \in queue' BY <1>6 DEF Requeues
    <3> QED BY <1>0, <3>1, PhaseOfNext
  <2>4. \A i \in Jobs \ {j} : phase'[i] = phase[i]
    BY <1>6, PhaseKept DEF Requeues
  <2>5. phase' = [phase EXCEPT ![j] = "waiting"] BY <2>3, <2>4, PhaseChange
  <2> QED BY <1>6, <2>1, <2>2, <2>5 DEF Contract!Requeue, Requeues
<1> QED BY <1>0, <1>2, <1>3, <1>4, <1>5, <1>6, Kinds DEF Contract!Next, PlaceInv

-----------------------------------------------------------------------------
(* The invariant holds for any jobs, workers and limits. *)
THEOREM Safety == Spec => []Inv
BY InitInv, StepInv, PTL DEF Spec

(* TypeOK: the fields of jobs, workers and metrics stay of their types. *)
THEOREM TypeSafe == Spec => []TypeOK
<1>1. Inv => TypeOK BY DEF Inv, PlaceInv
<1> QED BY <1>1, Safety, PTL

(* OnePlace: Enqueue, Dequeue and processJob neither lose nor copy a job. *)
THEOREM PlaceSafe == Spec => []OnePlace
<1>1. Inv => OnePlace BY DEF Inv, PlaceInv
<1> QED BY <1>1, Safety, PTL

(* CapacityRespected: retries and clients together keep to MaxQueueSize. *)
THEOREM CapacitySafe == Spec => []CapacityRespected
<1>1. Inv => CapacityRespected BY DEF Inv
<1> QED BY <1>1, Safety, PTL

(* MetricsBalance: the counters of workers, clients and collector agree. *)
THEOREM MetricsSafe == Spec => []MetricsBalance
<1>1. Inv => MetricsBalance
  <2> SUFFICES ASSUME Inv PROVE MetricsBalance
    OBVIOUS
  <2>1. TypeOK BY DEF Inv, PlaceInv
  <2>2. Sums(metrics["enqueued"], metrics["dequeued"], metrics["completed"],
             metrics["failed"], metrics["retried"], Cardinality(queue),
             Cardinality(Known), Cardinality(Busy), Cardinality(Paused),
             Len(results) + dropped)
    BY DEF Inv, Balanced
  <2>3. /\ Cardinality(Known) \in Nat /\ Cardinality(Busy) \in Nat
        /\ Cardinality(Paused) \in Nat /\ Len(results) \in Nat /\ dropped \in Nat
        /\ metrics["enqueued"] \in Nat /\ metrics["dequeued"] \in Nat
        /\ metrics["completed"] \in Nat /\ metrics["failed"] \in Nat
        /\ metrics["retried"] \in Nat
    BY <2>1, Sizes
  <2> DEFINE a == Cardinality(Known)
             b == Cardinality(Busy)
             p == Cardinality(Paused)
             q == Cardinality(queue)
             l == Len(results)
             e == metrics["enqueued"]
             d == metrics["dequeued"]
             c == metrics["completed"]
             f == metrics["failed"]
             r == metrics["retried"]
  <2> HIDE DEF a, b, p, q, l, e, d, c, f, r
  <2>4. /\ e - d = q /\ d = b + (e - a) + l + dropped + c + f /\ e - a <= r
    <3>1. Sums(e, d, c, f, r, q, a, b, p, l + dropped)
      BY <2>2 DEF a, b, p, q, l, e, d, c, f, r
    <3>2. /\ a \in Nat /\ b \in Nat /\ p \in Nat /\ l \in Nat /\ dropped \in Nat
          /\ e \in Nat /\ d \in Nat /\ c \in Nat /\ f \in Nat /\ r \in Nat
      BY <2>3 DEF a, b, p, l, e, d, c, f, r
    <3> QED BY <3>1, <3>2 DEF Sums
  <2> QED BY <2>4 DEF MetricsBalance, Known, a, b, q, l, e, d, c, f, r
<1> QED BY <1>1, Safety, PTL

(* FifoWithinPriority: the order of Less is the order of first runs. *)
THEOREM FifoSafe == Spec => []FifoWithinPriority
<1>1. Inv => FifoWithinPriority BY DEF Inv
<1> QED BY <1>1, Safety, PTL

(* LostOnlyInQueue: after a shutdown a job that ran is finished or queued. *)
THEOREM LostSafe == Spec => []LostOnlyInQueue
<1>1. Inv => LostOnlyInQueue
  <2> SUFFICES ASSUME Inv, Stopped, NEW j \in Jobs, runs[j] > 0
               PROVE  j \in finished \cup queue
    BY DEF LostOnlyInQueue
  <2> USE DEF Inv, PlaceInv
  <2>1. Accepted(j) BY DEF Unknown
  <2>2. \A w \in Workers : holds[w] = "none" BY DEF Stopped, HoldsWhere
  <2> QED BY <2>1, <2>2, Constants DEF OnePlace
<1> QED BY <1>1, Safety, PTL

(* ImplementsContract: a job is run by one worker at a time, at most       *)
(* MaxRetries + 1 times, and never after its last run.                     *)
THEOREM Refinement == Spec => ImplementsContract
<1>1. Init => Contract!Init
  BY DEF Init, Contract!Init, phase, Accepted
<1>2. Inv /\ [Next]_vars => [Contract!Next]_<<phase, runs>>
  BY StepContract
<1> QED BY <1>1, <1>2, Safety, PTL DEF Spec, ImplementsContract, Contract!Spec
=============================================================================
