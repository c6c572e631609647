-------------------------- MODULE JobManagerProofs --------------------------
(***************************************************************************)
(* Proofs about JobManager for every finite set of jobs: its types, the    *)
(* agreement of status, goroutine and result, that the manager implements  *)
(* JobContract, and the story it tells the webhooks of each job.           *)
(***************************************************************************)
EXTENDS JobManager, FiniteSetTheorems, TLAPS

(***************************************************************************)
(* The part of the type invariant that needs no counting.  wg is a natural *)
(* number only because WaitGroupCounts holds, so it comes last.            *)
(***************************************************************************)
Typed ==
    /\ status \in [Jobs -> Statuses \cup {"absent"}]
    /\ result \in [Jobs -> BOOLEAN]
    /\ completedAt \in [Jobs -> BOOLEAN]
    /\ progress \in [Jobs -> Nat]
    /\ pc \in [Jobs -> Steps]
    /\ cancelled \in BOOLEAN
    /\ shutdown \in {"no", "waiting", "graceful", "timeout"}
    /\ sent \in [Jobs -> Seq(Events)]

(* Every call of Notify keeps the webhook log well typed. *)
LEMMA NotifyTyped ==
    ASSUME NEW j \in Jobs, NEW e \in Events, sent \in [Jobs -> Seq(Events)],
           Notify(j, e)
    PROVE  sent' \in [Jobs -> Seq(Events)]
<1>1. Append(sent[j], e) \in Seq(Events)
  OBVIOUS
<1> QED BY <1>1 DEF Notify

(* Every step of SubmitJob, CancelJob, executeJob and Shutdown keeps the types. *)
LEMMA TypedStep == Typed /\ [Next]_vars => Typed'
<1> SUFFICES ASSUME Typed, [Next]_vars PROVE Typed'
  OBVIOUS
<1> USE DEF Typed, table, Statuses, Steps
<1>1. ASSUME NEW j \in Jobs, SubmitJob(j) PROVE Typed'
  <2>1. sent' \in [Jobs -> Seq(Events)]
    BY <1>1, NotifyTyped DEF SubmitJob, Events
  <2> QED BY <1>1, <2>1 DEF SubmitJob, Goto
<1>2. ASSUME NEW j \in Jobs, CancelJob(j) PROVE Typed'
  <2>1. sent' \in [Jobs -> Seq(Events)]
    BY <1>2, NotifyTyped DEF CancelJob, Events
  <2> QED BY <1>2, <2>1 DEF CancelJob
<1>3. ASSUME NEW j \in Jobs, SpawnJob(j) PROVE Typed'
  BY <1>3 DEF SpawnJob, Goto
<1>4. ASSUME NEW j \in Jobs, StartJob(j) PROVE Typed'
  BY <1>4 DEF StartJob, Goto
<1>5. ASSUME NEW j \in Jobs, NotifyStarted(j) PROVE Typed'
  <2>1. sent' \in [Jobs -> Seq(Events)]
    BY <1>5, NotifyTyped DEF NotifyStarted, Events
  <2> QED BY <1>5, <2>1 DEF NotifyStarted, Goto
<1>6. ASSUME NEW j \in Jobs, PrepareExport(j) PROVE Typed'
  BY <1>6 DEF PrepareExport, Goto
<1>7. ASSUME NEW j \in Jobs, UpdateProgress(j) PROVE Typed'
  BY <1>7 DEF UpdateProgress
<1>8. ASSUME NEW j \in Jobs, ExportReturns(j) PROVE Typed'
  BY <1>8 DEF ExportReturns, Goto
<1>9. ASSUME NEW j \in Jobs, StoreResult(j) PROVE Typed'
  BY <1>9 DEF StoreResult, Goto
<1>10. ASSUME NEW j \in Jobs, FinishJob(j) PROVE Typed'
  <2>1. sent' \in [Jobs -> Seq(Events)]
    BY <1>10, NotifyTyped DEF FinishJob, Events
  <2> QED BY <1>10, <2>1 DEF FinishJob, Goto
<1>11. ASSUME NEW j \in Jobs, GoroutineDone(j) PROVE Typed'
  BY <1>11 DEF GoroutineDone, Goto
<1>12. CASE BeginShutdown BY <1>12 DEF BeginShutdown
<1>13. CASE ShutdownGraceful BY <1>13 DEF ShutdownGraceful
<1>14. CASE ShutdownTimeout BY <1>14 DEF ShutdownTimeout
<1>15. CASE UNCHANGED vars BY <1>15 DEF vars
<1> QED
  BY <1>1, <1>2, <1>3, <1>4, <1>5, <1>6, <1>7, <1>8, <1>9, <1>10, <1>11,
     <1>12, <1>13, <1>14, <1>15 DEF Next, Run

-----------------------------------------------------------------------------
(***************************************************************************)
(* The inductive invariant of the job table.  ResultMatchesStatus needs    *)
(* the converse direction at the steps between StoreResult and FinishJob:  *)
(* the result is present exactly from StoreResult on the success path.     *)
(***************************************************************************)
ResultTracksStep ==
    \A j \in Jobs :
        /\ pc[j] = "succeeding" => result[j]
        /\ pc[j] \in {"returned", "done"} => (status[j] = "completed" <=> result[j])
        /\ result[j] => pc[j] \in {"succeeding", "returned", "done"}
        /\ status[j] \in {"completed", "failed", "cancelled"} => completedAt[j]

TableInv == Typed /\ StatusMatchesGoroutine /\ ResultTracksStep

(* The empty job table satisfies it. *)
LEMMA TableInit == Init => TableInv
<1> SUFFICES ASSUME Init PROVE TableInv
  OBVIOUS
<1>1. <<>> \in Seq(Events)
  OBVIOUS
<1>2. Typed
  BY <1>1 DEF Init, Typed, Statuses, Steps
<1>3. StatusMatchesGoroutine /\ ResultTracksStep
  BY DEF Init, StatusMatchesGoroutine, ResultTracksStep, Tracked, Resolved
<1> QED BY <1>2, <1>3 DEF TableInv

(* Every action keeps status, goroutine and result in agreement. *)
LEMMA TableStep == TableInv /\ [Next]_vars => TableInv'
<1> SUFFICES ASSUME TableInv, [Next]_vars
             PROVE  StatusMatchesGoroutine' /\ ResultTracksStep'
  BY TypedStep DEF TableInv
<1> USE DEF TableInv, Typed, StatusMatchesGoroutine, ResultTracksStep,
            Tracked, Resolved, table, Goto, Statuses, Steps
<1>1. ASSUME NEW j \in Jobs, SubmitJob(j)
      PROVE  StatusMatchesGoroutine' /\ ResultTracksStep'
  BY <1>1 DEF SubmitJob
<1>2. ASSUME NEW j \in Jobs, CancelJob(j)
      PROVE  StatusMatchesGoroutine' /\ ResultTracksStep'
  BY <1>2 DEF CancelJob
<1>3. ASSUME NEW j \in Jobs, SpawnJob(j)
      PROVE  StatusMatchesGoroutine' /\ ResultTracksStep'
  BY <1>3 DEF SpawnJob
<1>4. ASSUME NEW j \in Jobs, StartJob(j)
      PROVE  StatusMatchesGoroutine' /\ ResultTracksStep'
  BY <1>4 DEF StartJob
<1>5. ASSUME NEW j \in Jobs, NotifyStarted(j)
      PROVE  StatusMatchesGoroutine' /\ ResultTracksStep'
  BY <1>5 DEF NotifyStarted
<1>6. ASSUME NEW j \in Jobs, PrepareExport(j)
      PROVE  StatusMatchesGoroutine' /\ ResultTracksStep'
  BY <1>6 DEF PrepareExport
<1>7. ASSUME NEW j \in Jobs, UpdateProgress(j)
      PROVE  StatusMatchesGoroutine' /\ ResultTracksStep'
  BY <1>7 DEF UpdateProgress
<1>8. ASSUME NEW j \in Jobs, ExportReturns(j)
      PROVE  StatusMatchesGoroutine' /\ ResultTracksStep'
  BY <1>8 DEF ExportReturns
<1>9. ASSUME NEW j \in Jobs, StoreResult(j)
      PROVE  StatusMatchesGoroutine' /\ ResultTracksStep'
  BY <1>9 DEF StoreResult
<1>10. ASSUME NEW j \in Jobs, FinishJob(j)
       PROVE  StatusMatchesGoroutine' /\ ResultTracksStep'
  <2>1. completedAt' = [completedAt EXCEPT ![j] = TRUE] /\ result' = result
    BY <1>10 DEF FinishJob
  <2>2. CASE pc[j] = "succeeding"
    <3>1. /\ status' = [status EXCEPT ![j] = "completed"]
          /\ pc' = [pc EXCEPT ![j] = "returned"]
      BY <1>10, <2>2 DEF FinishJob
    <3> QED BY <2>1, <2>2, <3>1
  <2>3. CASE pc[j] = "failing"
    <3>1. /\ status' = [status EXCEPT ![j] = "failed"]
          /\ pc' = [pc EXCEPT ![j] = "returned"]
      BY <1>10, <2>3 DEF FinishJob
    <3> QED BY <2>1, <2>3, <3>1
  <2> QED BY <1>10, <2>2, <2>3 DEF FinishJob
<1>11. ASSUME NEW j \in Jobs, GoroutineDone(j)
       PROVE  StatusMatchesGoroutine' /\ ResultTracksStep'
  BY <1>11 DEF GoroutineDone
<1>12. CASE BeginShutdown BY <1>12 DEF BeginShutdown
<1>13. CASE ShutdownGraceful BY <1>13 DEF ShutdownGraceful
<1>14. CASE ShutdownTimeout BY <1>14 DEF ShutdownTimeout
<1>15. CASE UNCHANGED vars BY <1>15 DEF vars
<1> QED
  BY <1>1, <1>2, <1>3, <1>4, <1>5, <1>6, <1>7, <1>8, <1>9, <1>10, <1>11,
     <1>12, <1>13, <1>14, <1>15 DEF Next, Run

(***************************************************************************)
(* However SubmitJob, CancelJob, executeJob and Shutdown interleave, a job *)
(* reported pending or running has a goroutine left to resolve it and a    *)
(* resolved job has none.                                                  *)
(***************************************************************************)
THEOREM StatusSafe == Spec => []StatusMatchesGoroutine
<1>1. Spec => []TableInv
  BY TableInit, TableStep, PTL DEF Spec
<1> QED BY <1>1, PTL DEF TableInv

(***************************************************************************)
(* The stored result, the completion stamp and the final status of a job   *)
(* agree in every state, though three critical sections write them.        *)
(***************************************************************************)
THEOREM ResultSafe == Spec => []ResultMatchesStatus
<1>1. TableInv => ResultMatchesStatus
  BY DEF TableInv, Typed, StatusMatchesGoroutine, ResultTracksStep,
         ResultMatchesStatus, Tracked, Resolved, Statuses, Steps
<1>2. Spec => []TableInv
  BY TableInit, TableStep, PTL DEF Spec
<1> QED BY <1>1, <1>2, PTL

-----------------------------------------------------------------------------
(***************************************************************************)
(* m.wg: one goroutine joins or leaves the tracked set at a time.          *)
(***************************************************************************)
TrackedJobs == {j \in Jobs : pc[j] \in Tracked}

(* The tracked goroutines are finitely many. *)
LEMMA TrackedFinite == /\ IsFiniteSet(TrackedJobs) /\ IsFiniteSet(TrackedJobs')
                       /\ Cardinality(TrackedJobs) \in Nat
                       /\ Cardinality(TrackedJobs') \in Nat
<1>1. TrackedJobs \subseteq Jobs /\ TrackedJobs' \subseteq Jobs
  BY DEF TrackedJobs
<1>2. IsFiniteSet(TrackedJobs) /\ IsFiniteSet(TrackedJobs')
  BY <1>1, JobsFinite, FS_Subset
<1> QED BY <1>2, FS_CardinalityType

CountInv == Typed /\ WaitGroupCounts

(* Add and Done keep the counter equal to the number of tracked goroutines. *)
LEMMA CountStep == CountInv /\ [Next]_vars => CountInv'
<1> SUFFICES ASSUME CountInv, [Next]_vars PROVE wg' = Cardinality(TrackedJobs')
  BY TypedStep DEF CountInv, WaitGroupCounts, TrackedJobs
<1>0. wg = Cardinality(TrackedJobs)
  BY DEF CountInv, WaitGroupCounts, TrackedJobs
<1> USE DEF CountInv, Typed
<1>1. ASSUME NEW j \in Jobs, SpawnJob(j) PROVE wg' = Cardinality(TrackedJobs')
  <2>1. TrackedJobs' = TrackedJobs \cup {j} /\ j \notin TrackedJobs
    BY <1>1 DEF SpawnJob, Goto, TrackedJobs, Tracked
  <2>2. Cardinality(TrackedJobs \cup {j}) = Cardinality(TrackedJobs) + 1
    BY <2>1, TrackedFinite, FS_AddElement
  <2> QED BY <1>0, <1>1, <2>1, <2>2 DEF SpawnJob
<1>2. ASSUME NEW j \in Jobs, GoroutineDone(j) PROVE wg' = Cardinality(TrackedJobs')
  <2>1. TrackedJobs' = TrackedJobs \ {j} /\ j \in TrackedJobs
    BY <1>2 DEF GoroutineDone, Goto, TrackedJobs, Tracked
  <2>2. Cardinality(TrackedJobs \ {j}) = Cardinality(TrackedJobs) - 1
    BY <2>1, TrackedFinite, FS_RemoveElement
  <2> QED BY <1>0, <1>2, <2>1, <2>2 DEF GoroutineDone
<1>3. ASSUME wg' = wg, TrackedJobs' = TrackedJobs PROVE wg' = Cardinality(TrackedJobs')
  BY <1>0, <1>3
<1>4. ASSUME NEW j \in Jobs, \/ SubmitJob(j) \/ CancelJob(j) \/ StartJob(j)
                             \/ NotifyStarted(j) \/ PrepareExport(j)
                             \/ UpdateProgress(j) \/ ExportReturns(j)
                             \/ StoreResult(j) \/ FinishJob(j)
      PROVE  wg' = wg /\ TrackedJobs' = TrackedJobs
  <2> USE DEF Goto, TrackedJobs, Tracked, table
  <2>1. CASE SubmitJob(j) BY <2>1 DEF SubmitJob
  <2>2. CASE CancelJob(j) BY <2>2 DEF CancelJob
  <2>3. CASE StartJob(j) BY <2>3 DEF StartJob
  <2>4. CASE NotifyStarted(j) BY <2>4 DEF NotifyStarted
  <2>5. CASE PrepareExport(j) BY <2>5 DEF PrepareExport
  <2>6. CASE UpdateProgress(j) BY <2>6 DEF UpdateProgress
  <2>7. CASE ExportReturns(j) BY <2>7 DEF ExportReturns
  <2>8. CASE StoreResult(j) BY <2>8 DEF StoreResult
  <2>9. CASE FinishJob(j) BY <2>9 DEF FinishJob
  <2> QED BY <1>4, <2>1, <2>2, <2>3, <2>4, <2>5, <2>6, <2>7, <2>8, <2>9
<1>5. ASSUME \/ BeginShutdown \/ ShutdownGraceful \/ ShutdownTimeout \/ UNCHANGED vars
      PROVE  wg' = wg /\ TrackedJobs' = TrackedJobs
  BY <1>5 DEF BeginShutdown, ShutdownGraceful, ShutdownTimeout, vars, TrackedJobs
<1> QED BY <1>1, <1>2, <1>3, <1>4, <1>5 DEF Next, Run

(* Initially no goroutine is tracked and the counter is zero. *)
LEMMA CountInit == Init => CountInv
<1> SUFFICES ASSUME Init PROVE CountInv
  OBVIOUS
<1>1. TrackedJobs = {}
  BY DEF Init, TrackedJobs, Tracked
<1>2. wg = Cardinality(TrackedJobs)
  BY <1>1, FS_EmptySet DEF Init
<1>3. Typed
  BY TableInit DEF TableInv
<1> QED BY <1>2, <1>3 DEF CountInv, WaitGroupCounts, TrackedJobs

(***************************************************************************)
(* The WaitGroup counter is the number of executeJob goroutines alive.     *)
(***************************************************************************)
THEOREM WaitGroupSafe == Spec => []WaitGroupCounts
<1>1. Spec => []CountInv
  BY CountInit, CountStep, PTL DEF Spec
<1> QED BY <1>1, PTL DEF CountInv

(***************************************************************************)
(* The type invariant: in particular m.wg.Done never takes the counter     *)
(* below zero, which would panic.                                          *)
(***************************************************************************)
THEOREM TypeSafe == Spec => []TypeOK
<1>1. CountInv => TypeOK
  BY TrackedFinite DEF CountInv, Typed, WaitGroupCounts, TrackedJobs, TypeOK
<1>2. Spec => []CountInv
  BY CountInit, CountStep, PTL DEF Spec
<1> QED BY <1>1, <1>2, PTL

-----------------------------------------------------------------------------
(***************************************************************************)
(* Shutdown takes its graceful branch only when no tracked goroutine is    *)
(* left.                                                                   *)
(***************************************************************************)
THEOREM GracefulSafe == Spec => GracefulSeesNoJob
<1>1. CountInv /\ [Next]_vars
        => [shutdown # "graceful" /\ shutdown' = "graceful"
              => \A j \in Jobs : pc[j] \notin Tracked]_vars
  <2> SUFFICES ASSUME CountInv, Next, shutdown # "graceful", shutdown' = "graceful"
               PROVE  \A j \in Jobs : pc[j] \notin Tracked
    BY DEF vars
  <2>1. wg = 0
    BY DEF Next, Run, SubmitJob, CancelJob, SpawnJob, StartJob, NotifyStarted,
           PrepareExport, UpdateProgress, ExportReturns, StoreResult, FinishJob,
           GoroutineDone, BeginShutdown, ShutdownGraceful, ShutdownTimeout
  <2>2. TrackedJobs = {}
    BY <2>1, TrackedFinite, FS_EmptySet DEF CountInv, WaitGroupCounts, TrackedJobs
  <2> QED BY <2>2 DEF TrackedJobs
<1>2. Spec => []CountInv
  BY CountInit, CountStep, PTL DEF Spec
<1> QED BY <1>1, <1>2, PTL DEF Spec, GracefulSeesNoJob

(***************************************************************************)
(* The manager implements JobContract: an ID is accepted at most once and  *)
(* an accepted job resolved at most once, for good.                        *)
(***************************************************************************)
THEOREM Refinement == Spec => ImplementsContract
<1>1. Init => Contract!Init
  BY DEF Init, Contract!Init, outcome, Resolved
<1>2. TableInv /\ [Next]_vars => [Contract!Next]_outcome
  <2> SUFFICES ASSUME TableInv, [Next]_vars PROVE [Contract!Next]_outcome
    OBVIOUS
  <2> USE DEF TableInv, Typed, StatusMatchesGoroutine, Tracked, Resolved
  <2>1. ASSUME NEW j \in Jobs, SubmitJob(j) PROVE Contract!Accept(j)
    BY <2>1 DEF SubmitJob, Goto, Contract!Accept, outcome
  <2>2. ASSUME NEW j \in Jobs, FinishJob(j) PROVE Contract!Resolve(j)
    <3>1. status[j] \in {"running", "cancelled"}
      BY <2>2 DEF FinishJob, Goto
    <3>2. \E r \in {"completed", "failed"} : status' = [status EXCEPT ![j] = r]
      BY <2>2 DEF FinishJob
    <3> QED BY <3>1, <3>2 DEF Contract!Resolve, outcome
  <2>3. ASSUME NEW j \in Jobs, CancelJob(j) PROVE outcome' = outcome
    BY <2>3 DEF CancelJob, outcome
  <2>4. ASSUME NEW j \in Jobs, StartJob(j) PROVE outcome' = outcome
    BY <2>4 DEF StartJob, Goto, outcome
  <2>5. ASSUME status' = status PROVE outcome' = outcome
    BY <2>5 DEF outcome
  <2>6. ASSUME NEW j \in Jobs,
               \/ SpawnJob(j) \/ NotifyStarted(j) \/ PrepareExport(j)
               \/ UpdateProgress(j) \/ ExportReturns(j) \/ StoreResult(j)
               \/ GoroutineDone(j)
        PROVE  status' = status
    BY <2>6 DEF SpawnJob, NotifyStarted, PrepareExport, UpdateProgress,
                ExportReturns, StoreResult, GoroutineDone, table
  <2>7. ASSUME \/ BeginShutdown \/ ShutdownGraceful \/ ShutdownTimeout \/ UNCHANGED vars
        PROVE  status' = status
    BY <2>7 DEF BeginShutdown, ShutdownGraceful, ShutdownTimeout, vars, table
  <2> QED
    BY <2>1, <2>2, <2>3, <2>4, <2>5, <2>6, <2>7 DEF Next, Run, Contract!Next
<1>3. Spec => []TableInv
  BY TableInit, TableStep, PTL DEF Spec
<1> QED BY <1>1, <1>2, <1>3, PTL DEF Spec, ImplementsContract, Contract!Spec
-----------------------------------------------------------------------------
(***************************************************************************)
(* The story the webhook manager is told of a job.                         *)
(***************************************************************************)
Occurrences(s, event) == {i \in DOMAIN s : s[i] = event}

Final == {"completed", "failed"}

(* An event appended is one more occurrence of itself and of no other. *)
LEMMA OccurrencesAppend ==
  ASSUME NEW s \in Seq(Events), NEW event \in Events, NEW other \in Events
  PROVE  LET t == Append(s, event)
         IN  /\ Cardinality(Occurrences(s, other)) \in Nat
             /\ other = event => Cardinality(Occurrences(t, other))
                                   = Cardinality(Occurrences(s, other)) + 1
             /\ other # event => Occurrences(t, other) = Occurrences(s, other)
<1> DEFINE t == Append(s, event)
<1>1. /\ Len(s) \in Nat /\ DOMAIN s = 1 .. Len(s)
      /\ DOMAIN t = 1 .. (Len(s) + 1)
      /\ t[Len(s) + 1] = event
      /\ \A i \in 1 .. Len(s) : t[i] = s[i]
  OBVIOUS
<1>2. IsFiniteSet(Occurrences(s, other))
  <2>1. Occurrences(s, other) \subseteq 1 .. Len(s)
    BY <1>1 DEF Occurrences
  <2>2. IsFiniteSet(1 .. Len(s))
    BY <1>1, FS_Interval
  <2> QED BY <2>1, <2>2, FS_Subset
<1>3. CASE other = event
  <2>1. Occurrences(t, other) = Occurrences(s, other) \cup {Len(s) + 1}
    BY <1>1, <1>3 DEF Occurrences
  <2>2. Len(s) + 1 \notin Occurrences(s, other)
    BY <1>1 DEF Occurrences
  <2> QED BY <1>2, <1>3, <2>1, <2>2, FS_AddElement, FS_CardinalityType
<1>4. CASE other # event
  <2>1. Occurrences(t, other) = Occurrences(s, other)
    BY <1>1, <1>4 DEF Occurrences
  <2> QED BY <1>2, <1>4, <2>1, FS_CardinalityType
<1> QED BY <1>3, <1>4

(* How often CancelJob may have been accepted: once before executeJob marks *)
(* the job running, whatever it was, and once after.                        *)
Cancels(j) == CASE status[j] \in {"absent", "pending"} -> 0
                [] status[j] = "cancelled" /\ pc[j] \in {"unlocked", "spawned"} -> 1
                [] status[j] = "running" -> 1
                [] OTHER -> 2

(* What has been sent for a job, by where its goroutine is. *)
StoryOf(j) ==
    /\ sent[j] # <<>> <=> WebhooksConfigured /\ pc[j] # "none"
    /\ sent[j] # <<>> => sent[j][1] = "created"
    /\ Count(j, "created") = IF sent[j] = <<>> THEN 0 ELSE 1
    /\ Count(j, "started") <= IF pc[j] \in {"none", "unlocked", "spawned", "started"}
                              THEN 0 ELSE 1
    /\ Count(j, "cancelled") <= Cancels(j)
    /\ \A i \in DOMAIN sent[j] :
          sent[j][i] \in Final =>
              /\ pc[j] \in {"returned", "done"}
              /\ i = Len(sent[j]) /\ status[j] = sent[j][i]
    /\ pc[j] \in {"returned", "done"} /\ WebhooksConfigured
          => sent[j][Len(sent[j])] = status[j]

(* What every step keeps. *)
StoryInv == TableInv /\ \A j \in Jobs : StoryOf(j)

(* What one call to the webhook manager does to the story of the job. *)
LEMMA NotifyTells ==
  ASSUME Typed, NEW j \in Jobs, NEW event \in Events, Notify(j, event),
         WebhooksConfigured
  PROVE  /\ sent'[j] # <<>>
         /\ Len(sent[j]) \in Nat /\ DOMAIN sent[j] = 1 .. Len(sent[j])
         /\ Len(sent'[j]) = Len(sent[j]) + 1
         /\ DOMAIN sent'[j] = 1 .. (Len(sent[j]) + 1)
         /\ sent'[j][Len(sent[j]) + 1] = event
         /\ \A i \in DOMAIN sent[j] : sent'[j][i] = sent[j][i]
         /\ \A other \in Events :
               /\ Count(j, other) \in Nat
               /\ Count(j, other)' = Count(j, other) + IF other = event THEN 1 ELSE 0
         /\ \A k \in Jobs \ {j} : sent'[k] = sent[k]
<1>1. sent[j] \in Seq(Events) /\ sent'[j] = Append(sent[j], event)
  BY DEF Notify, Typed
<1>2. \A k \in Jobs \ {j} : sent'[k] = sent[k]
  BY DEF Notify, Typed
<1>3. ASSUME NEW other \in Events
      PROVE  /\ Count(j, other) \in Nat
             /\ Count(j, other)' = Count(j, other) + IF other = event THEN 1 ELSE 0
  <2>1. /\ Count(j, other) = Cardinality(Occurrences(sent[j], other))
        /\ Count(j, other)' = Cardinality(Occurrences(Append(sent[j], event), other))
    BY <1>1 DEF Count, Occurrences
  <2> QED BY <1>1, <2>1, OccurrencesAppend
<1>4. /\ Append(sent[j], event) # <<>>
      /\ Len(sent[j]) \in Nat /\ DOMAIN sent[j] = 1 .. Len(sent[j])
      /\ Len(Append(sent[j], event)) = Len(sent[j]) + 1
      /\ DOMAIN Append(sent[j], event) = 1 .. (Len(sent[j]) + 1)
      /\ Append(sent[j], event)[Len(sent[j]) + 1] = event
      /\ \A i \in DOMAIN sent[j] : Append(sent[j], event)[i] = sent[j][i]
  BY <1>1
<1> QED BY <1>1, <1>2, <1>3, <1>4

(* A job of which nothing changes keeps its story. *)
LEMMA StoryFrame ==
  ASSUME NEW k \in Jobs, StoryOf(k),
         sent'[k] = sent[k], pc'[k] = pc[k], status'[k] = status[k]
  PROVE  StoryOf(k)'
BY DEF StoryOf, Count, Cancels

(* A job that moves on without a call, its budget of cancellations and its *)
(* side of the started and the final call kept, keeps its story.           *)
LEMMA StoryMoves ==
  ASSUME TableInv, NEW j \in Jobs, StoryOf(j), sent'[j] = sent[j],
         pc[j] # "none", pc'[j] # "none",
         pc[j] \in {"unlocked", "spawned", "started"}
            <=> pc'[j] \in {"unlocked", "spawned", "started"},
         pc[j] \in {"returned", "done"} <=> pc'[j] \in {"returned", "done"},
         pc[j] \in {"returned", "done"} => status'[j] = status[j],
         Cancels(j) <= Cancels(j)', Cancels(j) \in Nat, Cancels(j)' \in Nat,
         Count(j, "cancelled") \in Nat
  PROVE  StoryOf(j)'
<1>1. \A e : Count(j, e)' = Count(j, e)
  BY DEF Count
<1> QED BY <1>1 DEF StoryOf

(* The budget of cancellations, and how often CancelJob has been told, are *)
(* numbers.                                                                *)
LEMMA StoryNumbers ==
  ASSUME Typed, NEW j \in Jobs
  PROVE  /\ Cancels(j) \in 0 .. 2 /\ Cancels(j)' \in 0 .. 2
         /\ \A event \in Events : Count(j, event) \in Nat
<1>1. Cancels(j) \in 0 .. 2
  BY DEF Cancels
<1>2. Cancels(j)' \in 0 .. 2
  BY DEF Cancels
<1>3. ASSUME NEW event \in Events PROVE Count(j, event) \in Nat
  <2>1. sent[j] \in Seq(Events)
    BY DEF Typed
  <2>2. Count(j, event) = Cardinality(Occurrences(sent[j], event))
    BY DEF Count, Occurrences
  <2> QED BY <2>1, <2>2, OccurrencesAppend
<1> QED BY <1>1, <1>2, <1>3

(* No step of SubmitJob, CancelJob or executeJob breaks the story. *)
LEMMA StoryStep == StoryInv /\ [Next]_vars => StoryInv'
<1> SUFFICES ASSUME StoryInv, [Next]_vars PROVE \A k \in Jobs : StoryOf(k)'
  BY TableStep DEF StoryInv
<1> DEFINE Same(k) == sent'[k] = sent[k] /\ pc'[k] = pc[k] /\ status'[k] = status[k]
<1>a. Typed /\ TableInv /\ \A k \in Jobs : StoryOf(k)
  BY DEF StoryInv, TableInv
<1>b. /\ pc \in [Jobs -> Steps] /\ status \in [Jobs -> Statuses \cup {"absent"}]
      /\ sent \in [Jobs -> Seq(Events)]
  BY <1>a DEF Typed
<1>c. /\ \A k \in Jobs : Cancels(k) \in 0 .. 2 /\ Cancels(k)' \in 0 .. 2
      /\ \A k \in Jobs : /\ Count(k, "created") \in Nat /\ Count(k, "started") \in Nat
                         /\ Count(k, "cancelled") \in Nat
  BY <1>a, StoryNumbers DEF Events
<1>d. ASSUME NEW k \in Jobs, Same(k) PROVE StoryOf(k)'
  BY <1>a, <1>d, StoryFrame
<1>e. ASSUME NEW k \in Jobs, sent'[k] = sent[k]
      PROVE  \A event : Count(k, event)' = Count(k, event)
  BY <1>e DEF Count
<1>1. ASSUME NEW j \in Jobs, SubmitJob(j) PROVE \A k \in Jobs : StoryOf(k)'
  <2>1. /\ pc[j] = "none" /\ pc'[j] = "unlocked" /\ status'[j] = "pending"
        /\ \A k \in Jobs \ {j} : pc'[k] = pc[k] /\ status'[k] = status[k]
        /\ Notify(j, "created")
    BY <1>1, <1>b DEF SubmitJob, Goto
  <2>2. /\ sent[j] = <<>> /\ Count(j, "created") = 0 /\ Count(j, "started") = 0
        /\ Count(j, "cancelled") = 0 /\ Cancels(j)' = 0
    <3>1. Cancels(j) = 0 /\ Cancels(j)' = 0
      BY <1>1, <2>1 DEF SubmitJob, Cancels
    <3>2. StoryOf(j)
      BY <1>a
    <3> QED BY <1>c, <2>1, <3>1, <3>2 DEF StoryOf
  <2>3. CASE WebhooksConfigured
    <3>1. /\ sent'[j] # <<>> /\ DOMAIN sent'[j] = {1} /\ sent'[j][1] = "created"
          /\ Len(sent'[j]) = 1
          /\ Count(j, "created")' = Count(j, "created") + 1
          /\ Count(j, "started")' = Count(j, "started") + 0
          /\ Count(j, "cancelled")' = Count(j, "cancelled") + 0
          /\ \A k \in Jobs \ {j} : sent'[k] = sent[k]
      <4>1. Len(sent[j]) = 0
        BY <2>2
      <4>2. "created" \in Events /\ {"created", "started", "cancelled"} \subseteq Events
        BY DEF Events
      <4>3. /\ sent'[j] # <<>> /\ DOMAIN sent'[j] = 1 .. 1 /\ sent'[j][1] = "created"
            /\ Len(sent'[j]) = 1 /\ \A k \in Jobs \ {j} : sent'[k] = sent[k]
        <5>1. /\ sent'[j] # <<>> /\ DOMAIN sent'[j] = 1 .. (0 + 1)
              /\ sent'[j][0 + 1] = "created" /\ Len(sent'[j]) = 0 + 1
          BY <1>a, <2>1, <2>3, <4>1, <4>2, NotifyTells
        <5>2. \A k \in Jobs \ {j} : sent'[k] = sent[k]
          BY <1>a, <2>1, <2>3, <4>2, NotifyTells
        <5> QED BY <5>1, <5>2
      <4>4. \A other \in {"created", "started", "cancelled"} :
              Count(j, other)' = Count(j, other) + IF other = "created" THEN 1 ELSE 0
        BY <1>a, <2>1, <2>3, <4>2, NotifyTells
      <4> QED BY <4>3, <4>4
    <3>2. StoryOf(j)'
      BY <2>1, <2>2, <2>3, <3>1 DEF StoryOf, Final
    <3> QED BY <1>d, <2>1, <3>1, <3>2
  <2>4. CASE ~WebhooksConfigured
    <3>1. sent' = sent
      BY <2>1, <2>4 DEF Notify
    <3>2. StoryOf(j)'
      BY <1>e, <2>1, <2>2, <2>4, <3>1 DEF StoryOf
    <3> QED BY <1>d, <2>1, <3>1, <3>2
  <2> QED BY <2>3, <2>4
<1>2. ASSUME NEW j \in Jobs, NEW event \in Events \ Final, event # "created",
             Notify(j, event),
             pc[j] \notin {"none", "returned", "done"},
             pc'[j] \notin {"none", "returned", "done"},
             pc'[j] \in {"unlocked", "spawned", "started"}
                => pc[j] \in {"unlocked", "spawned", "started"} /\ event # "started",
             event = "started" => pc[j] \in {"unlocked", "spawned", "started"},
             Cancels(j)' >= Cancels(j) + IF event = "cancelled" THEN 1 ELSE 0,
             \A k \in Jobs \ {j} : pc'[k] = pc[k] /\ status'[k] = status[k]
      PROVE  \A k \in Jobs : StoryOf(k)'
  <2>1. StoryOf(j)
    BY <1>a
  <2>2. CASE WebhooksConfigured
    <3>1. sent[j] # <<>> /\ 1 \in DOMAIN sent[j]
      BY <1>2, <1>b, <2>1, <2>2 DEF StoryOf
    <3>2. /\ sent'[j] # <<>> /\ sent'[j][1] = sent[j][1]
          /\ \A i \in DOMAIN sent'[j] :
                sent'[j][i] \in Final => i \in DOMAIN sent[j] /\ sent[j][i] \in Final
          /\ Count(j, "created")' = Count(j, "created") + 0
          /\ Count(j, "started")' = Count(j, "started") + IF event = "started" THEN 1 ELSE 0
          /\ Count(j, "cancelled")'
                = Count(j, "cancelled") + IF event = "cancelled" THEN 1 ELSE 0
          /\ \A k \in Jobs \ {j} : sent'[k] = sent[k]
      <4>1. /\ sent'[j] # <<>> /\ sent'[j][1] = sent[j][1]
            /\ \A i \in DOMAIN sent'[j] :
                  sent'[j][i] = event \/ (i \in DOMAIN sent[j] /\ sent'[j][i] = sent[j][i])
            /\ \A k \in Jobs \ {j} : sent'[k] = sent[k]
        BY <1>2, <1>a, <2>2, <3>1, NotifyTells
      <4>2. \A other \in {"created", "started", "cancelled"} :
              Count(j, other)' = Count(j, other) + IF other = event THEN 1 ELSE 0
        BY <1>2, <1>a, <2>2, NotifyTells DEF Events
      <4> QED BY <1>2, <4>1, <4>2
    <3>3. StoryOf(j)'
      BY <1>2, <1>c, <2>1, <2>2, <3>1, <3>2 DEF StoryOf
    <3> QED BY <1>2, <1>d, <3>2, <3>3
  <2>3. CASE ~WebhooksConfigured
    <3>1. sent' = sent
      BY <1>2, <2>3 DEF Notify
    <3>2. sent[j] = <<>> /\ DOMAIN sent[j] = {}
      BY <1>2, <2>1, <2>3 DEF StoryOf
    <3>3. StoryOf(j)'
      BY <1>2, <1>c, <1>e, <2>1, <2>3, <3>1, <3>2 DEF StoryOf
    <3> QED BY <1>2, <1>d, <3>1, <3>3
  <2> QED BY <2>2, <2>3
<1>3. ASSUME NEW j \in Jobs, CancelJob(j) PROVE \A k \in Jobs : StoryOf(k)'
  <2>1. /\ status'[j] = "cancelled" /\ pc' = pc
        /\ status[j] \in {"running", "pending"} /\ Notify(j, "cancelled")
        /\ \A k \in Jobs \ {j} : status'[k] = status[k]
    BY <1>3, <1>b DEF CancelJob
  <2>2. /\ pc[j] \notin {"none", "returned", "done"}
        /\ status[j] = "pending" => pc[j] \in {"unlocked", "spawned"}
    BY <1>a, <1>b, <2>1 DEF TableInv, StatusMatchesGoroutine, Resolved, Tracked, Steps
  <2>3. status[j] = "running" => pc[j] \notin {"unlocked", "spawned"}
    BY <1>a, <2>1 DEF TableInv, StatusMatchesGoroutine
  <2>4. Cancels(j)' = Cancels(j) + 1
    BY <2>1, <2>2, <2>3 DEF Cancels
  <2>5. "cancelled" \in Events \ Final
    BY DEF Events, Final
  <2> QED BY <1>2, <1>c, <2>1, <2>2, <2>4, <2>5
<1>4. ASSUME NEW j \in Jobs, NotifyStarted(j) PROVE \A k \in Jobs : StoryOf(k)'
  <2>1. /\ pc[j] = "started" /\ pc'[j] = "prepare" /\ status' = status
        /\ \A k \in Jobs \ {j} : pc'[k] = pc[k]
        /\ Notify(j, "started")
    BY <1>4, <1>b DEF NotifyStarted, table, Goto
  <2>2. Cancels(j)' = Cancels(j)
    BY <2>1 DEF Cancels
  <2>3. "started" \in Events \ Final
    BY DEF Events, Final
  <2> QED BY <1>2, <1>c, <2>1, <2>2, <2>3
<1>5. ASSUME NEW j \in Jobs, FinishJob(j) PROVE \A k \in Jobs : StoryOf(k)'
  <2>1. PICK event \in Final :
          /\ pc[j] \in {"succeeding", "failing"} /\ pc'[j] = "returned"
          /\ status'[j] = event
          /\ \A k \in Jobs \ {j} : pc'[k] = pc[k] /\ status'[k] = status[k]
          /\ Notify(j, event)
    <3>1. CASE pc[j] = "succeeding"
      BY <1>5, <1>b, <3>1 DEF FinishJob, Goto, Final
    <3>2. CASE pc[j] = "failing"
      BY <1>5, <1>b, <3>2 DEF FinishJob, Goto, Final
    <3> QED BY <1>5, <3>1, <3>2 DEF FinishJob, Goto
  <2>2. /\ event \in Events \ {"created", "started", "cancelled"}
        /\ event \notin {"absent", "pending", "running"}
    BY <2>1 DEF Final, Events
  <2>3. Cancels(j)' = 2
    BY <2>1, <2>2 DEF Cancels
  <2>4. StoryOf(j)
    BY <1>a
  <2>5. CASE WebhooksConfigured
    <3>1. sent[j] # <<>> /\ 1 \in DOMAIN sent[j]
      BY <1>b, <2>1, <2>4, <2>5 DEF StoryOf
    <3>2. /\ sent'[j] # <<>> /\ sent'[j][1] = sent[j][1]
          /\ \A i \in DOMAIN sent'[j] :
                i = Len(sent'[j]) \/ (i \in DOMAIN sent[j] /\ sent'[j][i] = sent[j][i])
          /\ sent'[j][Len(sent'[j])] = event
          /\ \A k \in Jobs \ {j} : sent'[k] = sent[k]
      BY <1>a, <2>2, <2>1, <2>5, <3>1, NotifyTells
    <3>3. /\ Count(j, "created")' = Count(j, "created") + 0
          /\ Count(j, "started")' = Count(j, "started") + 0
          /\ Count(j, "cancelled")' = Count(j, "cancelled") + 0
      BY <1>a, <2>2, <2>1, <2>5, NotifyTells DEF Events
    <3>4. \A i \in DOMAIN sent[j] : sent[j][i] \notin Final
      BY <2>1, <2>4 DEF StoryOf
    <3>5. StoryOf(j)'
      BY <1>c, <2>1, <2>3, <2>4, <2>5, <3>1, <3>2, <3>3, <3>4 DEF StoryOf
    <3> QED BY <1>d, <2>1, <3>2, <3>5
  <2>6. CASE ~WebhooksConfigured
    <3>1. sent' = sent
      BY <2>1, <2>6 DEF Notify
    <3>2. sent[j] = <<>> /\ DOMAIN sent[j] = {}
      BY <2>4, <2>6 DEF StoryOf
    <3>3. StoryOf(j)'
      BY <1>c, <1>e, <2>1, <2>3, <2>4, <2>6, <3>1, <3>2 DEF StoryOf
    <3> QED BY <1>d, <2>1, <3>1, <3>3
  <2> QED BY <2>5, <2>6
<1>6. ASSUME NEW j \in Jobs, sent' = sent, pc[j] # "none", pc'[j] # "none",
             pc[j] \in {"unlocked", "spawned", "started"}
                <=> pc'[j] \in {"unlocked", "spawned", "started"},
             pc[j] \in {"returned", "done"} <=> pc'[j] \in {"returned", "done"},
             pc[j] \in {"returned", "done"} => status'[j] = status[j],
             Cancels(j) <= Cancels(j)',
             \A k \in Jobs \ {j} : pc'[k] = pc[k] /\ status'[k] = status[k]
      PROVE  \A k \in Jobs : StoryOf(k)'
  <2>1. StoryOf(j)
    BY <1>a
  <2>2. StoryOf(j)'
    BY <1>6, <1>a, <1>c, <2>1, StoryMoves
  <2> QED BY <1>6, <1>d, <2>2
<1>7. ASSUME NEW j \in Jobs, StartJob(j) PROVE \A k \in Jobs : StoryOf(k)'
  <2>1. /\ pc[j] = "spawned" /\ pc'[j] = "started" /\ sent' = sent
        /\ status'[j] = "running"
        /\ \A k \in Jobs \ {j} : pc'[k] = pc[k] /\ status'[k] = status[k]
    BY <1>7, <1>b DEF StartJob, Goto
  <2>2. status[j] \in {"pending", "cancelled"}
    BY <1>a, <2>1 DEF TableInv, StatusMatchesGoroutine
  <2>3. Cancels(j) <= Cancels(j)'
    BY <2>1, <2>2 DEF Cancels
  <2> QED BY <1>6, <2>1, <2>3
<1>8. ASSUME NEW j \in Jobs,
             \/ SpawnJob(j) \/ PrepareExport(j) \/ ExportReturns(j)
             \/ StoreResult(j) \/ GoroutineDone(j)
      PROVE  \A k \in Jobs : StoryOf(k)'
  <2>1. /\ sent' = sent /\ status' = status /\ pc[j] # "none" /\ pc'[j] # "none"
        /\ \A k \in Jobs \ {j} : pc'[k] = pc[k]
        /\ pc[j] \in {"unlocked", "spawned", "started"}
              <=> pc'[j] \in {"unlocked", "spawned", "started"}
        /\ pc[j] \in {"returned", "done"} <=> pc'[j] \in {"returned", "done"}
        /\ pc[j] \in {"unlocked", "spawned"} <=> pc'[j] \in {"unlocked", "spawned"}
    <3> USE <1>b DEF Goto, table
    <3>1. CASE SpawnJob(j) BY <3>1 DEF SpawnJob
    <3>2. CASE PrepareExport(j) BY <3>2 DEF PrepareExport
    <3>3. CASE ExportReturns(j) BY <3>3 DEF ExportReturns
    <3>4. CASE StoreResult(j) BY <3>4 DEF StoreResult
    <3>5. CASE GoroutineDone(j) BY <3>5 DEF GoroutineDone
    <3> QED BY <1>8, <3>1, <3>2, <3>3, <3>4, <3>5
  <2>2. Cancels(j) = Cancels(j)'
    BY <2>1 DEF Cancels
  <2> QED BY <1>6, <1>c, <2>1, <2>2
<1>9. ASSUME \/ BeginShutdown \/ ShutdownGraceful \/ ShutdownTimeout \/ UNCHANGED vars
             \/ \E j \in Jobs : UpdateProgress(j)
      PROVE  \A k \in Jobs : StoryOf(k)'
  <2>1. sent' = sent /\ status' = status /\ pc' = pc
    BY <1>9 DEF BeginShutdown, ShutdownGraceful, ShutdownTimeout, UpdateProgress,
                vars, table
  <2> QED BY <1>d, <2>1
<1> QED
  BY <1>1, <1>3, <1>4, <1>5, <1>7, <1>8, <1>9 DEF Next, Run

(* Nothing has been told of a job nobody submitted. *)
LEMMA StoryInit == Init => StoryInv
<1> SUFFICES ASSUME Init PROVE \A j \in Jobs : StoryOf(j)
  BY TableInit DEF StoryInv
<1> TAKE j \in Jobs
<1>1. sent[j] = <<>> /\ pc[j] = "none" /\ status[j] = "absent" /\ DOMAIN sent[j] = {}
  BY DEF Init
<1>2. \A e : Count(j, e) = 0
  <2> TAKE e
  <2>1. {i \in DOMAIN sent[j] : sent[j][i] = e} = {}
    BY <1>1
  <2> QED BY <2>1, FS_EmptySet DEF Count
<1> QED BY <1>1, <1>2 DEF StoryOf, Cancels, Final

(***************************************************************************)
(* What SubmitJob, CancelJob and executeJob tell the webhook manager of a  *)
(* job is a story in order, for any number of jobs: created first and      *)
(* once, started at most once, cancelled at most twice, and the final      *)
(* status last.                                                            *)
(***************************************************************************)
THEOREM StorySafe == Spec => []WebhookStory
<1>1. StoryInv => WebhookStory
  <2> SUFFICES ASSUME StoryInv, NEW j \in Jobs
               PROVE  /\ Count(j, "created") <= 1 /\ Count(j, "started") <= 1
                      /\ Count(j, "cancelled") <= 2
                      /\ sent[j] # <<>> => sent[j][1] = "created"
                      /\ \A i \in DOMAIN sent[j] :
                            sent[j][i] \in {"completed", "failed"} =>
                                i = Len(sent[j]) /\ status[j] = sent[j][i]
                      /\ Resolved(j) /\ WebhooksConfigured
                            => sent[j][Len(sent[j])] = status[j]
    BY DEF WebhookStory
  <2>1. StoryOf(j) /\ Typed /\ (Resolved(j) => pc[j] \in {"returned", "done"})
    BY DEF StoryInv, TableInv, Typed, StatusMatchesGoroutine, Resolved, Tracked, Steps
  <2>2. /\ Cancels(j) \in 0 .. 2
        /\ \A event \in Events : Count(j, event) \in Nat
    BY <2>1, StoryNumbers
  <2> QED BY <2>1, <2>2 DEF StoryOf, Final, Events
<1>2. Spec => []StoryInv
  BY StoryInit, StoryStep, PTL DEF Spec
<1> QED BY <1>1, <1>2, PTL
=============================================================================
