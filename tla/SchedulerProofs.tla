--------------------------- MODULE SchedulerProofs ----------------------------
(***************************************************************************)
(* Proofs about the scheduler of cron jobs, its dependency tracker and its *)
(* retries, for any schedules, objects, executions, jobs, dependencies,    *)
(* chains and policies.                                                    *)
(*                                                                         *)
(* Scheduler. EntriesOwned and EnabledIsScheduled need that an object is   *)
(* held under one ID (ObjectsPlaced): handlers remove the entry of the     *)
(* object they find, and would leave another's. They need that entry IDs   *)
(* are given out in order and to one schedule each (EidsIssued): the ID a  *)
(* schedule keeps is all that Remove has. Every handler replaces at most   *)
(* the entry of one ID (Replaces), and that much keeps the table whole     *)
(* (TableReplaced). The entry of an object it replaces is on the record of *)
(* those left behind (leaked); there is no other entry of nobody.          *)
(*                                                                         *)
(* DependencyTracker. A waiting run whose dependencies are met has seen    *)
(* them met (SatSeen), for only an update can make them met, and it notes  *)
(* every waiter; and a run is signalled only by an update that met its     *)
(* dependencies (SignalledSat).                                            *)
(*                                                                         *)
(* RetryManager. AttemptsBounded is not inductive: a chain that has passed *)
(* the check will count an attempt whatever happened since. PassedBounded  *)
(* counts the chains that have passed with the attempts. TriesCounted      *)
(* needs that a chain with a timer has one attempt more than submissions   *)
(* (Counted).                                                              *)
(***************************************************************************)
EXTENDS Scheduler, DependencyTracker, RetryManager, FiniteSetTheorems, TLAPS

(* The cron jobs. *)

(* The IDs with a row of the table. *)
Stored == {id \in Ids : rows[id] # {}}

(* An object is held under the one ID it carries. *)
ObjectsPlaced ==
    /\ \A i, k \in Ids : Known(i) /\ jobs[i] = jobs[k] => i = k
    /\ \A id \in Ids : Known(id) => fields[jobs[id]].id = id

(* Entry IDs have been given out, and to one schedule each. *)
EidsIssued ==
    /\ \A n \in entries : n.eid <= nextEntry
    /\ \A id \in Ids : cronEntries[id] <= nextEntry
    /\ \A i, k \in Ids : cronEntries[i] # 0 /\ cronEntries[i] = cronEntries[k] => i = k

(* What every step keeps, the properties among it. *)
SchedulerInv ==
    /\ EntriesOwned /\ StoredIffKnown /\ EnabledIsScheduled
    /\ ObjectsPlaced /\ EidsIssued

-----------------------------------------------------------------------------
(* The bounds are numbers. *)
LEMMA BoundsAreNumbers == MaxEntry \in Nat /\ MaxRuns \in Nat /\ MaxClock \in Nat
BY BoundsNat

(* Rows carry the types of the fields they are made of. *)
LEMMA RowTyped ==
  /\ \A f \in Fields : RowOf(f) \in Row
  /\ \A f \in Fields : rows \in [Ids -> SUBSET Row] /\ UpdateSchedule(f)
        => rows' \in [Ids -> SUBSET Row]
  /\ \A id \in Ids, f \in Fields : rows \in [Ids -> SUBSET Row] /\ SaveSchedule(id, f)
        => rows' \in [Ids -> SUBSET Row]
<1>1. \A f \in Fields : RowOf(f) \in Row
  BY DEF Fields, Row, RowOf
<1>2. \A f \in Fields : f.id \in Ids
  BY DEF Fields
<1> QED BY <1>1, <1>2 DEF UpdateSchedule, SaveSchedule, Written, Refused

(* The IDs read are no more than the IDs, and there is an entry ID for each. *)
LEMMA StoredFinite ==
  ASSUME NEW read, read \subseteq Ids
  PROVE  /\ Cardinality(read) \in Nat /\ Cardinality(read) <= MaxEntry
         /\ Cardinality(Ids) \in Nat
<1>1. /\ Cardinality(read) \in Nat /\ Cardinality(Ids) \in Nat
      /\ Cardinality(read) <= Cardinality(Ids)
  BY IdentitiesFinite, FS_Subset, FS_CardinalityType
<1> QED BY <1>1, BoundsNat

(* What LoadSchedules makes of the table: an object and, for what is to    *)
(* run, an entry ID of each row, all different.                            *)
Loads(read, object, eid) ==
    LET loaded(id) == CHOOSE r \in rows[id] : TRUE
        load(id)   == [id |-> id, expr |-> loaded(id).expr,
                       enabled |-> loaded(id).enabled, runs |-> loaded(id).runs]
        ToRun      == {id \in read : Schedulable(load(id))}
    IN  /\ \A i, k \in read : i # k => object[i] # object[k] /\ eid[i] # eid[k]
        /\ \A id \in read : eid[id] <= nextEntry'
        /\ jobs' = [id \in Ids |-> IF id \in read THEN object[id] ELSE "none"]
        /\ \A id \in read : fields'[object[id]] = load(id)
        /\ fields' \in [Objs -> Fields]
        /\ entries' = {[eid |-> eid[id], owner |-> object[id]] : id \in ToRun}
        /\ cronEntries' = [id \in Ids |-> IF id \in ToRun THEN eid[id] ELSE 0]

(* A restart loads so: the IDs it takes can be had, by StoredCounted. *)
LEMMA RestartLoads ==
  ASSUME SchedulerTypeOK, Restart
  PROVE  \E read \in {Stored, {}} :
           /\ \E object \in [read -> Objs], eid \in [read -> 1 .. Cardinality(Ids)] :
                 Loads(read, object, eid)
           /\ nextEntry' = Cardinality(read) /\ rows' = rows /\ clock' = clock
           /\ exec' = [e \in Execs |-> IdleExec] /\ submitted' = {}
           /\ unstored' = Stored \ read /\ leaked' = {}
<1> DEFINE loaded(id) == CHOOSE r \in rows[id] : TRUE
           load(id)   == [id |-> id, expr |-> loaded(id).expr,
                          enabled |-> loaded(id).enabled, runs |-> loaded(id).runs]
<1> DEFINE ToRun(read) == {id \in read : Schedulable(load(id))}
<1> DEFINE Made(read, object, eid) ==
        /\ \A i, k \in read : i # k => object[i] # object[k] /\ eid[i] # eid[k]
        /\ \A id \in read : eid[id] <= Cardinality(read)
        /\ nextEntry' = Cardinality(read)
        /\ jobs' = [id \in Ids |-> IF id \in read THEN object[id] ELSE "none"]
        /\ fields' = [o \in Objs |-> IF \E id \in read : object[id] = o
                                     THEN load(CHOOSE id \in read : object[id] = o)
                                     ELSE fields[o]]
        /\ entries' = {[eid |-> eid[id], owner |-> object[id]] : id \in ToRun(read)}
        /\ cronEntries' = [id \in Ids |-> IF id \in ToRun(read) THEN eid[id] ELSE 0]
        /\ exec' = [e \in Execs |-> IdleExec]
        /\ submitted' = {}
        /\ unstored' = Stored \ read
        /\ leaked' = {}
        /\ UNCHANGED <<rows, clock>>
<1>p. PICK read \in {Stored, {}} :
        \E object \in [read -> Objs], eid \in [read -> 1 .. Cardinality(Ids)] :
            Made(read, object, eid)
  BY Zenon DEF Restart, Stored
<1>1. PICK object \in [read -> Objs], eid \in [read -> 1 .. Cardinality(Ids)] :
        Made(read, object, eid)
  BY <1>p
<1>2. \A id \in read : load(id) \in Fields
  <2> SUFFICES ASSUME NEW id \in read PROVE load(id) \in Fields
    OBVIOUS
  <2>1. loaded(id) \in Row /\ id \in Ids
    BY DEF SchedulerTypeOK, Stored
  <2> QED BY <2>1 DEF Row, Fields
<1>3. \A id \in read : (CHOOSE i \in read : object[i] = object[id]) = id
  <2> SUFFICES ASSUME NEW id \in read
               PROVE  (CHOOSE i \in read : object[i] = object[id]) = id
    OBVIOUS
  <2> DEFINE c == CHOOSE i \in read : object[i] = object[id]
  <2>1. c \in read /\ object[c] = object[id]
    OBVIOUS
  <2> QED BY <1>1, <2>1
<1> HIDE DEF load
<1>4. \A id \in read : fields'[object[id]] = load(id)
  BY <1>1, <1>3
<1>5. fields' \in [Objs -> Fields]
  <2> SUFFICES ASSUME NEW o \in Objs
               PROVE  (IF \E id \in read : object[id] = o
                       THEN load(CHOOSE id \in read : object[id] = o)
                       ELSE fields[o]) \in Fields
    BY <1>1
  <2>1. ASSUME NEW id \in read, object[id] = o
        PROVE  (CHOOSE i \in read : object[i] = o) \in read
    BY <2>1
  <2> QED BY <1>2, <2>1 DEF SchedulerTypeOK
<1>6. Loads(read, object, eid)
  BY <1>1, <1>2, <1>4, <1>5 DEF Loads, load
<1> QED BY <1>1, <1>6

(* The types of the schedule table, of cron, of the store and of the       *)
(* goroutines.                                                             *)
LEMMA SchedulerTypeStep ==
  SchedulerTypeOK /\ [SchedulerNext]_schedulerVars => SchedulerTypeOK'
<1> SUFFICES ASSUME SchedulerTypeOK, [SchedulerNext]_schedulerVars
             PROVE  SchedulerTypeOK'
  OBVIOUS
<1> USE BoundsAreNumbers DEF SchedulerTypeOK, historyVars
<1>f. ASSUME NEW id \in Ids, NEW expr \in Exprs, NEW enabled \in BOOLEAN
      PROVE  [id |-> id, expr |-> expr, enabled |-> enabled, runs |-> 0] \in Fields
  BY <1>f DEF Fields
<1>k. ASSUME NEW id \in Ids, Known(id)
      PROVE  jobs[id] \in Objs /\ fields[jobs[id]] \in Fields
  BY <1>k DEF Known
<1>e. ASSUME NEW n \in 1 .. MaxEntry, NEW o \in Objs \cup {"noop"}
      PROVE  [eid |-> n, owner |-> o] \in Entry
  BY DEF Entry
<1>x. \A e \in Execs : exec[e].at # "idle" => exec[e].at \in {"submit", "stats", "persist"}
                          /\ exec[e].obj \in Objs
  BY DEF Exec, IdleExec
<1>1. ASSUME NEW id \in Ids, NEW o \in Objs, NEW enabled \in BOOLEAN,
             AddScheduledJob(id, o, enabled)
      PROVE  SchedulerTypeOK'
  <2> DEFINE f == [id |-> id, expr |-> "cron", enabled |-> enabled, runs |-> 0]
  <2>1. f \in Fields
    BY <1>f DEF Exprs
  <2>2. /\ fields' = [fields EXCEPT ![o] = f] /\ jobs' = [jobs EXCEPT ![id] = o]
        /\ SaveSchedule(id, f) /\ nextEntry + 2 <= MaxEntry
        /\ leaked' = leaked \cup {n.eid : n \in {k \in entries : k.owner = jobs[id]}}
        /\ UNCHANGED <<exec, submitted, clock>>
    BY <1>1 DEF AddScheduledJob
  <2>3. nextEntry + 1 \in 1 .. MaxEntry /\ nextEntry + 2 \in 1 .. MaxEntry
    BY <2>2
  <2>4. entries' \subseteq Entry
    BY <1>1, <1>e, <2>3 DEF AddScheduledJob
  <2>5. nextEntry' \in 0 .. MaxEntry /\ cronEntries' \in [Ids -> 0 .. MaxEntry]
    BY <1>1, <2>3 DEF AddScheduledJob
  <2>6. rows' \in [Ids -> SUBSET Row]
    BY <2>1, <2>2, RowTyped
  <2>7. unstored' \subseteq Ids
    BY <2>2 DEF SaveSchedule, Written, Refused
  <2>8. leaked' \subseteq 1 .. MaxEntry
    BY <2>2 DEF Entry
  <2> HIDE DEF f
  <2> QED BY <2>1, <2>2, <2>4, <2>5, <2>6, <2>7, <2>8
<1>2. ASSUME NEW id \in Ids, RemoveScheduledJob(id) PROVE SchedulerTypeOK'
  BY <1>2 DEF RemoveScheduledJob, EntriesWithout, DeleteSchedule, Written, Refused
<1>3. ASSUME NEW id \in Ids, NEW expr \in Exprs, NEW enabled \in BOOLEAN,
             UpdateScheduledJob(id, expr, enabled)
      PROVE  SchedulerTypeOK'
  <2> DEFINE o == jobs[id]
             f == [fields[o] EXCEPT !.expr = expr, !.enabled = enabled]
             kept == IF fields[o].enabled THEN EntriesWithout(id) ELSE entries
  <2>1. o \in Objs /\ fields[o] \in Fields
    BY <1>3, <1>k DEF UpdateScheduledJob
  <2>2. f \in Fields
    BY <2>1 DEF Fields
  <2>3. kept \subseteq Entry
    BY DEF EntriesWithout
  <2>4. /\ fields' = [fields EXCEPT ![o] = f]
        /\ UNCHANGED <<jobs, exec, submitted, clock, unstored, leaked>>
        /\ \/ AddEntry(id, kept, o)
           \/ entries' = kept /\ UNCHANGED <<nextEntry, cronEntries>>
        /\ UpdateSchedule(f) \/ UNCHANGED rows
    BY <1>3 DEF UpdateScheduledJob, UpdateSchedule
  <2>5. rows' \in [Ids -> SUBSET Row]
    BY <2>2, <2>4, RowTyped
  <2> HIDE DEF f, kept, o
  <2>6. /\ entries' \subseteq Entry /\ nextEntry' \in 0 .. MaxEntry
        /\ cronEntries' \in [Ids -> 0 .. MaxEntry]
    <3>1. CASE AddEntry(id, kept, o)
      <4>1. nextEntry + 1 \in 1 .. MaxEntry
        BY <3>1 DEF AddEntry
      <4> QED BY <1>e, <2>1, <2>3, <3>1, <4>1 DEF AddEntry
    <3>2. CASE entries' = kept /\ UNCHANGED <<nextEntry, cronEntries>>
      BY <2>3, <3>2
    <3> QED BY <2>4, <3>1, <3>2
  <2> QED BY <2>1, <2>2, <2>4, <2>5, <2>6
<1>4. ASSUME NEW id \in Ids, EnableScheduledJob(id) PROVE SchedulerTypeOK'
  <2>1. jobs[id] \in Objs /\ fields[jobs[id]] \in Fields
    BY <1>4, <1>k DEF EnableScheduledJob
  <2>2. [fields[jobs[id]] EXCEPT !.enabled = TRUE] \in Fields
    BY <2>1 DEF Fields
  <2>3. nextEntry + 1 \in 1 .. MaxEntry
    BY <1>4 DEF EnableScheduledJob, AddEntry
  <2> QED BY <1>4, <1>e, <2>1, <2>2, <2>3 DEF EnableScheduledJob, AddEntry
<1>5. ASSUME NEW id \in Ids, DisableScheduledJob(id) PROVE SchedulerTypeOK'
  <2>1. jobs[id] \in Objs /\ fields[jobs[id]] \in Fields
    BY <1>5, <1>k DEF DisableScheduledJob
  <2>2. [fields[jobs[id]] EXCEPT !.enabled = FALSE] \in Fields
    BY <2>1 DEF Fields
  <2> QED BY <1>5, <2>1, <2>2 DEF DisableScheduledJob, EntriesWithout
<1>6. ASSUME NEW e \in Execs, NEW o \in Objs, Start(e, o) PROVE SchedulerTypeOK'
  <2>1. [at |-> "submit", obj |-> o] \in Exec
    BY DEF Exec
  <2> QED BY <1>6, <2>1 DEF Start
<1>7. ASSUME NEW id \in Ids, NEW e \in Execs, TriggerNow(id, e) PROVE SchedulerTypeOK'
  BY <1>6, <1>7, <1>k DEF TriggerNow
<1>8. ASSUME NEW e \in Execs, CronFires(e) PROVE SchedulerTypeOK'
  <2>1. PICK n \in entries : n.owner # "noop" /\ Start(e, n.owner)
    BY <1>8 DEF CronFires
  <2>2. n.owner \in Objs
    BY <2>1 DEF Entry
  <2> QED BY <1>6, <2>1, <2>2
<1>9. ASSUME NEW e \in Execs, SubmitScheduled(e) PROVE SchedulerTypeOK'
  <2>1. exec[e].obj \in Objs
    BY <1>9, <1>x DEF SubmitScheduled
  <2>2. fields[exec[e].obj].id \in Ids
    BY <2>1 DEF Fields
  <2>3. [exec[e] EXCEPT !.at = "stats"] \in Exec /\ IdleExec \in Exec
    BY <1>9, <2>1 DEF Exec, SubmitScheduled, IdleExec
  <2> QED BY <1>9, <2>2, <2>3 DEF SubmitScheduled
<1>10. ASSUME NEW e \in Execs, CountRun(e) PROVE SchedulerTypeOK'
  <2>1. exec[e].obj \in Objs
    BY <1>10, <1>x DEF CountRun
  <2>2. fields[exec[e].obj] \in Fields /\ fields[exec[e].obj].runs + 1 \in 0 .. MaxRuns
    BY <1>10, <2>1 DEF CountRun, Fields
  <2>3. [fields[exec[e].obj] EXCEPT !.runs = @ + 1] \in Fields
    BY <2>2 DEF Fields
  <2>4. [exec[e] EXCEPT !.at = "persist"] \in Exec
    BY <1>10, <2>1 DEF Exec, CountRun, IdleExec
  <2> QED BY <1>10, <2>1, <2>3, <2>4 DEF CountRun
<1>11. ASSUME NEW e \in Execs, PersistStats(e) PROVE SchedulerTypeOK'
  <2>1. exec[e].obj \in Objs /\ fields[exec[e].obj] \in Fields /\ IdleExec \in Exec
    BY <1>11, <1>x DEF PersistStats, Exec
  <2>2. rows' \in [Ids -> SUBSET Row]
    BY <1>11, <2>1, RowTyped DEF PersistStats
  <2> QED BY <1>11, <2>1, <2>2 DEF PersistStats, UpdateSchedule
<1>12. CASE Restart
  <2>p. PICK read \in {Stored, {}} :
          /\ \E object \in [read -> Objs], eid \in [read -> 1 .. Cardinality(Ids)] :
                Loads(read, object, eid)
          /\ nextEntry' = Cardinality(read) /\ rows' = rows /\ clock' = clock
          /\ exec' = [e \in Execs |-> IdleExec] /\ submitted' = {}
          /\ unstored' = Stored \ read /\ leaked' = {}
    BY <1>12, RestartLoads
  <2>1. PICK object \in [read -> Objs], eid \in [read -> 1 .. Cardinality(Ids)] :
          Loads(read, object, eid)
    BY <2>p
  <2>2. read \subseteq Ids /\ Stored \subseteq Ids
    BY DEF Stored
  <2>3. nextEntry' \in 0 .. MaxEntry /\ Cardinality(Ids) \in Nat
    BY <2>p, <2>2, StoredFinite
  <2>4. \A id \in read : eid[id] \in 1 .. MaxEntry
    BY <2>1, <2>3 DEF Loads
  <2>5. entries' \subseteq Entry
    <3>1. \A id \in read : [eid |-> eid[id], owner |-> object[id]] \in Entry
      BY <1>e, <2>4
    <3>2. entries' \subseteq {[eid |-> eid[id], owner |-> object[id]] : id \in read}
      BY <2>1 DEF Loads
    <3> QED BY <3>1, <3>2
  <2>6. /\ cronEntries' \in [Ids -> 0 .. MaxEntry]
        /\ jobs' \in [Ids -> Objs \cup {"none"}] /\ fields' \in [Objs -> Fields]
    BY <2>1, <2>4 DEF Loads
  <2>7. IdleExec \in Exec
    BY DEF Exec
  <2> QED BY <2>p, <2>2, <2>3, <2>5, <2>6, <2>7
<1>13. CASE Second
  BY <1>13 DEF Second
<1>14. CASE UNCHANGED schedulerVars
  BY <1>14 DEF schedulerVars
<1> QED
  BY <1>1, <1>2, <1>3, <1>4, <1>5, <1>7, <1>8, <1>9, <1>10, <1>11, <1>12, <1>13, <1>14
     DEF SchedulerNext, Handle, Execute

-----------------------------------------------------------------------------
(* The table has a row of exactly the schedules the daemon knows, but for  *)
(* those it was refused.                                                   *)
LEMMA StoredStep ==
  ASSUME SchedulerTypeOK, StoredIffKnown, [SchedulerNext]_schedulerVars
  PROVE  StoredIffKnown'
<1> USE DEF SchedulerTypeOK
(* A step that neither brings nor takes a row or a schedule. *)
<1>a. ASSUME \A id \in Ids : rows'[id] # {} <=> rows[id] # {},
             jobs' = jobs, unstored' = unstored
      PROVE  StoredIffKnown'
  BY <1>a DEF StoredIffKnown, Known
<1>u. ASSUME NEW f, UpdateSchedule(f), jobs' = jobs
      PROVE  StoredIffKnown'
  <2>1. (\A id \in Ids : rows'[id] # {} <=> rows[id] # {}) /\ unstored' = unstored
    BY <1>u DEF UpdateSchedule
  <2> QED BY <1>a, <1>u, <2>1
(* A step that brings or takes one, its row with it if the store will.     *)
<1>w. ASSUME NEW id \in Ids,
             HasStore => \/ unstored' = unstored \cup {id} /\ rows' = rows
                         \/ /\ unstored' = unstored \ {id}
                            /\ rows'[id] # {} <=> jobs'[id] # "none"
                            /\ \A k \in Ids \ {id} : rows'[k] = rows[k],
             \A k \in Ids \ {id} : jobs'[k] = jobs[k]
      PROVE  StoredIffKnown'
  BY <1>w DEF StoredIffKnown, Known
<1>1. ASSUME NEW id \in Ids, NEW o \in Objs, NEW enabled \in BOOLEAN,
             AddScheduledJob(id, o, enabled)
      PROVE  StoredIffKnown'
  <2> DEFINE f == [id |-> id, expr |-> "cron", enabled |-> enabled, runs |-> 0]
  <2>1. jobs' = [jobs EXCEPT ![id] = o] /\ SaveSchedule(id, f)
    BY <1>1 DEF AddScheduledJob
  <2> HIDE DEF f
  <2>2. jobs'[id] # "none" /\ \A k \in Ids \ {id} : jobs'[k] = jobs[k]
    BY <2>1, NoneKnown
  <2>3. HasStore => \/ unstored' = unstored \cup {id} /\ rows' = rows
                    \/ /\ unstored' = unstored \ {id} /\ rows'[id] # {}
                       /\ \A k \in Ids \ {id} : rows'[k] = rows[k]
    BY <2>1 DEF SaveSchedule, Written, Refused
  <2> QED BY <1>w, <2>2, <2>3
<1>2. ASSUME NEW id \in Ids, RemoveScheduledJob(id) PROVE StoredIffKnown'
  <2>1. jobs' = [jobs EXCEPT ![id] = "none"] /\ DeleteSchedule(id)
    BY <1>2 DEF RemoveScheduledJob
  <2>2. jobs'[id] = "none" /\ \A k \in Ids \ {id} : jobs'[k] = jobs[k]
    BY <2>1
  <2>3. \/ unstored' = unstored \cup {id} /\ rows' = rows
        \/ /\ unstored' = unstored \ {id} /\ rows'[id] = {}
           /\ \A k \in Ids \ {id} : rows'[k] = rows[k]
    BY <2>1 DEF DeleteSchedule, Written, Refused
  <2> QED BY <1>w, <2>2, <2>3
<1>3. ASSUME NEW id \in Ids, NEW expr \in Exprs, NEW enabled \in BOOLEAN,
             UpdateScheduledJob(id, expr, enabled)
      PROVE  StoredIffKnown'
  <2>1. /\ jobs' = jobs
        /\ (\E f : UpdateSchedule(f)) \/ UNCHANGED <<rows, unstored>>
    BY <1>3 DEF UpdateScheduledJob
  <2> QED BY <1>a, <1>u, <2>1
<1>4. ASSUME NEW e \in Execs, PersistStats(e) PROVE StoredIffKnown'
  BY <1>4, <1>u DEF PersistStats
<1>5. CASE Restart
  <2>p. PICK read \in {Stored, {}} :
          /\ \E object \in [read -> Objs], eid \in [read -> 1 .. Cardinality(Ids)] :
                Loads(read, object, eid)
          /\ rows' = rows /\ unstored' = Stored \ read
    BY <1>5, RestartLoads
  <2>1. PICK object \in [read -> Objs], eid \in [read -> 1 .. Cardinality(Ids)] :
          Loads(read, object, eid)
    BY <2>p
  <2>2. \A id \in Ids : Known(id)' <=> id \in read
    BY <2>1, NoneKnown DEF Loads, Known
  <2> QED BY <2>p, <2>2 DEF StoredIffKnown, Stored
<1>6. ASSUME NEW id \in Ids, EnableScheduledJob(id) \/ DisableScheduledJob(id)
      PROVE  StoredIffKnown'
  BY <1>a, <1>6 DEF EnableScheduledJob, DisableScheduledJob, historyVars
<1>7. ASSUME \/ \E e \in Execs : \/ CronFires(e) \/ SubmitScheduled(e) \/ CountRun(e)
                                 \/ \E id \in Ids : TriggerNow(id, e)
             \/ Second \/ UNCHANGED schedulerVars
      PROVE  StoredIffKnown'
  <2>1. UNCHANGED <<rows, jobs, unstored>>
    BY <1>7 DEF CronFires, TriggerNow, Start, SubmitScheduled, CountRun, Second,
                schedulerVars, historyVars
  <2> QED BY <1>a, <2>1
<1> QED
  BY <1>1, <1>2, <1>3, <1>4, <1>5, <1>6, <1>7 DEF SchedulerNext, Handle, Execute

-----------------------------------------------------------------------------
(***************************************************************************)
(* Cron and the schedule table.                                            *)
(***************************************************************************)
CronAgrees ==
    /\ \A m, n \in entries : m.eid = n.eid => m = n
    /\ \A m, n \in entries : m.owner = n.owner /\ m.owner # "noop" => m = n
    /\ \A n \in entries :
          \/ n.owner = "noop" \/ n.eid \in leaked
          \/ \E id \in Ids : jobs[id] = n.owner
    /\ \A id \in Ids, n \in entries :
          n.owner = jobs[id] =>
              /\ fields[n.owner].id = id /\ cronEntries[id] = n.eid
              /\ fields[n.owner].enabled /\ Valid(fields[n.owner].expr)

TableAgrees == CronAgrees /\ EnabledIsScheduled /\ ObjectsPlaced /\ EidsIssued

(* An object that leaves s.jobs, or runs, changes nothing of it. *)
LEMMA TableKept ==
  ASSUME SchedulerTypeOK, TableAgrees,
         entries' = entries, cronEntries' = cronEntries, nextEntry' = nextEntry,
         leaked' = leaked,
         \A id \in Ids : jobs'[id] = jobs[id],
         \A o \in Objs : /\ fields'[o].id = fields[o].id
                         /\ fields'[o].expr = fields[o].expr
                         /\ fields'[o].enabled = fields[o].enabled
  PROVE  TableAgrees'
<1>1. \A id \in Ids : Known(id) => jobs[id] \in Objs
  BY DEF SchedulerTypeOK, Known
<1>2. \A n \in entries, id \in Ids : n.owner = jobs[id] => n.owner \in Objs
  BY NoneKnown DEF SchedulerTypeOK, Entry
<1>3. CronAgrees'
  BY <1>2 DEF TableAgrees, CronAgrees, Valid
<1>4. EnabledIsScheduled'
  BY <1>1 DEF TableAgrees, EnabledIsScheduled, Known
<1>5. ObjectsPlaced' /\ EidsIssued'
  BY <1>1 DEF TableAgrees, ObjectsPlaced, EidsIssued, Known
<1> QED BY <1>3, <1>4, <1>5 DEF TableAgrees

(* The way all handlers change the table: a schedule, known or not, gets   *)
(* an object or none, loses its entry and perhaps gets another, and an     *)
(* entry of nobody may be added. An entry of the object that is replaced   *)
(* is on the record of those left behind.                                  *)
Replaces(id, kept, new) ==
    /\ kept \subseteq entries
    /\ entries' = kept \cup new
    /\ nextEntry <= nextEntry'
    /\ \A k \in Ids \ {id} : jobs'[k] = jobs[k] /\ cronEntries'[k] = cronEntries[k]
    /\ \A o \in Objs : o # jobs'[id] => fields'[o] = fields[o]
    /\ \A n \in kept : n.owner # jobs'[id]
    /\ leaked \subseteq leaked'
    /\ \A n \in kept : n.owner = jobs[id] => n.eid \in leaked'
    /\ \A k \in Ids \ {id}, n \in entries : n.owner = jobs[k] => n \in kept
    /\ \A k \in Ids \ {id} : Known(k) => jobs[k] # jobs'[id]
    /\ Known(id)' => fields'[jobs'[id]].id = id
    /\ \A n \in new : /\ nextEntry < n.eid /\ n.eid <= nextEntry'
                      /\ n.owner \in {"noop", jobs'[id]}
                      /\ n.owner = jobs'[id] =>
                            /\ cronEntries'[id] = n.eid /\ fields'[jobs'[id]].enabled
                            /\ Valid(fields'[jobs'[id]].expr)
    /\ \A m, n \in new : m.eid = n.eid => m = n
    /\ Known(id)' /\ fields'[jobs'[id]].enabled /\ Valid(fields'[jobs'[id]].expr)
          => \E n \in new : n.owner = jobs'[id]
    /\ \/ cronEntries'[id] = cronEntries[id]
       \/ nextEntry < cronEntries'[id] /\ cronEntries'[id] <= nextEntry'

(* Such a change keeps cron and the table in agreement. *)
LEMMA TableReplaced ==
  ASSUME SchedulerTypeOK, SchedulerTypeOK', TableAgrees, NEW id \in Ids, NEW kept, NEW new,
         Replaces(id, kept, new)
  PROVE  TableAgrees'
<1> USE DEF Replaces
<1>n. /\ nextEntry \in Nat /\ nextEntry' \in Nat
      /\ \A n \in entries : n.eid \in Nat /\ n.owner \in Objs \cup {"noop"}
      /\ \A n \in entries' : n.eid \in Nat /\ n.owner \in Objs \cup {"noop"}
      /\ \A k \in Ids : cronEntries[k] \in Nat /\ cronEntries'[k] \in Nat
      /\ jobs \in [Ids -> Objs \cup {"none"}] /\ jobs' \in [Ids -> Objs \cup {"none"}]
  BY BoundsAreNumbers DEF SchedulerTypeOK, Entry
<1>o. "none" \notin Objs /\ "noop" \notin Objs /\ "none" # "noop"
  BY NoneKnown
<1>i. \A n \in entries : n.eid <= nextEntry
  BY DEF TableAgrees, EidsIssued
<1>1. \A m, n \in entries' : m.eid = n.eid => m = n
  <2> SUFFICES ASSUME NEW m \in entries', NEW n \in entries', m.eid = n.eid PROVE m = n
    OBVIOUS
  <2>1. CASE m \in kept /\ n \in kept
    BY <2>1 DEF TableAgrees, CronAgrees
  <2>2. CASE m \in new /\ n \in new
    BY <2>2
  <2>3. ASSUME NEW a \in kept, NEW b \in new PROVE a.eid # b.eid
    BY <1>n, <1>i, <2>3
  <2> QED BY <2>1, <2>2, <2>3
<1>2. \A m, n \in entries' : m.owner = n.owner /\ m.owner # "noop" => m = n
  <2> SUFFICES ASSUME NEW m \in entries', NEW n \in entries', m.owner = n.owner,
                      m.owner # "noop"
               PROVE  m = n
    OBVIOUS
  <2>1. CASE m \in kept /\ n \in kept
    BY <2>1 DEF TableAgrees, CronAgrees
  <2>2. CASE m \in new /\ n \in new
    BY <2>2
  <2>3. ASSUME NEW a \in kept, NEW b \in new, b.owner # "noop" PROVE a.owner # b.owner
    BY <2>3
  <2> QED BY <2>1, <2>2, <2>3
<1>3. \A k \in Ids, n \in entries' :
         n.owner = jobs'[k] =>
             /\ fields'[n.owner].id = k /\ cronEntries'[k] = n.eid
             /\ fields'[n.owner].enabled /\ Valid(fields'[n.owner].expr)
  <2> SUFFICES ASSUME NEW k \in Ids, NEW n \in entries', n.owner = jobs'[k]
               PROVE  /\ fields'[n.owner].id = k /\ cronEntries'[k] = n.eid
                      /\ fields'[n.owner].enabled /\ Valid(fields'[n.owner].expr)
    OBVIOUS
  <2>1. n.owner \in Objs
    BY <1>n, <1>o
  <2>2. CASE k = id
    <3>1. n \in new /\ Known(id)'
      BY <1>o, <2>1, <2>2 DEF Known
    <3> QED BY <2>2, <3>1
  <2>3. CASE k # id
    <3>1. n.owner = jobs[k] /\ Known(k)
      BY <1>o, <2>1, <2>3 DEF Known
    <3>2. n \in kept /\ n.owner # jobs'[id]
      BY <1>o, <2>1, <2>3, <3>1
    <3>3. fields'[n.owner] = fields[n.owner]
      BY <2>1, <3>2
    <3> QED BY <2>3, <3>1, <3>2, <3>3 DEF TableAgrees, CronAgrees
  <2> QED BY <2>2, <2>3
<1>7. \A n \in entries' : \/ n.owner = "noop" \/ n.eid \in leaked'
                           \/ \E k \in Ids : jobs'[k] = n.owner
  <2>1. ASSUME NEW n \in kept, n.owner # "noop", n.eid \notin leaked'
        PROVE  \E k \in Ids : jobs'[k] = n.owner
    <3>1. PICK k \in Ids : jobs[k] = n.owner
      BY <2>1 DEF TableAgrees, CronAgrees
    <3>2. k # id
      BY <2>1, <3>1
    <3> QED BY <3>1, <3>2
  <2>2. \A n \in new : n.owner = "noop" \/ n.owner = jobs'[id]
    OBVIOUS
  <2> QED BY <2>1, <2>2
<1>4. EnabledIsScheduled'
  <2> SUFFICES ASSUME NEW k \in Ids, Known(k)', fields'[jobs'[k]].enabled,
                      Valid(fields'[jobs'[k]].expr)
               PROVE  \E n \in entries' : n.owner = jobs'[k]
    BY DEF EnabledIsScheduled, Valid
  <2>1. CASE k = id
    BY <2>1
  <2>2. CASE k # id
    <3>1. jobs'[k] = jobs[k] /\ Known(k) /\ jobs[k] # jobs'[id] /\ jobs[k] \in Objs
      BY <1>n, <2>2 DEF Known
    <3>2. fields'[jobs[k]] = fields[jobs[k]]
      BY <3>1
    <3>3. PICK n \in entries : n.owner = jobs[k]
      BY <3>1, <3>2 DEF TableAgrees, EnabledIsScheduled
    <3>4. n \in kept
      BY <2>2, <3>3
    <3> QED BY <3>1, <3>3, <3>4
  <2> QED BY <2>1, <2>2
<1>5. ObjectsPlaced'
  <2>1. \A i, k \in Ids : Known(i)' /\ jobs'[i] = jobs'[k] => i = k
    <3> SUFFICES ASSUME NEW i \in Ids, NEW k \in Ids, Known(i)', jobs'[i] = jobs'[k], i # k
                 PROVE  FALSE
      OBVIOUS
    <3>1. CASE i # id /\ k # id
      BY <3>1 DEF TableAgrees, ObjectsPlaced, Known
    <3>2. CASE i = id
      BY <3>2 DEF Known
    <3>3. CASE k = id
      BY <3>3 DEF Known
    <3> QED BY <3>1, <3>2, <3>3
  <2>2. \A k \in Ids : Known(k)' => fields'[jobs'[k]].id = k
    <3> SUFFICES ASSUME NEW k \in Ids, Known(k)', k # id
                 PROVE  fields'[jobs'[k]].id = k
      OBVIOUS
    <3>1. jobs'[k] = jobs[k] /\ Known(k) /\ jobs[k] # jobs'[id] /\ jobs[k] \in Objs
      BY <1>n DEF Known
    <3> QED BY <3>1 DEF TableAgrees, ObjectsPlaced
  <2> QED BY <2>1, <2>2 DEF ObjectsPlaced
<1>6. EidsIssued'
  <2>1. \A n \in entries' : n.eid <= nextEntry'
    <3>1. \A n \in kept : n.eid <= nextEntry'
      BY <1>n, <1>i
    <3> QED BY <3>1
  <2>2. \A k \in Ids : cronEntries[k] <= nextEntry
    BY DEF TableAgrees, EidsIssued
  <2>3. \A k \in Ids : cronEntries'[k] <= nextEntry'
    BY <1>n, <2>2
  <2>4. ASSUME NEW i \in Ids, NEW k \in Ids, cronEntries'[i] # 0,
               cronEntries'[i] = cronEntries'[k], i # k
        PROVE  FALSE
    <3>1. CASE \A j \in Ids : cronEntries'[j] = cronEntries[j]
      BY <2>4, <3>1 DEF TableAgrees, EidsIssued
    <3>2. CASE nextEntry < cronEntries'[id]
      <4>1. \A j \in Ids \ {id} : cronEntries'[j] # cronEntries'[id]
        BY <1>n, <2>2, <3>2
      <4>2. i # id /\ k # id
        BY <2>4, <4>1
      <4> QED BY <2>4, <4>2 DEF TableAgrees, EidsIssued
    <3> QED BY <3>1, <3>2
  <2> QED BY <2>1, <2>3, <2>4 DEF EidsIssued
<1> QED
  BY <1>1, <1>2, <1>3, <1>4, <1>5, <1>6, <1>7 DEF TableAgrees, CronAgrees, Valid

(* cron.Remove of the entry of a known schedule leaves it none, and the    *)
(* others theirs.                                                          *)
LEMMA EntryRemoved ==
  ASSUME SchedulerTypeOK, TableAgrees, NEW id \in Ids, Known(id),
         NEW kept, kept = IF fields[jobs[id]].enabled THEN EntriesWithout(id) ELSE entries
  PROVE  /\ kept \subseteq entries
         /\ \A n \in kept : n.owner # jobs[id]
         /\ \A k \in Ids \ {id}, n \in entries : n.owner = jobs[k] => n \in kept
<1>1. kept \subseteq entries
  BY DEF EntriesWithout
<1>2. ASSUME NEW n \in kept, n.owner = jobs[id] PROVE FALSE
  <2>1. fields[jobs[id]].enabled /\ cronEntries[id] = n.eid
    BY <1>1, <1>2 DEF TableAgrees, CronAgrees
  <2> QED BY <2>1 DEF EntriesWithout
<1>3. ASSUME NEW k \in Ids \ {id}, NEW n \in entries, n.owner = jobs[k] PROVE n \in kept
  <2>1. cronEntries[k] = n.eid /\ n.eid # 0
    BY <1>3 DEF TableAgrees, CronAgrees, SchedulerTypeOK, Entry
  <2>2. cronEntries[id] # n.eid
    BY <2>1 DEF TableAgrees, EidsIssued
  <2> QED BY <2>2 DEF EntriesWithout
<1> QED BY <1>1, <1>2, <1>3

(* A closure of a new entry owns an object no other schedule holds. *)
LEMMA HeldOnce ==
  ASSUME TableAgrees, NEW id \in Ids, Known(id)
  PROVE  \A k \in Ids \ {id} : jobs[k] # jobs[id]
BY DEF TableAgrees, ObjectsPlaced

(***************************************************************************)
(* Each handler changes the table as TableReplaced allows.                 *)
(***************************************************************************)
LEMMA AddKeepsTable ==
  ASSUME SchedulerTypeOK, SchedulerTypeOK', TableAgrees,
         NEW id \in Ids, NEW o \in Objs, NEW enabled \in BOOLEAN, AddScheduledJob(id, o, enabled)
  PROVE  TableAgrees'
<1> DEFINE noop == [eid |-> nextEntry + 1, owner |-> "noop"]
           real == [eid |-> nextEntry + 2, owner |-> o]
           new  == IF enabled THEN {noop, real} ELSE {noop}
<1>n. nextEntry \in Nat
  BY BoundsAreNumbers DEF SchedulerTypeOK
<1>1. /\ jobs' = [jobs EXCEPT ![id] = o]
      /\ fields' = [fields EXCEPT ![o] = [id |-> id, expr |-> "cron", enabled |-> enabled, runs |-> 0]]
      /\ Fresh(o)
      /\ entries' = entries \cup new
  BY DEF AddScheduledJob
<1>2. \/ enabled /\ nextEntry' = nextEntry + 2
                 /\ cronEntries' = [cronEntries EXCEPT ![id] = nextEntry + 2]
      \/ ~enabled /\ nextEntry' = nextEntry + 1 /\ cronEntries' = cronEntries
  BY DEF AddScheduledJob
<1>3. /\ jobs'[id] = o /\ fields'[o].id = id /\ fields'[o].enabled = enabled
      /\ \A k \in Ids \ {id} : jobs'[k] = jobs[k] /\ cronEntries'[k] = cronEntries[k]
      /\ \A p \in Objs : p # o => fields'[p] = fields[p]
  BY <1>1, <1>2 DEF SchedulerTypeOK
<1>4. \A k \in Ids : jobs[k] # o
  BY <1>1 DEF Fresh
<1>5. \A n \in entries : n.owner # o
  BY <1>1 DEF Fresh
<1>6. \A n \in new : /\ nextEntry < n.eid /\ n.eid <= nextEntry'
                     /\ n.owner \in {"noop", o}
                     /\ n.owner = o => enabled /\ cronEntries'[id] = n.eid
  BY <1>n, <1>2, NoneKnown DEF SchedulerTypeOK
<1>l. /\ leaked \subseteq leaked'
      /\ \A n \in entries : n.owner = jobs[id] => n.eid \in leaked'
  BY DEF AddScheduledJob
<1>v. Valid(fields'[o].expr)
  BY <1>1 DEF SchedulerTypeOK, Valid
<1>7. \A m, n \in new : m.eid = n.eid => m = n
  BY <1>n
<1>8. enabled => \E n \in new : n.owner = o
  OBVIOUS
<1>9. cronEntries'[id] = cronEntries[id]
         \/ (nextEntry < cronEntries'[id] /\ cronEntries'[id] <= nextEntry')
  BY <1>n, <1>2 DEF SchedulerTypeOK
<1>10. nextEntry <= nextEntry'
  BY <1>n, <1>2
<1> HIDE DEF new
<1>11. Replaces(id, entries, new)
  BY <1>1, <1>3, <1>4, <1>5, <1>6, <1>7, <1>8, <1>9, <1>10, <1>l, <1>v DEF Replaces
<1> QED BY <1>11, TableReplaced

(* RemoveScheduledJob takes the entry out and the object with it. *)
LEMMA RemoveKeepsTable ==
  ASSUME SchedulerTypeOK, SchedulerTypeOK', TableAgrees,
         NEW id \in Ids, RemoveScheduledJob(id)
  PROVE  TableAgrees'
<1> DEFINE kept == IF fields[jobs[id]].enabled THEN EntriesWithout(id) ELSE entries
<1>n. nextEntry \in Nat
  BY BoundsAreNumbers DEF SchedulerTypeOK
<1>1. /\ Known(id) /\ entries' = kept /\ jobs' = [jobs EXCEPT ![id] = "none"]
      /\ UNCHANGED <<fields, cronEntries, nextEntry, leaked>>
  BY DEF RemoveScheduledJob
<1>2. /\ kept \subseteq entries /\ \A n \in kept : n.owner # jobs[id]
      /\ \A k \in Ids \ {id}, n \in entries : n.owner = jobs[k] => n \in kept
  BY <1>1, EntryRemoved
<1> HIDE DEF kept
<1>3. jobs'[id] = "none" /\ \A k \in Ids \ {id} : jobs'[k] = jobs[k]
  BY <1>1 DEF SchedulerTypeOK
<1>4. \A n \in kept : n.owner # "none"
  BY <1>2, NoneKnown DEF SchedulerTypeOK, Entry
<1>5. \A k \in Ids \ {id} : Known(k) => jobs[k] # "none"
  BY DEF Known
<1>6. ~Known(id)'
  BY <1>3 DEF Known
<1>7. entries' = kept \cup {}
  BY <1>1
<1>8. Replaces(id, kept, {})
  BY <1>n, <1>1, <1>2, <1>3, <1>4, <1>5, <1>6, <1>7 DEF Replaces
<1> QED BY <1>8, TableReplaced

(* UpdateScheduledJob replaces the entry by one of the new expression. *)
LEMMA UpdateKeepsTable ==
  ASSUME SchedulerTypeOK, SchedulerTypeOK', TableAgrees,
         NEW id \in Ids, NEW expr \in Exprs, NEW enabled \in BOOLEAN,
         UpdateScheduledJob(id, expr, enabled)
  PROVE  TableAgrees'
<1> DEFINE o    == jobs[id]
           kept == IF fields[o].enabled THEN EntriesWithout(id) ELSE entries
           real == [eid |-> nextEntry + 1, owner |-> o]
           new  == IF enabled /\ Valid(expr) THEN {real} ELSE {}
<1>n. nextEntry \in Nat
  BY BoundsAreNumbers DEF SchedulerTypeOK
<1>1. /\ Known(id) /\ jobs' = jobs /\ entries' = kept \cup new /\ leaked' = leaked
      /\ fields' = [fields EXCEPT ![o] = [fields[o] EXCEPT !.expr = expr, !.enabled = enabled]]
  BY DEF UpdateScheduledJob, AddEntry
<1>2. \/ enabled /\ Valid(expr) /\ nextEntry' = nextEntry + 1
         /\ cronEntries' = [cronEntries EXCEPT ![id] = nextEntry + 1]
      \/ ~(enabled /\ Valid(expr)) /\ nextEntry' = nextEntry /\ cronEntries' = cronEntries
  BY DEF UpdateScheduledJob, AddEntry
<1>3. /\ kept \subseteq entries /\ \A n \in kept : n.owner # o
      /\ \A k \in Ids \ {id}, n \in entries : n.owner = jobs[k] => n \in kept
  BY <1>1, EntryRemoved
<1> HIDE DEF kept
<1>4. o \in Objs /\ o # "noop" /\ fields[o] \in Fields
  BY <1>1, NoneKnown DEF SchedulerTypeOK, Known
<1>5. /\ fields'[o].id = fields[o].id /\ fields'[o].enabled = enabled
      /\ fields'[o].expr = expr
      /\ \A p \in Objs : p # o => fields'[p] = fields[p]
      /\ \A k \in Ids \ {id} : jobs'[k] = jobs[k] /\ cronEntries'[k] = cronEntries[k]
  BY <1>1, <1>2, <1>4 DEF SchedulerTypeOK, Fields
<1>6. fields[o].id = id
  BY <1>1 DEF TableAgrees, ObjectsPlaced
<1>7. \A k \in Ids \ {id} : jobs[k] # o
  BY <1>1, HeldOnce
<1>8. \A n \in new : /\ nextEntry < n.eid /\ n.eid <= nextEntry'
                     /\ n.owner \in {"noop", o}
                     /\ n.owner = o => enabled /\ Valid(expr) /\ cronEntries'[id] = n.eid
  BY <1>n, <1>2 DEF SchedulerTypeOK
<1>9. /\ \A m, n \in new : m.eid = n.eid => m = n
      /\ enabled /\ Valid(expr) => \E n \in new : n.owner = o
  OBVIOUS
<1>10. cronEntries'[id] = cronEntries[id]
         \/ (nextEntry < cronEntries'[id] /\ cronEntries'[id] <= nextEntry')
  BY <1>n, <1>2 DEF SchedulerTypeOK
<1>11. nextEntry <= nextEntry' /\ jobs'[id] = o
  BY <1>n, <1>1, <1>2
<1> HIDE DEF new, o
<1>12. Replaces(id, kept, new)
  BY <1>1, <1>3, <1>5, <1>6, <1>7, <1>8, <1>9, <1>10, <1>11 DEF Replaces
<1> QED BY <1>12, TableReplaced

(* EnableScheduledJob adds the entry that the object had not. *)
LEMMA EnableKeepsTable ==
  ASSUME SchedulerTypeOK, SchedulerTypeOK', TableAgrees,
         NEW id \in Ids, EnableScheduledJob(id)
  PROVE  TableAgrees'
<1> DEFINE o    == jobs[id]
           real == [eid |-> nextEntry + 1, owner |-> o]
           new  == {real}
<1>n. nextEntry \in Nat
  BY BoundsAreNumbers DEF SchedulerTypeOK
<1>1. /\ Known(id) /\ jobs' = jobs /\ entries' = entries \cup new /\ ~fields[o].enabled
      /\ leaked' = leaked /\ Valid(fields[o].expr)
      /\ fields' = [fields EXCEPT ![o].enabled = TRUE]
      /\ nextEntry' = nextEntry + 1
      /\ cronEntries' = [cronEntries EXCEPT ![id] = nextEntry + 1]
  BY DEF EnableScheduledJob, AddEntry, historyVars
<1>2. \A n \in entries : n.owner # o
  BY <1>1, EntryRemoved
<1>4. o \in Objs /\ o # "noop" /\ fields[o] \in Fields
  BY <1>1, NoneKnown DEF SchedulerTypeOK, Known
<1>5. /\ fields'[o].id = fields[o].id /\ fields'[o].enabled /\ fields'[o].expr = fields[o].expr
      /\ \A p \in Objs : p # o => fields'[p] = fields[p]
      /\ \A k \in Ids \ {id} : jobs'[k] = jobs[k] /\ cronEntries'[k] = cronEntries[k]
  BY <1>1, <1>4 DEF SchedulerTypeOK, Fields
<1>6. fields[o].id = id
  BY <1>1 DEF TableAgrees, ObjectsPlaced
<1>7. \A k \in Ids \ {id} : jobs[k] # o
  BY <1>1, HeldOnce
<1>8. /\ cronEntries'[id] = nextEntry + 1 /\ nextEntry < nextEntry + 1
      /\ nextEntry' = nextEntry + 1 /\ nextEntry <= nextEntry' /\ nextEntry + 1 <= nextEntry'
      /\ jobs'[id] = o
  BY <1>n, <1>1 DEF SchedulerTypeOK
<1>9. \A n \in new : n.eid = nextEntry + 1 /\ n.owner = o
  OBVIOUS
<1>10. (\A m, n \in new : m.eid = n.eid => m = n) /\ \E n \in new : n.owner = o
  OBVIOUS
<1> HIDE DEF new, o
<1>11. Replaces(id, entries, new)
  BY <1>1, <1>2, <1>5, <1>6, <1>7, <1>8, <1>9, <1>10 DEF Replaces
<1> QED BY <1>11, TableReplaced

(* DisableScheduledJob takes the entry out and keeps the object. *)
LEMMA DisableKeepsTable ==
  ASSUME SchedulerTypeOK, SchedulerTypeOK', TableAgrees,
         NEW id \in Ids, DisableScheduledJob(id)
  PROVE  TableAgrees'
<1> DEFINE o == jobs[id]
           kept == EntriesWithout(id)
<1>n. nextEntry \in Nat
  BY BoundsAreNumbers DEF SchedulerTypeOK
<1>1. /\ Known(id) /\ jobs' = jobs /\ entries' = kept /\ fields[o].enabled
      /\ fields' = [fields EXCEPT ![o].enabled = FALSE]
      /\ nextEntry' = nextEntry /\ cronEntries' = cronEntries /\ leaked' = leaked
  BY DEF DisableScheduledJob, historyVars
<1>2. /\ kept \subseteq entries /\ \A n \in kept : n.owner # o
      /\ \A k \in Ids \ {id}, n \in entries : n.owner = jobs[k] => n \in kept
  BY <1>1, EntryRemoved
<1>3. o \in Objs /\ fields[o] \in Fields
  BY <1>1 DEF SchedulerTypeOK, Known
<1>4. /\ fields'[o].id = fields[o].id /\ ~fields'[o].enabled
      /\ \A p \in Objs : p # o => fields'[p] = fields[p]
  BY <1>1, <1>3 DEF SchedulerTypeOK, Fields
<1>5. fields[o].id = id
  BY <1>1 DEF TableAgrees, ObjectsPlaced
<1>6. \A k \in Ids \ {id} : jobs[k] # o
  BY <1>1, HeldOnce
<1>7. jobs'[id] = o /\ entries' = kept \cup {} /\ nextEntry <= nextEntry'
  BY <1>n, <1>1
<1> HIDE DEF kept, o
<1>8. Replaces(id, kept, {})
  BY <1>1, <1>2, <1>4, <1>5, <1>6, <1>7 DEF Replaces
<1> QED BY <1>8, TableReplaced

(* What LoadSchedules builds agrees whatever there was before the restart. *)
LEMMA RestartMakesTable ==
  ASSUME SchedulerTypeOK, SchedulerTypeOK', Restart
  PROVE  TableAgrees'
<1> DEFINE loaded(id) == CHOOSE r \in rows[id] : TRUE
           load(id)   == [id |-> id, expr |-> loaded(id).expr,
                          enabled |-> loaded(id).enabled, runs |-> loaded(id).runs]
<1>p. PICK read \in {Stored, {}} :
        /\ \E object \in [read -> Objs], eid \in [read -> 1 .. Cardinality(Ids)] :
              Loads(read, object, eid)
        /\ nextEntry' = Cardinality(read)
  BY RestartLoads
<1> DEFINE ToRun == {id \in read : Schedulable(load(id))}
<1>1. PICK object \in [read -> Objs], eid \in [read -> 1 .. Cardinality(Ids)] :
        Loads(read, object, eid)
  BY <1>p
<1>2. /\ \A i, k \in read : i # k => object[i] # object[k] /\ eid[i] # eid[k]
      /\ \A id \in read : eid[id] <= nextEntry'
      /\ jobs' = [id \in Ids |-> IF id \in read THEN object[id] ELSE "none"]
      /\ \A id \in read : fields'[object[id]] = load(id)
      /\ entries' = {[eid |-> eid[id], owner |-> object[id]] : id \in ToRun}
      /\ cronEntries' = [id \in Ids |-> IF id \in ToRun THEN eid[id] ELSE 0]
  BY <1>1 DEF Loads
<1>d. /\ \A id \in read : load(id).id = id
      /\ \A id : id \in ToRun <=> id \in read /\ load(id).enabled /\ Valid(load(id).expr)
  BY DEF Schedulable
<1>s. read \subseteq Ids
  BY DEF Stored
<1> HIDE DEF ToRun, load
<1>3. /\ \A id \in read : fields'[object[id]].id = id
      /\ \A id \in ToRun : fields'[object[id]].enabled /\ Valid(fields'[object[id]].expr)
      /\ \A id \in read :
            fields'[object[id]].enabled /\ Valid(fields'[object[id]].expr) => id \in ToRun
      /\ ToRun \subseteq read /\ read \subseteq Ids
  BY <1>2, <1>d, <1>s
<1>n. /\ \A id \in read : eid[id] \in Nat /\ eid[id] # 0 /\ object[id] \in Objs
      /\ \A id \in Ids : jobs'[id] = IF id \in read THEN object[id] ELSE "none"
      /\ "none" \notin Objs /\ nextEntry' \in Nat
  BY <1>2, <1>s, NoneKnown, StoredFinite, BoundsAreNumbers DEF SchedulerTypeOK
<1>k. \A id \in Ids : Known(id)' <=> id \in read
  BY <1>n DEF Known
<1>e. \A n \in entries' : \E id \in ToRun : n = [eid |-> eid[id], owner |-> object[id]]
  BY <1>2
<1>4. \A m, n \in entries' : m.eid = n.eid \/ m.owner = n.owner => m = n
  <2> SUFFICES ASSUME NEW m \in entries', NEW n \in entries',
                      m.eid = n.eid \/ m.owner = n.owner
               PROVE  m = n
    OBVIOUS
  <2>1. PICK i \in ToRun : m = [eid |-> eid[i], owner |-> object[i]]
    BY <1>e
  <2>2. PICK k \in ToRun : n = [eid |-> eid[k], owner |-> object[k]]
    BY <1>e
  <2>3. m.eid = eid[i] /\ n.eid = eid[k] /\ m.owner = object[i] /\ n.owner = object[k]
    BY <2>1, <2>2
  <2>4. i = k
    BY <1>2, <1>3, <2>3
  <2> QED BY <2>1, <2>2, <2>4
<1>5. ASSUME NEW id \in Ids, NEW n \in entries', n.owner = jobs'[id]
      PROVE  /\ fields'[n.owner].id = id /\ cronEntries'[id] = n.eid
             /\ fields'[n.owner].enabled /\ Valid(fields'[n.owner].expr)
  <2>1. PICK k \in ToRun : n = [eid |-> eid[k], owner |-> object[k]]
    BY <1>e
  <2>2. n.eid = eid[k] /\ n.owner = object[k] /\ k \in read
    BY <1>3, <2>1
  <2>3. id \in read
    BY <1>n, <1>5, <2>2
  <2>4. id = k
    BY <1>2, <1>n, <1>5, <2>2, <2>3
  <2> QED BY <1>2, <1>3, <2>2, <2>4
<1>o. \A n \in entries' : \E id \in Ids : jobs'[id] = n.owner
  BY <1>e, <1>n, <1>3
<1>6. CronAgrees'
  BY <1>4, <1>5, <1>o DEF CronAgrees, Valid
<1>7. EnabledIsScheduled'
  <2> SUFFICES ASSUME NEW id \in Ids, Known(id)', fields'[jobs'[id]].enabled,
                      Valid(fields'[jobs'[id]].expr)
               PROVE  \E n \in entries' : n.owner = jobs'[id]
    BY DEF EnabledIsScheduled, Valid
  <2>1. id \in ToRun /\ jobs'[id] = object[id]
    BY <1>3, <1>k, <1>n
  <2>2. [eid |-> eid[id], owner |-> object[id]] \in entries'
    BY <1>2, <2>1
  <2> QED BY <2>1, <2>2
<1>8. ObjectsPlaced'
  BY <1>2, <1>3, <1>k, <1>n DEF ObjectsPlaced
<1>9. EidsIssued'
  <2>1. \A id \in Ids : cronEntries'[id] = IF id \in ToRun THEN eid[id] ELSE 0
    BY <1>2
  <2>2. \A n \in entries' : n.eid <= nextEntry'
    BY <1>2, <1>3, <1>e
  <2>3. \A id \in Ids : cronEntries'[id] <= nextEntry'
    BY <1>2, <1>3, <1>n, <2>1
  <2>4. \A i, k \in Ids : cronEntries'[i] # 0 /\ cronEntries'[i] = cronEntries'[k] => i = k
    BY <1>2, <1>3, <2>1
  <2> QED BY <2>2, <2>3, <2>4 DEF EidsIssued
<1> QED BY <1>6, <1>7, <1>8, <1>9 DEF TableAgrees

(* Every step keeps cron and the table in agreement. *)
LEMMA TableStep ==
  ASSUME SchedulerTypeOK, SchedulerTypeOK', TableAgrees, [SchedulerNext]_schedulerVars
  PROVE  TableAgrees'
<1>1. ASSUME NEW e \in Execs, NEW o, Start(e, o) PROVE TableAgrees'
  BY <1>1, TableKept DEF Start, historyVars
<1>2. ASSUME NEW e \in Execs, SubmitScheduled(e) \/ PersistStats(e) PROVE TableAgrees'
  BY <1>2, TableKept DEF SubmitScheduled, PersistStats, historyVars
<1>3. ASSUME NEW e \in Execs, CountRun(e) PROVE TableAgrees'
  <2>1. exec[e].obj \in Objs
    BY <1>3 DEF CountRun, SchedulerTypeOK, Exec, IdleExec
  <2>2. \A o \in Objs : /\ fields'[o].id = fields[o].id /\ fields'[o].expr = fields[o].expr
                        /\ fields'[o].enabled = fields[o].enabled
    BY <1>3, <2>1 DEF CountRun, SchedulerTypeOK, Fields
  <2> QED BY <1>3, <2>2, TableKept DEF CountRun, historyVars
<1>4. CASE Second \/ UNCHANGED schedulerVars
  BY <1>4, TableKept DEF Second, schedulerVars, historyVars
<1>5. CASE Restart
  BY <1>5, RestartMakesTable
<1>6. ASSUME NEW id \in Ids, Handle(id) PROVE TableAgrees'
  BY <1>1, <1>6, AddKeepsTable, RemoveKeepsTable, UpdateKeepsTable, EnableKeepsTable,
     DisableKeepsTable DEF Handle, TriggerNow
<1>7. ASSUME NEW e \in Execs, Execute(e) PROVE TableAgrees'
  BY <1>1, <1>2, <1>3, <1>7 DEF Execute, CronFires
<1> QED BY <1>4, <1>5, <1>6, <1>7 DEF SchedulerNext

(* A scheduler starts with an empty table, an empty cron and an empty store. *)
LEMMA SchedulerInvInit == SchedulerInit => SchedulerInv
<1> SUFFICES ASSUME SchedulerInit PROVE SchedulerInv
  OBVIOUS
<1> USE BoundsAreNumbers DEF SchedulerInit
<1>1. SchedulerTypeOK
  <2>1. [id |-> CHOOSE id \in Ids : TRUE, expr |-> "cron", enabled |-> FALSE, runs |-> 0] \in Fields
    BY IdentitiesFinite DEF Fields, Exprs
  <2>2. \A o \in Objs : fields[o] \in Fields
    BY <2>1
  <2>3. IdleExec \in Exec
    BY DEF Exec
  <2> QED BY <2>2, <2>3 DEF SchedulerTypeOK
<1>2. CronAgrees /\ EnabledIsScheduled /\ ObjectsPlaced /\ EidsIssued /\ StoredIffKnown
  BY DEF CronAgrees, EnabledIsScheduled, ObjectsPlaced, EidsIssued, StoredIffKnown, Known
<1> QED BY <1>1, <1>2 DEF SchedulerInv, EntriesOwned, CronAgrees

(* The inductive invariant of the scheduler holds in every reachable state. *)
LEMMA SchedulerInvAlways == SchedulerSpec => []SchedulerInv
<1>1. SchedulerInv /\ [SchedulerNext]_schedulerVars => SchedulerInv'
  <2> SUFFICES ASSUME SchedulerInv, [SchedulerNext]_schedulerVars PROVE SchedulerInv'
    OBVIOUS
  <2>1. SchedulerTypeOK /\ TableAgrees /\ StoredIffKnown
    BY DEF SchedulerInv, EntriesOwned, TableAgrees, CronAgrees
  <2>2. SchedulerTypeOK'
    BY <2>1, SchedulerTypeStep
  <2>3. TableAgrees'
    BY <2>1, <2>2, TableStep
  <2>4. StoredIffKnown'
    BY <2>1, StoredStep
  <2> QED BY <2>2, <2>3, <2>4 DEF SchedulerInv, EntriesOwned, TableAgrees, CronAgrees
<1> QED BY <1>1, SchedulerInvInit, PTL DEF SchedulerSpec

(* An object has at most one cron entry. Every entry is empty, or the one  *)
(* an ID added twice left behind, or that of a schedule s.jobs holds, is   *)
(* enabled and has an expression cron can run; and s.cronEntries names the *)
(* last, so that the handlers can take it out. No handler, failed update   *)
(* or restart makes cron run anything else.                                *)
THEOREM OwnedSafe == SchedulerSpec => []EntriesOwned
BY SchedulerInvAlways, PTL DEF SchedulerInv

(* Any call of the store may fail. The table has a row of exactly the      *)
(* schedules the daemon knows, but for those whose own last save, delete   *)
(* or load it refused, whatever statistics are written late and whenever   *)
(* the daemon dies.                                                        *)
THEOREM StoredSafe == SchedulerSpec => []StoredIffKnown
BY SchedulerInvAlways, PTL DEF SchedulerInv

(* An enabled schedule with a well-formed expression always has an entry   *)
(* in cron.                                                                *)
THEOREM ScheduledSafe == SchedulerSpec => []EnabledIsScheduled
BY SchedulerInvAlways, PTL DEF SchedulerInv

-----------------------------------------------------------------------------
(* The dependency tracker. *)

SatSeen == \A r \in Waiters : Satisfied(r) => r \in sat

SignalledSat == signalled \subseteq sat

(* What every step keeps. *)
TrackerInv ==
    /\ TypeOK /\ SatSeen /\ SignalledSat /\ RunsOnlyAfter
    /\ MissesOnlyEarlier /\ RegisteredOrRobbed /\ LeftOnlyByTick

-----------------------------------------------------------------------------
(* The constants' assumptions in the form the steps use. *)
LEMMA Constants ==
    /\ \A r \in Runs : JobOf[r] \in Jobs /\ NeedsOf(r) \subseteq Deps
    /\ \A r \in Runs : \A d \in NeedsOf(r) : DependsOn[JobOf[r]][d] \in Required
    /\ "none" \notin Reports
BY RunsHaveJobs, JobsDepend, SomeReports DEF NeedsOf

(* No requirement holds of a dependency the tracker knows nothing of, and  *)
(* so Age and ClearOldState never meet the dependencies of a run.          *)
LEMMA OnlyTellingMeets ==
    ASSUME NEW r \in Runs, NEW d \in Deps, state \in [Deps -> States],
           \/ state' = state /\ old' = old \cup {d}
           \/ state' = [state EXCEPT ![d] = "none"] /\ old' = old \ {d}
    PROVE  Met(r, state', old') => Satisfied(r)
<1>1. SUFFICES ASSUME Met(r, state', old') PROVE Satisfied(r)
  OBVIOUS
<1>2. CASE state' = state /\ old' = old \cup {d}
  BY <1>1, <1>2 DEF Met, Satisfied
<1>3. CASE state' = [state EXCEPT ![d] = "none"] /\ old' = old \ {d}
  <2>1. d \notin NeedsOf(r)
    <3> SUFFICES ASSUME d \in NeedsOf(r) PROVE FALSE
      OBVIOUS
    <3>1. InState(DependsOn[JobOf[r]][d], "none")
      BY <1>1, <1>3 DEF Met
    <3>2. DependsOn[JobOf[r]][d] \in Required BY Constants
    <3> QED BY <3>1, <3>2 DEF InState, Required
  <2>2. \A x \in NeedsOf(r) : state'[x] = state[x] /\ (x \in old => x \in old')
    BY <2>1, <1>3, Constants
  <2> QED BY <1>1, <2>2 DEF Met, Satisfied
<1> QED BY <1>2, <1>3

(* The initial state satisfies the invariant: no run waits. *)
LEMMA TrackerInvInit == Init => TrackerInv
BY DEF Init, TrackerInv, TypeOK, States, SatSeen, SignalledSat, RunsOnlyAfter, Waiters,
       MissesOnlyEarlier, RegisteredOrRobbed, LeftOnlyByTick

(* Type correctness is inductive by itself. *)
LEMMA StepType == TypeOK /\ [Next]_vars => TypeOK'
<1> SUFFICES ASSUME TypeOK, [Next]_vars PROVE TypeOK'
  OBVIOUS
<1> USE DEF TypeOK
<1>1. ASSUME NEW r \in Runs, Register(r) PROVE TypeOK'
  BY <1>1 DEF Register
<1>2. ASSUME NEW r \in Runs, Finish(r) PROVE TypeOK'
  <2>1. ASSUME NEW res \in {"nil", "cancelled", "timeout"}, Leave(r, res) PROVE TypeOK'
    BY <2>1 DEF Leave, Forget
  <2>2. CASE TickSatisfied(r) BY <2>2 DEF TickSatisfied, Forget
  <2> QED BY <1>2, <2>1, <2>2 DEF Finish, SeesCancel, SeesSignal, TickTimeout
<1>3. ASSUME NEW r \in Runs, Remove(r) PROVE TypeOK'
  BY <1>3 DEF Remove
<1>4. ASSUME NEW r \in Runs, Cancel(r) \/ WaitGrows(r) PROVE TypeOK'
  BY <1>4 DEF Cancel, WaitGrows, run
<1>5. ASSUME NEW d \in Deps, NEW s \in Reports, UpdateJobState(d, s) PROVE TypeOK'
  BY <1>5 DEF UpdateJobState, Told, run, States, Waiters
<1>6. ASSUME NEW d \in Deps, Age(d) \/ ClearOldState(d) PROVE TypeOK'
  BY <1>6 DEF Age, ClearOldState, run, States
<1>7. CASE UNCHANGED vars BY <1>7 DEF vars
<1> QED BY <1>1, <1>2, <1>3, <1>4, <1>5, <1>6, <1>7 DEF Next

(* Every step preserves what a run has seen and been told. *)
LEMMA StepSeen ==
    TrackerInv /\ [Next]_vars => SatSeen' /\ SignalledSat' /\ RunsOnlyAfter'
<1> SUFFICES ASSUME TrackerInv, [Next]_vars
             PROVE  SatSeen' /\ SignalledSat' /\ RunsOnlyAfter'
  OBVIOUS
<1> USE DEF TrackerInv, TypeOK, SatSeen, SignalledSat, RunsOnlyAfter, Waiters
<1>1. ASSUME NEW r \in Runs, Register(r)
      PROVE  SatSeen' /\ SignalledSat' /\ RunsOnlyAfter'
  BY <1>1 DEF Register, Satisfied
<1>2. ASSUME NEW r \in Runs, Finish(r)
      PROVE  SatSeen' /\ SignalledSat' /\ RunsOnlyAfter'
  <2>1. CASE SeesCancel(r) BY <2>1 DEF SeesCancel, Leave, Forget, Satisfied
  <2>2. CASE SeesSignal(r) BY <2>2 DEF SeesSignal, Leave, Forget, Satisfied
  <2>3. CASE TickSatisfied(r) BY <2>3 DEF TickSatisfied, Forget, Satisfied
  <2>4. CASE TickTimeout(r) BY <2>4 DEF TickTimeout, Leave, Forget, Satisfied
  <2> QED BY <1>2, <2>1, <2>2, <2>3, <2>4 DEF Finish
<1>3. ASSUME NEW r \in Runs, Remove(r)
      PROVE  SatSeen' /\ SignalledSat' /\ RunsOnlyAfter'
  BY <1>3 DEF Remove, Satisfied
<1>4. ASSUME NEW r \in Runs, Cancel(r) \/ WaitGrows(r)
      PROVE  SatSeen' /\ SignalledSat' /\ RunsOnlyAfter'
  BY <1>4 DEF Cancel, WaitGrows, run, Satisfied
<1>5. ASSUME NEW d \in Deps, NEW s \in Reports, UpdateJobState(d, s)
      PROVE  SatSeen' /\ SignalledSat' /\ RunsOnlyAfter'
  BY <1>5 DEF UpdateJobState, Told, run, Satisfied
<1>6. ASSUME NEW d \in Deps, Age(d) \/ ClearOldState(d)
      PROVE  SatSeen' /\ SignalledSat' /\ RunsOnlyAfter'
  <2>1. UNCHANGED <<run, ctx, signalled, sat>> BY <1>6 DEF Age, ClearOldState
  <2>2. \A r \in Runs : Satisfied(r)' => Satisfied(r)
    BY <1>6, OnlyTellingMeets DEF Age, ClearOldState, Satisfied
  <2> QED BY <2>1, <2>2 DEF run
<1>7. CASE UNCHANGED vars BY <1>7 DEF vars, Satisfied
<1> QED BY <1>1, <1>2, <1>3, <1>4, <1>5, <1>6, <1>7 DEF Next

(* A registered run misses no update. *)
LEMMA StepMisses == TrackerInv /\ [Next]_vars => MissesOnlyEarlier'
<1> SUFFICES ASSUME TrackerInv, [Next]_vars PROVE MissesOnlyEarlier'
  OBVIOUS
<1> USE DEF TrackerInv, TypeOK, MissesOnlyEarlier, Waiters
<1>1. ASSUME NEW r \in Runs, Register(r) PROVE MissesOnlyEarlier'
  <2>1. /\ pc' = [pc EXCEPT ![r] = "waiting"] /\ early \subseteq early'
        /\ UNCHANGED <<state, old, signalled>>
        /\ Satisfied(r) => r \in early'
    BY <1>1 DEF Register
  <2>2. \A x \in Runs \ {r} : Registered(x)' => Registered(x)
    BY <1>1, Constants DEF Register, Registered
  <2> QED BY <2>1, <2>2 DEF Satisfied
<1>2. ASSUME NEW r \in Runs, Finish(r) PROVE MissesOnlyEarlier'
  <2>1. /\ UNCHANGED <<state, old, waiting>> /\ Forget(r) /\ pc[r] = "waiting"
        /\ \E p \in {"leaving", "done"} : pc' = [pc EXCEPT ![r] = p]
    BY <1>2 DEF Finish, SeesCancel, SeesSignal, TickSatisfied, TickTimeout, Leave
  <2> QED BY <2>1 DEF Forget, Satisfied, Registered
<1>3. ASSUME NEW r \in Runs, Remove(r) PROVE MissesOnlyEarlier'
  BY <1>3, Constants DEF Remove, Satisfied, Registered
<1>4. ASSUME NEW r \in Runs, Cancel(r) \/ WaitGrows(r) PROVE MissesOnlyEarlier'
  BY <1>4 DEF Cancel, WaitGrows, run, Satisfied, Registered
<1>5. ASSUME NEW d \in Deps, NEW s \in Reports, UpdateJobState(d, s)
      PROVE  MissesOnlyEarlier'
  <2> SUFFICES ASSUME NEW r \in Waiters', Registered(r)', Satisfied(r)'
               PROVE  r \in signalled' \cup early'
    OBVIOUS
  <2>1. r \in Waiters /\ Registered(r) /\ Met(r, state', old')
    BY <1>5 DEF UpdateJobState, Told, run, Registered, Satisfied
  <2>2. CASE d \in NeedsOf(r)
    BY <1>5, <2>1, <2>2 DEF UpdateJobState, Registered
  <2>3. CASE d \notin NeedsOf(r)
    <3>1. \A x \in NeedsOf(r) : state'[x] = state[x] /\ (x \in old => x \in old')
      BY <1>5, <2>3, Constants DEF UpdateJobState, Told
    <3>2. Satisfied(r) BY <2>1, <3>1 DEF Met, Satisfied
    <3> QED BY <1>5, <2>1, <2>3, <3>2 DEF UpdateJobState, Told
  <2> QED BY <2>2, <2>3
<1>6. ASSUME NEW d \in Deps, Age(d) \/ ClearOldState(d) PROVE MissesOnlyEarlier'
  <2>1. UNCHANGED <<run, waiting, signalled, early>> BY <1>6 DEF Age, ClearOldState
  <2>2. \A r \in Runs : Satisfied(r)' => Satisfied(r)
    BY <1>6, OnlyTellingMeets DEF Age, ClearOldState, Satisfied
  <2> QED BY <2>1, <2>2 DEF run, Registered
<1>7. CASE UNCHANGED vars BY <1>7 DEF vars, Satisfied, Registered
<1> QED BY <1>1, <1>2, <1>3, <1>4, <1>5, <1>6, <1>7 DEF Next

(* Registrations come and go together, and are left by ticks only. *)
LEMMA StepRegistered ==
    TrackerInv /\ [Next]_vars => RegisteredOrRobbed' /\ LeftOnlyByTick'
<1> SUFFICES ASSUME TrackerInv, [Next]_vars PROVE RegisteredOrRobbed' /\ LeftOnlyByTick'
  OBVIOUS
<1> USE DEF TrackerInv, TypeOK, RegisteredOrRobbed, LeftOnlyByTick, Waiters
<1>1. ASSUME NEW r \in Runs, Register(r) PROVE RegisteredOrRobbed' /\ LeftOnlyByTick'
  <2>1. \A x \in Runs \ {r} : \A d \in Deps : x \in waiting'[d] <=> x \in waiting[d]
    BY <1>1 DEF Register
  <2>2. Registered(r)' BY <1>1, Constants DEF Register, Registered
  <2>3. /\ pc' = [pc EXCEPT ![r] = "waiting"] /\ pc[r] = "idle" /\ result' = result
        /\ sat \subseteq sat'
    BY <1>1 DEF Register
  <2>4. RegisteredOrRobbed'
    BY <2>1, <2>2, <2>3, Constants DEF Registered
  <2>5. LeftOnlyByTick' BY <2>1, <2>3
  <2> QED BY <2>4, <2>5
<1>2. ASSUME NEW r \in Runs, Finish(r) PROVE RegisteredOrRobbed' /\ LeftOnlyByTick'
  <2>1. CASE TickSatisfied(r)
    BY <2>1 DEF TickSatisfied, Registered, SatSeen
  <2>2. CASE SeesCancel(r) BY <2>2 DEF SeesCancel, Leave, Registered
  <2>3. CASE SeesSignal(r) BY <2>3 DEF SeesSignal, Leave, Registered
  <2>4. CASE TickTimeout(r) BY <2>4 DEF TickTimeout, Leave, Registered
  <2> QED BY <1>2, <2>1, <2>2, <2>3, <2>4 DEF Finish
<1>3. ASSUME NEW r \in Runs, Remove(r) PROVE RegisteredOrRobbed' /\ LeftOnlyByTick'
  <2>1. /\ pc' = [pc EXCEPT ![r] = "done"] /\ pc[r] = "leaving"
        /\ UNCHANGED <<result, sat>>
    BY <1>3 DEF Remove
  <2>2. \A d \in Deps : waiting'[d] = {x \in waiting[d] : JobOf[x] # JobOf[r]}
    BY <1>3 DEF Remove
  <2>3. RegisteredOrRobbed'
    <3> SUFFICES ASSUME NEW x \in Runs, pc'[x] = "waiting"
                 PROVE  \/ Registered(x)'
                        \/ /\ \A d \in NeedsOf(x) : x \notin waiting'[d]
                           /\ \E y \in Runs \ {x} : JobOf[y] = JobOf[x] /\ pc'[y] = "done"
      BY DEF NeedsOf
    <3>1. CASE JobOf[x] = JobOf[r]
      BY <2>1, <2>2, <3>1, Constants
    <3>2. CASE JobOf[x] # JobOf[r]
      BY <2>1, <2>2, <3>2, Constants DEF Registered
    <3> QED BY <3>1, <3>2
  <2>4. LeftOnlyByTick' BY <2>1, <2>2
  <2> QED BY <2>3, <2>4
<1>4. ASSUME NEW r \in Runs, Cancel(r) \/ WaitGrows(r)
      PROVE  RegisteredOrRobbed' /\ LeftOnlyByTick'
  BY <1>4 DEF Cancel, WaitGrows, run, Registered
<1>5. ASSUME NEW d \in Deps, NEW s \in Reports, UpdateJobState(d, s)
      PROVE  RegisteredOrRobbed' /\ LeftOnlyByTick'
  BY <1>5 DEF UpdateJobState, Told, run, Registered
<1>6. ASSUME NEW d \in Deps, Age(d) \/ ClearOldState(d)
      PROVE  RegisteredOrRobbed' /\ LeftOnlyByTick'
  BY <1>6 DEF Age, ClearOldState, run, Registered
<1>7. CASE UNCHANGED vars BY <1>7 DEF vars, Registered
<1> QED BY <1>1, <1>2, <1>3, <1>4, <1>5, <1>6, <1>7 DEF Next

-----------------------------------------------------------------------------
(* The invariant holds for any jobs, dependencies, timeouts and runs. *)
THEOREM TrackerInvAlways == Spec => []TrackerInv
<1>1. TrackerInv /\ [Next]_vars => TrackerInv'
  BY StepType, StepSeen, StepMisses, StepRegistered DEF TrackerInv
<1> QED BY TrackerInvInit, <1>1, PTL DEF Spec

(* TypeOK: waiting, jobStates and the select stay of their types. *)
THEOREM TrackerTypesSafe == Spec => []TypeOK
<1>1. TrackerInv => TypeOK BY DEF TrackerInv
<1> QED BY <1>1, TrackerInvAlways, PTL

(* RunsOnlyAfter: WaitForDependencies returns nil only to a run whose      *)
(* dependencies were met while it waited, or whose caller gave it up.      *)
THEOREM OnlyAfterSafe == Spec => []RunsOnlyAfter
<1>1. TrackerInv => RunsOnlyAfter BY DEF TrackerInv
<1> QED BY <1>1, TrackerInvAlways, PTL

(* MissesOnlyEarlier: UpdateJobState wakes every registered run it serves. *)
THEOREM MissesSafe == Spec => []MissesOnlyEarlier
<1>1. TrackerInv => MissesOnlyEarlier BY DEF TrackerInv
<1> QED BY <1>1, TrackerInvAlways, PTL

(* RegisteredOrRobbed: removewaitingJob is the only thief of registrations. *)
THEOREM RobbedSafe == Spec => []RegisteredOrRobbed
<1>1. TrackerInv => RegisteredOrRobbed BY DEF TrackerInv
<1> QED BY <1>1, TrackerInvAlways, PTL

(* LeftOnlyByTick: only the tick's return leaves a run in waitingJobs. *)
THEOREM LeftSafe == Spec => []LeftOnlyByTick
<1>1. TrackerInv => LeftOnlyByTick BY DEF TrackerInv
<1> QED BY <1>1, TrackerInvAlways, PTL

-----------------------------------------------------------------------------
(* The retries of jobs that failed. *)

Most(j) == Max2(0, MaxAttempts + Cardinality(Chained(j)) - 1)

PassedBounded == \A j \in RetriedJobs : entry[j] + Cardinality(Passed(j)) <= Most(j)

Counted ==
    \A c \in Chains :
        /\ chainAt[c] = "free" => tries[c] = 0
        /\ chainAt[c] = "timer" /\ c \notin robbed => tries[c] + 1 <= entry[RetriedJob[c]]

RetryInv == RetryTypeOK /\ PassedBounded /\ Counted /\ TriesCounted /\ EntryAccounted

-----------------------------------------------------------------------------
(* The chains of a job are finitely many. *)
LEMMA ChainedFinite ==
    ASSUME ChainsOk, Policy, NEW j \in RetriedJobs
    PROVE  /\ IsFiniteSet(Chained(j)) /\ Cardinality(Chained(j)) \in Nat
           /\ Most(j) \in Nat
<1>1. IsFiniteSet(Chained(j))
  BY FS_Subset DEF ChainsOk, Chained
<1>2. Cardinality(Chained(j)) \in Nat BY <1>1, FS_CardinalityType
<1> QED BY <1>1, <1>2 DEF Policy, Most, Max2

(* No more chains have passed than are at work on the job. *)
LEMMA PassedFinite ==
    ASSUME ChainsOk, Policy, NEW j \in RetriedJobs
    PROVE  /\ IsFiniteSet(Passed(j)) /\ Cardinality(Passed(j)) \in Nat
           /\ Cardinality(Passed(j)) <= Cardinality(Chained(j))
<1>1. Passed(j) \subseteq Chained(j) BY DEF Passed
<1> QED BY <1>1, ChainedFinite, FS_Subset, FS_CardinalityType

(* What a step of chain c does to the table, the chains and the histories, *)
(* by the kind of step: it passes the check, counts an attempt, submits,   *)
(* goes on within its goroutine, or ends.                                  *)
MovesTo(c, p) == chainAt' = [chainAt EXCEPT ![c] = p]

Passes(c) ==
    /\ chainAt[c] \in {"free", "again"} /\ MovesTo(c, "passed")
    /\ entry[RetriedJob[c]] < MaxAttempts
    /\ UNCHANGED <<entry, tries, robbed, left>>

Submits(c) ==
    /\ chainAt[c] = "timer" /\ (MovesTo(c, "clear") \/ MovesTo(c, "failed"))
    /\ tries' = [tries EXCEPT ![c] = IF @ < TriesCap THEN @ + 1 ELSE @]
    /\ UNCHANGED <<entry, robbed, left>>

GoesOn(c) ==
    /\ chainAt[c] = "failed" /\ (MovesTo(c, "again") \/ MovesTo(c, "clear"))
    /\ UNCHANGED <<entry, tries, robbed, left>>

EndsLeaving(c) ==
    /\ chainAt[c] \in {"timer", "again"} /\ EndsWithEntry(c)

Idles == UNCHANGED <<entry, chainAt, tries, robbed, left>>

(* Every step of RetryNext is of one of these kinds. *)
LEMMA Kinds ==
    ASSUME [RetryNext]_retryVars
    PROVE  \/ \E c \in Chains : \/ Passes(c) \/ Schedule(c) \/ Submits(c) \/ GoesOn(c)
                                \/ EndsLeaving(c) \/ ClearRetry(c)
           \/ \E j \in RetriedJobs : ClearOldRetry(j)
           \/ Idles
<1>1. ASSUME NEW c \in Chains, NEW e \in Errors, Call(c, e) PROVE Passes(c) \/ Idles
  BY <1>1 DEF Call, ShouldRetry, Passes, MovesTo, Idles
<1>2. ASSUME NEW c \in Chains, CancelContext(c) PROVE Idles
  BY <1>2 DEF CancelContext, Idles
<1>3. ASSUME NEW c \in Chains, Step(c)
      PROVE  \/ Passes(c) \/ Schedule(c) \/ Submits(c) \/ GoesOn(c)
             \/ EndsLeaving(c) \/ ClearRetry(c)
  <2>1. CASE StopsWaiting(c) BY <2>1 DEF StopsWaiting, EndsLeaving
  <2>2. CASE Fire(c) BY <2>2 DEF Fire, Submits, MovesTo
  <2>3. CASE AskAgain(c) BY <2>3 DEF AskAgain, GoesOn, MovesTo
  <2>4. CASE ScheduleAgain(c)
    BY <2>4 DEF ScheduleAgain, ShouldRetry, Passes, MovesTo, EndsLeaving
  <2> QED BY <1>3, <2>1, <2>2, <2>3, <2>4 DEF Step
<1>4. CASE UNCHANGED retryVars BY <1>4 DEF retryVars, Idles
<1> QED BY <1>1, <1>2, <1>3, <1>4 DEF RetryNext

(* The initial state satisfies the invariant: no chain, no entry. *)
LEMMA RetryInvInit == ASSUME ChainsOk, Policy PROVE RetryInit => RetryInv
<1> SUFFICES ASSUME RetryInit PROVE RetryInv
  OBVIOUS
<1>1. RetryTypeOK /\ Counted /\ TriesCounted /\ EntryAccounted
  BY DEF RetryInit, RetryTypeOK, Counted, TriesCounted, EntryAccounted
<1>2. ASSUME NEW j \in RetriedJobs PROVE entry[j] + Cardinality(Passed(j)) <= Most(j)
  <2>1. Passed(j) = {} BY DEF RetryInit, Passed, Chained
  <2> QED BY <2>1, FS_EmptySet, ChainedFinite DEF RetryInit
<1> QED BY <1>1, <1>2 DEF RetryInv, PassedBounded

(* The types are inductive by themselves. *)
LEMMA StepTypes ==
    ASSUME ChainsOk PROVE RetryTypeOK /\ [RetryNext]_retryVars => RetryTypeOK'
<1> SUFFICES ASSUME RetryTypeOK, [RetryNext]_retryVars PROVE RetryTypeOK'
  OBVIOUS
<1> USE DEF RetryTypeOK, MovesTo
<1>1. ASSUME NEW c \in Chains, Passes(c) \/ Submits(c) \/ GoesOn(c) PROVE RetryTypeOK'
  BY <1>1 DEF Passes, Submits, GoesOn
<1>2. ASSUME NEW c \in Chains, Schedule(c) PROVE RetryTypeOK'
  <2>1. /\ entry' = [entry EXCEPT ![RetriedJob[c]] = @ + 1]
        /\ chainAt' = [chainAt EXCEPT ![c] = "timer"]
        /\ UNCHANGED <<tries, robbed>>
    BY <1>2 DEF Schedule
  <2>2. RetriedJob[c] \in RetriedJobs BY DEF ChainsOk
  <2> QED BY <2>1, <2>2
<1>3. ASSUME NEW c \in Chains, EndsLeaving(c) PROVE RetryTypeOK'
  BY <1>3 DEF EndsLeaving, EndsWithEntry, Ends
<1>4. ASSUME NEW c \in Chains, ClearRetry(c) PROVE RetryTypeOK'
  BY <1>4 DEF ClearRetry, Ends, Delete, Active, Chained
<1>5. ASSUME NEW j \in RetriedJobs, ClearOldRetry(j) PROVE RetryTypeOK'
  BY <1>5 DEF ClearOldRetry, Delete, Active, Chained
<1>6. CASE Idles BY <1>6 DEF Idles
<1> QED BY <1>1, <1>2, <1>3, <1>4, <1>5, <1>6, Kinds

(* Attempts and chains that will count one stay within the bound: a chain  *)
(* that passes the check moves one of the chains of the job into Passed,   *)
(* a chain that counts moves out of it.                                    *)
LEMMA StepPassed ==
    ASSUME ChainsOk, Policy PROVE RetryInv /\ [RetryNext]_retryVars => PassedBounded'
<1> SUFFICES ASSUME RetryInv, [RetryNext]_retryVars, NEW j \in RetriedJobs
             PROVE  entry'[j] + Cardinality(Passed(j)') <= Most(j)
  BY DEF PassedBounded, Most, Chained
<1> USE DEF RetryInv, RetryTypeOK, MovesTo
<1>0. /\ entry[j] \in Nat /\ entry[j] + Cardinality(Passed(j)) <= Most(j)
      /\ RetryTypeOK'
  BY StepTypes DEF PassedBounded
<1>1. ASSUME Passed(j)' \subseteq Passed(j), entry'[j] \in Nat, entry'[j] <= entry[j]
      PROVE  entry'[j] + Cardinality(Passed(j)') <= Most(j)
  <2>1. /\ Cardinality(Passed(j)') <= Cardinality(Passed(j))
        /\ Cardinality(Passed(j)') \in Nat
    BY <1>1, PassedFinite, FS_Subset, FS_CardinalityType
  <2> QED BY <1>0, <1>1, <2>1, PassedFinite, ChainedFinite
<1>2. ASSUME NEW c \in Chains, Passes(c)
      PROVE  entry'[j] + Cardinality(Passed(j)') <= Most(j)
  <2>1. CASE RetriedJob[c] = j
    <3>1. entry[j] < MaxAttempts /\ entry' = entry BY <1>2, <2>1 DEF Passes
    <3>2. Passed(j)' \subseteq Chained(j) BY DEF Passed, Chained
    <3>3. /\ Cardinality(Passed(j)') <= Cardinality(Chained(j))
          /\ Cardinality(Passed(j)') \in Nat
      BY <3>2, ChainedFinite, FS_Subset, FS_CardinalityType
    <3> QED BY <1>0, <3>1, <3>3, ChainedFinite DEF Policy, Most, Max2
  <2>2. CASE RetriedJob[c] # j
    BY <1>1, <1>0, <1>2, <2>2 DEF Passes, Passed, Chained
  <2> QED BY <2>1, <2>2
<1>3. ASSUME NEW c \in Chains, Schedule(c)
      PROVE  entry'[j] + Cardinality(Passed(j)') <= Most(j)
  <2>1. CASE RetriedJob[c] = j
    <3>1. entry'[j] = entry[j] + 1 BY <1>3, <2>1 DEF Schedule
    <3>2. c \in Passed(j) /\ Passed(j)' = Passed(j) \ {c}
      BY <1>3, <2>1 DEF Schedule, Passed, Chained
    <3>3. Cardinality(Passed(j)') = Cardinality(Passed(j)) - 1
      BY <3>2, PassedFinite, FS_RemoveElement
    <3> QED BY <1>0, <3>1, <3>3, PassedFinite, ChainedFinite
  <2>2. CASE RetriedJob[c] # j
    <3>1. entry'[j] = entry[j] BY <1>3, <2>2 DEF Schedule, ChainsOk
    <3>2. Passed(j)' = Passed(j) BY <1>3, <2>2 DEF Schedule, Passed, Chained
    <3> QED BY <1>0, <3>1, <3>2
  <2> QED BY <2>1, <2>2
<1>4. ASSUME NEW c \in Chains, Submits(c) \/ GoesOn(c)
      PROVE  entry'[j] + Cardinality(Passed(j)') <= Most(j)
  BY <1>1, <1>0, <1>4 DEF Submits, GoesOn, Passed, Chained
<1>5. ASSUME NEW c \in Chains, EndsLeaving(c)
      PROVE  entry'[j] + Cardinality(Passed(j)') <= Most(j)
  BY <1>1, <1>0, <1>5 DEF EndsLeaving, EndsWithEntry, Ends, Passed, Chained
<1>6. ASSUME NEW c \in Chains, ClearRetry(c)
      PROVE  entry'[j] + Cardinality(Passed(j)') <= Most(j)
  <2>1. entry'[j] \in {0, entry[j]} BY <1>6 DEF ClearRetry, Delete
  <2>2. Passed(j)' \subseteq Passed(j) BY <1>6 DEF ClearRetry, Ends, Passed, Chained
  <2> QED BY <1>1, <1>0, <2>1, <2>2
<1>7. ASSUME NEW i \in RetriedJobs, ClearOldRetry(i)
      PROVE  entry'[j] + Cardinality(Passed(j)') <= Most(j)
  <2>1. entry'[j] \in {0, entry[j]} BY <1>7 DEF ClearOldRetry, Delete
  <2>2. Passed(j)' = Passed(j) BY <1>7 DEF ClearOldRetry, Passed, Chained
  <2> QED BY <1>1, <1>0, <2>1, <2>2
<1>8. CASE Idles
  BY <1>1, <1>0, <1>8 DEF Idles, Passed, Chained
<1> QED BY <1>2, <1>3, <1>4, <1>5, <1>6, <1>7, <1>8, Kinds

(* Submissions stay behind attempts, and entries accounted for. *)
LEMMA StepCounted ==
    ASSUME ChainsOk
    PROVE  RetryInv /\ [RetryNext]_retryVars => Counted' /\ TriesCounted' /\ EntryAccounted'
<1> SUFFICES ASSUME RetryInv, [RetryNext]_retryVars
             PROVE  Counted' /\ TriesCounted' /\ EntryAccounted'
  OBVIOUS
<1> USE DEF ChainsOk, RetryInv, RetryTypeOK, MovesTo, Counted, TriesCounted, EntryAccounted,
            Active, Chained
<1>1. ASSUME NEW c \in Chains, Passes(c)
      PROVE  Counted' /\ TriesCounted' /\ EntryAccounted'
  BY <1>1 DEF Passes
<1>2. ASSUME NEW c \in Chains, Schedule(c)
      PROVE  Counted' /\ TriesCounted' /\ EntryAccounted'
  BY <1>2 DEF Schedule
<1>3. ASSUME NEW c \in Chains, Submits(c)
      PROVE  Counted' /\ TriesCounted' /\ EntryAccounted'
  BY <1>3 DEF Submits
<1>4. ASSUME NEW c \in Chains, GoesOn(c)
      PROVE  Counted' /\ TriesCounted' /\ EntryAccounted'
  BY <1>4 DEF GoesOn
<1>5. ASSUME NEW c \in Chains, EndsLeaving(c)
      PROVE  Counted' /\ TriesCounted' /\ EntryAccounted'
  BY <1>5 DEF EndsLeaving, EndsWithEntry, Ends
<1>6. ASSUME NEW c \in Chains, ClearRetry(c)
      PROVE  Counted' /\ TriesCounted' /\ EntryAccounted'
  BY <1>6 DEF ClearRetry, Ends, Delete
<1>7. ASSUME NEW i \in RetriedJobs, ClearOldRetry(i)
      PROVE  Counted' /\ TriesCounted' /\ EntryAccounted'
  BY <1>7 DEF ClearOldRetry, Delete
<1>8. CASE Idles BY <1>8 DEF Idles
<1> QED BY <1>1, <1>2, <1>3, <1>4, <1>5, <1>6, <1>7, <1>8, Kinds

-----------------------------------------------------------------------------
(* The invariant holds for any policy and any number of chains. *)
THEOREM RetryInvAlways ==
    ASSUME ChainsOk, Policy PROVE RetrySpec => []RetryInv
<1>1. RetryInit => RetryInv BY RetryInvInit
<1>2. RetryInv /\ [RetryNext]_retryVars => RetryInv'
  BY StepTypes, StepPassed, StepCounted DEF RetryInv
<1> QED BY <1>1, <1>2, PTL DEF RetrySpec

(* AttemptsBounded: ShouldRetry and ScheduleRetry count beyond MaxAttempts *)
(* by less than the number of chains at work on a job.                     *)
THEOREM AttemptsSafe ==
    ASSUME ChainsOk, Policy PROVE RetrySpec => []AttemptsBounded
<1>1. RetryInv => AttemptsBounded
  BY PassedFinite, ChainedFinite DEF RetryInv, RetryTypeOK, PassedBounded, AttemptsBounded, Most
<1>2. RetrySpec => []RetryInv BY RetryInvAlways
<1> QED BY <1>1, <1>2, PTL

(* TriesCounted: executeRetry submits no more often than the entry counts. *)
THEOREM TriesSafe ==
    ASSUME ChainsOk, Policy PROVE RetrySpec => []TriesCounted
<1>1. RetryInv => TriesCounted BY DEF RetryInv
<1>2. RetrySpec => []RetryInv BY RetryInvAlways
<1> QED BY <1>1, <1>2, PTL

(* EntryAccounted: no entry of retryAttempts outlives the work on its job, *)
(* but for chains that were cancelled or refused.                          *)
THEOREM EntrySafe ==
    ASSUME ChainsOk, Policy PROVE RetrySpec => []EntryAccounted
<1>1. RetryInv => EntryAccounted BY DEF RetryInv
<1>2. RetrySpec => []RetryInv BY RetryInvAlways
<1> QED BY <1>1, <1>2, PTL

(* RetryTypeOK, as the other theorems need it. *)
THEOREM RetryTypesSafe ==
    ASSUME ChainsOk, Policy PROVE RetrySpec => []RetryTypeOK
<1>1. RetryInv => RetryTypeOK BY DEF RetryInv
<1>2. RetrySpec => []RetryInv BY RetryInvAlways
<1> QED BY <1>1, <1>2, PTL
=============================================================================
