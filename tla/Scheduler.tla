------------------------------ MODULE Scheduler ------------------------------
(***************************************************************************)
(* The cron scheduler (daemon/scheduler/scheduler.go) with its optional    *)
(* store (daemon/store/schedule_store.go).  API handlers add, remove,      *)
(* update, enable, disable and trigger schedules under s.mu; cron entries  *)
(* and TriggerNow start executeScheduledJob goroutines that submit a job   *)
(* and then write statistics; the daemon may crash and load the store.     *)
(*                                                                         *)
(* A *models.ScheduledJob is a member of Objs: the closure of a cron entry *)
(* keeps the pointer it was made with, whatever s.jobs holds later.        *)
(* The cron library is external: a set of entries with increasing IDs.     *)
(* Any store call may fail; the scheduler logs it and goes on.             *)
(***************************************************************************)
EXTENDS Naturals, FiniteSets

CONSTANTS Ids,       \* schedule IDs
          Objs,      \* ScheduledJob values alive at a time
          Execs,     \* executeScheduledJob goroutines alive at a time
          HasStore,  \* SetStore was called
          MaxEntry,  \* bound on cron entry IDs in one life of the daemon
          MaxRuns,   \* bound on RunCount
          MaxClock   \* bound on the clock, in seconds

ASSUME IdentitiesFinite == /\ IsFiniteSet(Ids) /\ IsFiniteSet(Objs) /\ IsFiniteSet(Execs)
                           /\ Ids # {}
ASSUME NoneKnown == "none" \notin Objs /\ "noop" \notin Objs
ASSUME BoundsNat == /\ HasStore \in BOOLEAN /\ {MaxEntry, MaxRuns, MaxClock} \subseteq Nat
                    /\ Cardinality(Ids) <= MaxEntry

VARIABLES
    jobs,        \* s.jobs: the object of each ID, or "none"
    fields,      \* the fields of each object
    entries,     \* the live cron entries
    cronEntries, \* s.cronEntries: the entry ID of each ID, 0 when missing
    nextEntry,   \* the last entry ID cron gave out
    rows,        \* the scheduled_jobs table: {} or one row of each ID
    exec,        \* the executeScheduledJob goroutines
    submitted,   \* <<id, second>>: the job IDs the executor knows
    clock,       \* time.Now().Unix()
    unstored,    \* history: the IDs whose last save, delete or load the store refused
    leaked       \* history: the entries AddScheduledJob left behind of a replaced object

historyVars   == <<unstored, leaked>>
schedulerVars == <<jobs, fields, entries, cronEntries, nextEntry, rows, exec, submitted, clock,
                   unstored, leaked>>

Exprs  == {"cron", "malformed"}
Fields == [id : Ids, expr : Exprs, enabled : BOOLEAN, runs : 0 .. MaxRuns]
Row    == [expr : Exprs, enabled : BOOLEAN, runs : 0 .. MaxRuns]
Entry  == [eid : 1 .. MaxEntry, owner : Objs \cup {"noop"}]
IdleExec == [at |-> "idle", obj |-> "none"]
Exec   == {IdleExec} \cup [at : {"submit", "stats", "persist"}, obj : Objs]

SchedulerTypeOK ==
    /\ jobs \in [Ids -> Objs \cup {"none"}]
    /\ fields \in [Objs -> Fields]
    /\ entries \subseteq Entry
    /\ cronEntries \in [Ids -> 0 .. MaxEntry]
    /\ nextEntry \in 0 .. MaxEntry
    /\ rows \in [Ids -> SUBSET Row]
    /\ exec \in [Execs -> Exec]
    /\ submitted \subseteq Ids \X (0 .. MaxClock)
    /\ clock \in 0 .. MaxClock
    /\ unstored \subseteq Ids
    /\ leaked \subseteq 1 .. MaxEntry

SchedulerInit ==
    /\ jobs = [id \in Ids |-> "none"]
    /\ fields = [o \in Objs |-> [id |-> CHOOSE id \in Ids : TRUE, expr |-> "cron",
                              enabled |-> FALSE, runs |-> 0]]
    /\ entries = {}
    /\ cronEntries = [id \in Ids |-> 0]
    /\ nextEntry = 0
    /\ rows = [id \in Ids |-> {}]
    /\ exec = [e \in Execs |-> IdleExec]
    /\ submitted = {}
    /\ clock = 0
    /\ unstored = {}
    /\ leaked = {}

Known(id) == jobs[id] # "none"
Valid(expr) == expr # "malformed"

(* An object nothing points at: a new ScheduledJob may take its place. *)
Fresh(o) == /\ \A id \in Ids : jobs[id] # o
            /\ \A n \in entries : n.owner # o
            /\ \A e \in Execs : exec[e].obj # o

RowOf(f) == [expr |-> f.expr, enabled |-> f.enabled, runs |-> f.runs]

(* What becomes of the row of an ID when the store is asked to change it.  *)
Written(id, row) == rows' = [rows EXCEPT ![id] = row] /\ unstored' = unstored \ {id}
Refused(id)      == UNCHANGED rows /\ unstored' = unstored \cup {id}

(* store.SaveSchedule: INSERT, refused when the row exists or by an error  *)
(* of the database, which leaves no row ("Continue anyway").               *)
SaveSchedule(id, f) ==
    \/ HasStore /\ rows[id] = {} /\ Written(id, {RowOf(f)})
    \/ HasStore /\ rows[id] = {} /\ Refused(id)
    \/ ~HasStore /\ UNCHANGED <<rows, unstored>>
    \/ rows[id] # {} /\ Written(id, rows[id])

(* store.DeleteSchedule: DELETE, or an error that leaves the row.          *)
DeleteSchedule(id) ==
    \/ Written(id, {})
    \/ rows[id] # {} /\ Refused(id)

(* Mutant: UPDATE replaced by an upsert. *)
UpdateScheduleUpserts(f) ==
    /\ rows' = IF HasStore THEN [rows EXCEPT ![f.id] = {RowOf(f)}] ELSE rows
    /\ UNCHANGED unstored

(* store.UpdateSchedule: UPDATE, an error when there is no row or when the *)
(* database fails.                                                         *)
UpdateSchedule(f) ==
    /\ \/ HasStore /\ rows[f.id] # {} /\ rows' = [rows EXCEPT ![f.id] = {RowOf(f)}]
       \/ UNCHANGED rows
    /\ UNCHANGED unstored

(* cron.AddFunc of a valid expression for each member of owners. *)
AddEntry(id, kept, owner) ==
    /\ nextEntry < MaxEntry
    /\ nextEntry' = nextEntry + 1
    /\ entries' = kept \cup {[eid |-> nextEntry + 1, owner |-> owner]}
    /\ cronEntries' = [cronEntries EXCEPT ![id] = nextEntry + 1]

(* Mutant: the entry of a disabled schedule is kept. *)
EntriesKept(id) == entries

(* cron.Remove(s.cronEntries[id]), a no-op for an unknown entry ID. *)
EntriesWithout(id) == {n \in entries : n.eid # cronEntries[id]}
-----------------------------------------------------------------------------
(* AddScheduledJob: the validation entry with an empty function stays in   *)
(* cron; an existing schedule of the same ID is replaced in s.jobs only,   *)
(* and its entry leaks.                                                    *)
AddScheduledJob(id, o, enabled) ==
    LET f    == [id |-> id, expr |-> "cron", enabled |-> enabled, runs |-> 0]
        noop == [eid |-> nextEntry + 1, owner |-> "noop"]
    IN  /\ Fresh(o)
        /\ nextEntry + 2 <= MaxEntry
        /\ fields' = [fields EXCEPT ![o] = f]
        /\ jobs' = [jobs EXCEPT ![id] = o]
        /\ \/ /\ enabled
              /\ entries' = entries \cup {noop, [eid |-> nextEntry + 2, owner |-> o]}
              /\ nextEntry' = nextEntry + 2
              /\ cronEntries' = [cronEntries EXCEPT ![id] = nextEntry + 2]
           \/ /\ ~enabled
              /\ entries' = entries \cup {noop}
              /\ nextEntry' = nextEntry + 1
              /\ UNCHANGED cronEntries
        /\ SaveSchedule(id, f)
        /\ leaked' = leaked \cup {n.eid : n \in {k \in entries : k.owner = jobs[id]}}
        /\ UNCHANGED <<exec, submitted, clock>>

RemoveScheduledJob(id) ==
    /\ Known(id)
    /\ entries' = IF fields[jobs[id]].enabled THEN EntriesWithout(id) ELSE entries
    /\ jobs' = [jobs EXCEPT ![id] = "none"]
    /\ DeleteSchedule(id)
    /\ UNCHANGED <<fields, cronEntries, nextEntry, exec, submitted, clock, leaked>>

(* UpdateScheduledJob: the old entry goes first, the fields are written,   *)
(* and a malformed expression returns before anything is added or stored.  *)
UpdateScheduledJob(id, expr, enabled) ==
    /\ Known(id)
    /\ LET o    == jobs[id]
           f    == [fields[o] EXCEPT !.expr = expr, !.enabled = enabled]
           kept == IF fields[o].enabled THEN EntriesWithout(id) ELSE entries
       IN  /\ fields' = [fields EXCEPT ![o] = f]
           /\ \/ /\ enabled /\ Valid(expr)
                 /\ AddEntry(id, kept, o)
                 /\ UpdateSchedule(f)
              \/ /\ enabled /\ ~Valid(expr)
                 /\ entries' = kept
                 /\ UNCHANGED <<nextEntry, cronEntries, rows, unstored>>
              \/ /\ ~enabled
                 /\ entries' = kept
                 /\ UpdateSchedule(f)
                 /\ UNCHANGED <<nextEntry, cronEntries>>
    /\ UNCHANGED <<jobs, exec, submitted, clock, leaked>>

(* EnableScheduledJob and DisableScheduledJob do not write the store. *)
EnableScheduledJob(id) ==
    /\ Known(id)
    /\ ~fields[jobs[id]].enabled
    /\ Valid(fields[jobs[id]].expr)
    /\ AddEntry(id, entries, jobs[id])
    /\ fields' = [fields EXCEPT ![jobs[id]].enabled = TRUE]
    /\ UNCHANGED <<jobs, rows, exec, submitted, clock, historyVars>>

DisableScheduledJob(id) ==
    /\ Known(id)
    /\ fields[jobs[id]].enabled
    /\ entries' = EntriesWithout(id)
    /\ fields' = [fields EXCEPT ![jobs[id]].enabled = FALSE]
    /\ UNCHANGED <<jobs, cronEntries, nextEntry, rows, exec, submitted, clock, historyVars>>

-----------------------------------------------------------------------------
Start(e, o) ==
    /\ exec[e] = IdleExec
    /\ exec' = [exec EXCEPT ![e] = [at |-> "submit", obj |-> o]]
    /\ UNCHANGED <<jobs, fields, entries, cronEntries, nextEntry, rows, submitted, clock,
                   historyVars>>

(* TriggerNow: a goroutine for the object s.jobs holds now. *)
TriggerNow(id, e) == Known(id) /\ Start(e, jobs[id])

(* cron runs an entry: a goroutine for the object its closure captured. *)
CronFires(e) == \E n \in entries : n.owner # "noop" /\ Start(e, n.owner)

Second == clock' = clock + 1 /\ clock < MaxClock
          /\ UNCHANGED <<jobs, fields, entries, cronEntries, nextEntry, rows, exec, submitted,
                         historyVars>>

(* executeScheduledJob: the job ID is the schedule ID and the second; the  *)
(* executor refuses an ID it knows, and then nothing more happens.         *)
SubmitScheduled(e) ==
    /\ exec[e].at = "submit"
    /\ LET job == <<fields[exec[e].obj].id, clock>>
       IN  \/ /\ job \notin submitted
              /\ submitted' = submitted \cup {job}
              /\ exec' = [exec EXCEPT ![e].at = "stats"]
           \/ /\ job \in submitted
              /\ exec' = [exec EXCEPT ![e] = IdleExec]
              /\ UNCHANGED submitted
    /\ UNCHANGED <<jobs, fields, entries, cronEntries, nextEntry, rows, clock, historyVars>>

(* The statistics, under s.mu. *)
CountRun(e) ==
    /\ exec[e].at = "stats"
    /\ fields[exec[e].obj].runs < MaxRuns
    /\ fields' = [fields EXCEPT ![exec[e].obj].runs = @ + 1]
    /\ exec' = [exec EXCEPT ![e].at = "persist"]
    /\ UNCHANGED <<jobs, entries, cronEntries, nextEntry, rows, submitted, clock, historyVars>>

(* UpdateSchedule with the object as it is then, outside s.mu. *)
PersistStats(e) ==
    /\ exec[e].at = "persist"
    /\ UpdateSchedule(fields[exec[e].obj])
    /\ exec' = [exec EXCEPT ![e] = IdleExec]
    /\ UNCHANGED <<jobs, fields, entries, cronEntries, nextEntry, submitted, clock, leaked>>

(* Mutant: LoadSchedules restores the table and forgets cron. *)
SchedulableNever(f) == FALSE

(* The schedules LoadSchedules adds to cron. *)
Schedulable(f) == f.enabled /\ Valid(f.expr)

(* The daemon dies and starts again: LoadSchedules makes a new object of   *)
(* every row and an entry of every row that is enabled and well formed.    *)
(* If the table cannot be read, main warns and starts with no schedules.   *)
Restart ==
    LET stored    == {id \in Ids : rows[id] # {}}
        loaded(id) == CHOOSE r \in rows[id] : TRUE
        load(id)  == [id |-> id, expr |-> loaded(id).expr,
                      enabled |-> loaded(id).enabled, runs |-> loaded(id).runs]
    IN  \E read \in {stored, {}} :
        \E object \in [read -> Objs], eid \in [read -> 1 .. Cardinality(Ids)] :
          LET ToRun == {id \in read : Schedulable(load(id))}
          IN  /\ \A i, k \in read : i # k => object[i] # object[k] /\ eid[i] # eid[k]
              /\ \A id \in read : eid[id] <= Cardinality(read)
              /\ nextEntry' = Cardinality(read)
              /\ jobs' = [id \in Ids |-> IF id \in read THEN object[id] ELSE "none"]
              /\ fields' = [o \in Objs |->
                              IF \E id \in read : object[id] = o
                              THEN load(CHOOSE id \in read : object[id] = o)
                              ELSE fields[o]]
              /\ entries' = {[eid |-> eid[id], owner |-> object[id]] : id \in ToRun}
              /\ cronEntries' = [id \in Ids |-> IF id \in ToRun THEN eid[id] ELSE 0]
              /\ exec' = [e \in Execs |-> IdleExec]
              /\ submitted' = {}
              /\ unstored' = stored \ read
              /\ leaked' = {}
              /\ UNCHANGED <<rows, clock>>

-----------------------------------------------------------------------------
Handle(id) == \/ RemoveScheduledJob(id) \/ EnableScheduledJob(id) \/ DisableScheduledJob(id)
              \/ \E enabled \in BOOLEAN :
                    \/ \E o \in Objs : AddScheduledJob(id, o, enabled)
                    \/ \E expr \in Exprs : UpdateScheduledJob(id, expr, enabled)
              \/ \E e \in Execs : TriggerNow(id, e)

Execute(e) == CronFires(e) \/ SubmitScheduled(e) \/ CountRun(e) \/ PersistStats(e)

SchedulerNext ==
    \/ \E id \in Ids : Handle(id)
    \/ \E e \in Execs : Execute(e)
    \/ Second \/ Restart

SchedulerSpec == SchedulerInit /\ [][SchedulerNext]_schedulerVars

-----------------------------------------------------------------------------
(***************************************************************************)
(* Cron and the schedule table agree: an object has at most one entry;     *)
(* every entry is the empty one of a validation, or the one left behind of *)
(* an ID added twice (leaked), or belongs to a schedule s.jobs holds, that *)
(* is enabled with an expression cron can run, and is the one that         *)
(* s.cronEntries will remove. No removal, replacement, failed update or    *)
(* restart leaves any other.  With the types of the state.                 *)
(***************************************************************************)
EntriesOwned ==
    /\ SchedulerTypeOK
    /\ \A m, n \in entries : m.eid = n.eid => m = n
    /\ \A m, n \in entries : m.owner = n.owner /\ m.owner # "noop" => m = n
    /\ \A n \in entries :
          \/ n.owner = "noop" \/ n.eid \in leaked
          \/ \E id \in Ids : jobs[id] = n.owner
    /\ \A id \in Ids, n \in entries :
          n.owner = jobs[id] =>
              /\ fields[n.owner].id = id /\ cronEntries[id] = n.eid
              /\ fields[n.owner].enabled /\ Valid(fields[n.owner].expr)

(***************************************************************************)
(* The store has a row of exactly the schedules the daemon knows, but for  *)
(* those whose last save or delete it refused, or that it could not load:  *)
(* a late statistics write does not bring a removed schedule back, a crash *)
(* loses none, and a refusal spoils no other schedule.                     *)
(***************************************************************************)
StoredIffKnown == HasStore => \A id \in Ids \ unstored : rows[id] # {} <=> Known(id)

(***************************************************************************)
(* An enabled, well-formed schedule is in cron, through replacement,       *)
(* failed updates and restarts.                                            *)
(***************************************************************************)
EnabledIsScheduled ==
    \A id \in Ids :
        Known(id) /\ fields[jobs[id]].enabled /\ Valid(fields[jobs[id]].expr) =>
            \E n \in entries : n.owner = jobs[id]
=============================================================================
