-------------------------- MODULE DependencyTracker --------------------------
(***************************************************************************)
(* DependencyTracker (daemon/scheduler/dependencies.go): runs of scheduled *)
(* jobs that wait until the jobs they depend on have ended as required.    *)
(*                                                                         *)
(* A run is one call of WaitForDependencies; a job may have two runs at a  *)
(* time.  A waiter is woken by UpdateJobState, which cancels the context   *)
(* it waits on, and looks for itself at every tick of five seconds.  Each  *)
(* section under dt.mu and each side of the select is an action; clocks    *)
(* appear as the two comparisons the code makes with dep.Timeout.          *)
(***************************************************************************)
EXTENDS FiniteSets

CONSTANTS Runs,       \* calls of WaitForDependencies
          Jobs,       \* scheduled jobs with dependencies
          Deps,       \* the jobs they depend on
          JobOf,      \* the job of a run
          DependsOn,  \* DependsOn[j] : its dependencies |-> required state
          Timed,      \* the jobs whose dependencies have a Timeout
          Reports     \* the states the tracker is told of

Required == {"completed", "failed", "any"}

ASSUME RunsHaveJobs == JobOf \in [Runs -> Jobs]
ASSUME JobsDepend ==
    \A j \in Jobs :
        /\ DOMAIN DependsOn[j] \in (SUBSET Deps) \ {{}}
        /\ \A d \in DOMAIN DependsOn[j] : DependsOn[j][d] \in Required
ASSUME TimedJobs == Timed \subseteq Jobs
ASSUME SomeReports == Reports \subseteq {"running", "completed", "failed", "cancelled"}

VARIABLES
    state,      \* jobStates: the last state told of a dependency
    old,        \* dependencies whose CompletedAt is further back than Timeout
    waiting,    \* waitingJobs: the runs registered with each dependency
    pc,         \* where a run is in WaitForDependencies
    result,     \* what it returns
    ctx,        \* runs whose caller's context was cancelled
    signalled,  \* runs whose waitCtx was cancelled by UpdateJobState
    overdue,    \* runs that have waited longer than Timeout
    sat,        \* history: runs whose dependencies were met while they waited
    early       \* history: runs registered when they were met, none told of since

vars == <<state, old, waiting, pc, result, ctx, signalled, overdue, sat, early>>
run  == <<pc, result>>

States == {"none"} \cup Reports

NeedsOf(r) == DOMAIN DependsOn[JobOf[r]]

(* One case of the switch of checkDependenciesLocked. *)
InState(req, s) ==
    IF req = "any" THEN s \in {"completed", "failed"} ELSE s = req

(* CheckDependencies and checkDependenciesLocked, which differ in wording, *)
(* and in how they take a required state that is none of the three.        *)
Met(r, st, o) ==
    \A d \in NeedsOf(r) :
        /\ InState(DependsOn[JobOf[r]][d], st[d])
        /\ JobOf[r] \in Timed => d \notin o

Satisfied(r) == Met(r, state, old)
Registered(r) == \A d \in NeedsOf(r) : r \in waiting[d]

TypeOK ==
    /\ state \in [Deps -> States]
    /\ old \subseteq Deps
    /\ waiting \in [Deps -> SUBSET Runs]
    /\ pc \in [Runs -> {"idle", "waiting", "leaving", "done"}]
    /\ result \in [Runs -> {"none", "nil", "cancelled", "timeout"}]
    /\ {ctx, signalled, overdue, sat, early} \subseteq SUBSET Runs

Init ==
    /\ state = [d \in Deps |-> "none"] /\ old = {}
    /\ waiting = [d \in Deps |-> {}]
    /\ pc = [r \in Runs |-> "idle"] /\ result = [r \in Runs |-> "none"]
    /\ ctx = {} /\ signalled = {} /\ overdue = {} /\ sat = {} /\ early = {}

Waiters == {r \in Runs : pc[r] = "waiting"}

-----------------------------------------------------------------------------
(* WaitForDependencies: the first section.  Nothing is checked. *)
Register(r) ==
    /\ pc[r] = "idle"
    /\ waiting' = [d \in Deps |-> IF d \in NeedsOf(r) THEN waiting[d] \cup {r}
                                                      ELSE waiting[d]]
    /\ pc' = [pc EXCEPT ![r] = "waiting"]
    /\ sat'   = IF Satisfied(r) THEN sat \cup {r} ELSE sat
    /\ early' = IF Satisfied(r) THEN early \cup {r} ELSE early
    /\ UNCHANGED <<state, old, result, ctx, signalled, overdue>>

(* Past the select its signals and the length of its wait say no more. *)
Forget(r) ==
    /\ signalled' = signalled \ {r} /\ overdue' = overdue \ {r} /\ early' = early \ {r}

(* The run leaves the select and will remove its registrations. *)
Leave(r, res) ==
    /\ pc[r] = "waiting"
    /\ pc' = [pc EXCEPT ![r] = "leaving"] /\ result' = [result EXCEPT ![r] = res]
    /\ Forget(r)
    /\ UNCHANGED <<state, old, waiting, ctx, sat>>

(* case <-ctx.Done() *)
SeesCancel(r) == r \in ctx /\ Leave(r, "cancelled")

(* case <-waitCtx.Done(): the child is done with its parent, too. *)
SeesSignal(r) == r \in signalled \cup ctx /\ Leave(r, "nil")

(* Mutant: the tick looks at registered runs. *)
TickRegistered(r) ==
    /\ pc[r] = "waiting" /\ Satisfied(r) /\ Registered(r)
    /\ pc' = [pc EXCEPT ![r] = "done"] /\ result' = [result EXCEPT ![r] = "nil"]
    /\ Forget(r)
    /\ UNCHANGED <<state, old, waiting, ctx, sat>>

(* case <-ticker.C, the dependencies are met; the registrations stay. *)
TickSatisfied(r) ==
    /\ pc[r] = "waiting" /\ Satisfied(r)
    /\ pc' = [pc EXCEPT ![r] = "done"] /\ result' = [result EXCEPT ![r] = "nil"]
    /\ Forget(r)
    /\ UNCHANGED <<state, old, waiting, ctx, sat>>

(* case <-ticker.C, the run has waited for too long. *)
TickTimeout(r) ==
    /\ JobOf[r] \in Timed /\ r \in overdue /\ ~Satisfied(r)
    /\ Leave(r, "timeout")

(* removewaitingJob: all registrations of the job, those of other runs too. *)
Remove(r) ==
    /\ pc[r] = "leaving"
    /\ waiting' = [d \in Deps |-> {x \in waiting[d] : JobOf[x] # JobOf[r]}]
    /\ pc' = [pc EXCEPT ![r] = "done"]
    /\ UNCHANGED <<state, old, result, ctx, signalled, overdue, sat, early>>

-----------------------------------------------------------------------------
(* What UpdateJobState does after the wake-ups it chose. *)
Told(d, s) ==
    /\ state' = [state EXCEPT ![d] = s] /\ old' = old \ {d}
    /\ sat' = sat \cup {r \in Waiters : Met(r, state', old')}
    /\ early' = {r \in early : d \notin NeedsOf(r)}
    /\ UNCHANGED <<waiting, run, ctx, overdue>>

(* Mutant: a waiter is woken when this dependency has ended. *)
UpdateJobStateOne(d, s) ==
    /\ Told(d, s)
    /\ signalled' = signalled \cup
           {r \in waiting[d] \cap Waiters : InState(DependsOn[JobOf[r]][d], s)}

(* Mutant: the waiters are checked before the state is stored. *)
UpdateJobStateLate(d, s) ==
    /\ Told(d, s)
    /\ signalled' = signalled \cup {r \in waiting[d] \cap Waiters : Satisfied(r)}

(* UpdateJobState: one section under dt.mu.  Cancelling the context of a   *)
(* run that is past its select has no effect.                              *)
UpdateJobState(d, s) ==
    /\ Told(d, s)
    /\ signalled' = signalled \cup {r \in waiting[d] \cap Waiters : Met(r, state', old')}

(* The caller's context is cancelled. *)
Cancel(r) ==
    /\ pc[r] = "waiting" /\ r \notin ctx
    /\ ctx' = ctx \cup {r}
    /\ UNCHANGED <<state, old, waiting, run, signalled, overdue, sat, early>>

(* Time passes a comparison with Timeout. *)
Age(d) ==
    /\ Timed # {} /\ state[d] # "none" /\ d \notin old
    /\ old' = old \cup {d}
    /\ UNCHANGED <<state, waiting, run, ctx, signalled, overdue, sat, early>>

WaitGrows(r) ==
    /\ JobOf[r] \in Timed /\ pc[r] = "waiting" /\ r \notin overdue
    /\ overdue' = overdue \cup {r}
    /\ UNCHANGED <<state, old, waiting, run, ctx, signalled, sat, early>>

(* ClearOldStates forgets a dependency. *)
ClearOldState(d) ==
    /\ state[d] # "none" /\ d \in old
    /\ state' = [state EXCEPT ![d] = "none"] /\ old' = old \ {d}
    /\ UNCHANGED <<waiting, run, ctx, signalled, overdue, sat, early>>

Finish(r) == SeesCancel(r) \/ SeesSignal(r) \/ TickSatisfied(r) \/ TickTimeout(r)

Next ==
    \/ \E r \in Runs : \/ Register(r) \/ Finish(r) \/ Remove(r)
                       \/ Cancel(r) \/ WaitGrows(r)
    \/ \E d \in Deps : \/ \E s \in Reports : UpdateJobState(d, s)
                       \/ Age(d) \/ ClearOldState(d)

(* A run is a goroutine in a select with a ticker: it does not stay where  *)
(* a side of the select is ready for good.  Nothing is owed by jobs.       *)
Fairness == \A r \in Runs : WF_vars(Finish(r)) /\ WF_vars(Remove(r))

Spec == Init /\ [][Next]_vars /\ Fairness

-----------------------------------------------------------------------------
(* Properties. *)

(* A run that is told to go on did see its dependencies met at one moment  *)
(* of its wait, unless its caller gave it up: then both sides of the       *)
(* select are ready, and one of them says the dependencies are met.        *)
RunsOnlyAfter ==
    \A r \in Runs : result[r] = "nil" /\ r \notin ctx => r \in sat

(* While a run is registered, the only wake-up it can miss is that of      *)
(* dependencies that were met before it registered.                        *)
MissesOnlyEarlier ==
    \A r \in Waiters :
        Registered(r) /\ Satisfied(r) => r \in signalled \cup early

(* A waiting run is registered with all its dependencies, or with none of  *)
(* them after another run of the same job returned and removed both.       *)
RegisteredOrRobbed ==
    \A r \in Waiters :
        \/ Registered(r)
        \/ /\ \A d \in NeedsOf(r) : r \notin waiting[d]
           /\ \E x \in Runs \ {r} : JobOf[x] = JobOf[r] /\ pc[x] = "done"

(* A run that returned is left in the lists only by the tick that found    *)
(* its dependencies met.                                                   *)
LeftOnlyByTick ==
    \A r \in Runs : pc[r] = "done" /\ (\E d \in Deps : r \in waiting[d])
                        => result[r] = "nil" /\ r \in sat

(* No run waits for ever with its dependencies met: the tick serves those  *)
(* that missed their wake-up or lost their registration.                   *)
Served == \A r \in Runs : []<>(pc[r] # "waiting" \/ ~Satisfied(r))
=============================================================================
