------------------------------ MODULE Retryer ------------------------------
(***************************************************************************)
(* Retryer.Do (retry/retry.go; DoWithResult repeats it) composed with the  *)
(* network monitor it asks: each caller runs its operation up to           *)
(* MaxAttempts times, pauses or waits for the network in between, and      *)
(* stops at an error that is not transient or when its context is done.    *)
(*                                                                         *)
(* WaitForNetwork (network/monitor.go) looks at the state, subscribes and  *)
(* receives in separate steps, and never gives its channel back.           *)
(***************************************************************************)
EXTENDS NetworkMonitor

CONSTANTS Callers,        \* goroutines in Do
          MaxAttempts,    \* RetryConfig.MaxAttempts
          WaitForNetwork  \* RetryConfig.WaitForNetwork, with a monitor set

ASSUME MaxAttemptsPositive == MaxAttempts \in Nat \ {0}
ASSUME WaitIsFlag == WaitForNetwork \in BOOLEAN
(* One wait, and so one channel, for an attempt. *)
ASSUME ChannelNames == Channels = Callers \X (1 .. MaxAttempts)

VARIABLES
    pc,       \* where each caller is
    attempt,  \* the loop variable of Do
    live,     \* its context is live
    missed    \* history: in this wait "up" was told when it could not hear

callerVars == <<pc, attempt, live, missed>>
retryerVars == <<monitorVars, callerVars>>

Ended == {"succeeded", "failed", "exhausted", "cancelled"}
Waiting == {"subscribes", "waits"}
CallerPlaces == Ended \cup Waiting
                \cup {"head", "operating", "looks", "checks", "sleeping"}

RetryerTypeOK ==
    /\ MonitorTypeOK
    /\ pc \in [Callers -> CallerPlaces]
    /\ attempt \in [Callers -> 1 .. MaxAttempts]
    /\ live \in [Callers -> BOOLEAN]
    /\ missed \in [Callers -> BOOLEAN]

RetryerInit ==
    /\ MonitorInit
    /\ pc = [c \in Callers |-> "head"]
    /\ attempt = [c \in Callers |-> 1]
    /\ live = [c \in Callers |-> TRUE]
    /\ missed = [c \in Callers |-> FALSE]

Channel(c) == <<c, attempt[c]>>

CallerGoes(c, from, to) ==
    /\ pc[c] = from
    /\ pc' = [pc EXCEPT ![c] = to]

-----------------------------------------------------------------------------
(* Do, head of the loop: the context is looked at before each attempt. *)
Begin(c) ==
    /\ CallerGoes(c, "head", IF live[c] THEN "operating" ELSE "cancelled")
    /\ UNCHANGED <<monitorVars, attempt, live, missed>>

(* Where a transient error leads (isRetryable holds of it). *)
AfterError(c) ==
    IF attempt[c] >= MaxAttempts THEN "exhausted"
    ELSE IF WaitForNetwork THEN "looks" ELSE "sleeping"

(* The operation (external) returns nil or an error of either kind. *)
Return(c) ==
    /\ \/ CallerGoes(c, "operating", "succeeded")
       \/ CallerGoes(c, "operating", "failed")
       \/ CallerGoes(c, "operating", AfterError(c))
    /\ UNCHANGED <<monitorVars, attempt, live, missed>>

(* Do looks at the monitor. *)
Look(c) ==
    /\ CallerGoes(c, "looks", IF IsUp THEN "sleeping" ELSE "checks")
    /\ UNCHANGED <<monitorVars, attempt, live, missed>>

(* The next turn of the loop, after a pause or after a wait. *)
NextAttempt(c, from) ==
    /\ CallerGoes(c, from, "head")
    /\ attempt' = [attempt EXCEPT ![c] = @ + 1]

(* WaitForNetwork looks again, without subscribing first. *)
Check(c) ==
    /\ IF IsUp THEN NextAttempt(c, "checks")
               ELSE CallerGoes(c, "checks", "subscribes") /\ UNCHANGED attempt
    /\ missed' = [missed EXCEPT ![c] = FALSE]
    /\ UNCHANGED <<monitorVars, live>>

(* Subscribe: a new channel, also after Stop, which will not close it. *)
Subscribe(c) ==
    /\ CallerGoes(c, "subscribes", "waits")
    /\ listeners' = listeners \cup {Channel(c)}
    /\ UNCHANGED <<state, chan, closed, loopAt, hand, notify, monCtx, stop,
                   attempt, live, missed>>

(* WaitForNetwork receives; only "up" ends the wait.  A closed channel     *)
(* gives "unknown" for ever, which changes nothing.                        *)
Hear(c) ==
    /\ pc[c] = "waits" /\ chan[Channel(c)] # <<>>
    /\ chan' = [chan EXCEPT ![Channel(c)] = Tail(@)]
    /\ IF Head(chan[Channel(c)]) = "up" THEN NextAttempt(c, "waits")
                                        ELSE UNCHANGED <<pc, attempt>>
    /\ UNCHANGED <<state, listeners, closed, loopAt, hand, notify, monCtx, stop,
                   live, missed>>

(* The pause is over. *)
WakeUp(c) ==
    /\ NextAttempt(c, "sleeping")
    /\ UNCHANGED <<monitorVars, live, missed>>

(* Mutant: the wait for the network does not watch the context. *)
GiveUpAsleep(c) ==
    /\ ~live[c]
    /\ CallerGoes(c, "sleeping", "cancelled")
    /\ UNCHANGED <<monitorVars, attempt, live, missed>>

(* ctx.Done in the select of the pause or of WaitForNetwork; the listener  *)
(* is left behind.                                                         *)
GiveUp(c) ==
    /\ ~live[c]
    /\ CallerGoes(c, "sleeping", "cancelled") \/ CallerGoes(c, "waits", "cancelled")
    /\ UNCHANGED <<monitorVars, attempt, live, missed>>

(* The context of a caller is cancelled or expires. *)
Cancel(c) ==
    /\ live[c]
    /\ live' = [live EXCEPT ![c] = FALSE]
    /\ UNCHANGED <<monitorVars, pc, attempt, missed>>

(* The listeners are being told "up" in this step. *)
TellsUp == \E g \in Goroutines : /\ loopAt[g] = "notify" /\ loopAt'[g] # "notify"
                                 /\ notify[g] /\ hand[g] = "up"

(* A step of the monitor, with the history of who could not hear it. *)
MonitorStep ==
    /\ MonitorNext
    /\ missed' = [c \in Callers |->
          missed[c] \/ /\ TellsUp
                       /\ \/ pc[c] = "subscribes"
                          \/ pc[c] = "waits" /\ ~HasRoom(Channel(c))]
    /\ UNCHANGED <<pc, attempt, live>>

CallerStep(c) ==
    \/ Begin(c) \/ Return(c) \/ Look(c) \/ Check(c) \/ Subscribe(c)
    \/ Hear(c) \/ WakeUp(c) \/ GiveUp(c)

RetryerNext == MonitorStep \/ \E c \in Callers : CallerStep(c) \/ Cancel(c)

(* A caller runs on, except that its operation need not return; a channel  *)
(* that keeps filling does not hide a cancelled context from the select    *)
(* for ever.                                                               *)
Fairness ==
    /\ MonitorFairness
    /\ \A c \in Callers :
          /\ WF_retryerVars(Begin(c)) /\ WF_retryerVars(Look(c)) /\ WF_retryerVars(Check(c))
          /\ WF_retryerVars(Subscribe(c)) /\ WF_retryerVars(Hear(c)) /\ WF_retryerVars(WakeUp(c))
          /\ WF_retryerVars(GiveUp(c))

RetryerSpec == RetryerInit /\ [][RetryerNext]_retryerVars /\ Fairness
-----------------------------------------------------------------------------
(* WaitForNetwork: a caller that waits while the state is "up", with no    *)
(* news on its way, missed the news between its look and its Subscribe, or *)
(* because its channel was full.  (Then it waits until the network has     *)
(* gone and come back, or until its context is done.)  With the types.     *)
NewsOnItsWay(c) ==
    \/ \E g \in Goroutines : loopAt[g] = "notify" /\ notify[g] /\ hand[g] = "up"
    \/ pc[c] = "waits" /\ \E i \in 1 .. Len(chan[Channel(c)]) :
                              chan[Channel(c)][i] = "up"

WaitsOnlyIfMissed ==
    /\ RetryerTypeOK
    /\ \A c \in Callers : pc[c] \in Waiting /\ state = "up"
                             => NewsOnItsWay(c) \/ missed[c]

(* Do: a caller whose context is done returns, wherever it waits; the      *)
(* operation itself is not interrupted.                                    *)
CancelledReturns == \A c \in Callers :
    ~live[c] /\ pc[c] # "operating" ~> pc[c] \in Ended
=============================================================================
