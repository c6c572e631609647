--------------------------- MODULE NetworkMonitor ---------------------------
(***************************************************************************)
(* The network monitor (network/monitor.go): Start's first check, the      *)
(* goroutine of the ticker and the one of netlink, each of which may call  *)
(* updateState, the listeners that Subscribe adds, and Stop.               *)
(*                                                                         *)
(* updateState writes m.state in one critical section and notifies in      *)
(* another, so two goroutines may write in one order and notify in the     *)
(* other.  The goroutines and Stop are one action per section.  What the   *)
(* hosts answer and what netlink reports (external) is any value.          *)
(***************************************************************************)
EXTENDS Naturals, Sequences, FiniteSets

CONSTANTS Channels,       \* identities of the channels Subscribe makes
          Found,          \* what checkConnectivity returns
          ListenerCap,    \* capacity of a listener channel (10 in the code)
          NotifyOnChange, \* MonitorConfig.NotifyOnChange
          EnableNetlink   \* MonitorConfig.EnableNetlink

States == {"unknown", "up", "degraded", "down"}

ASSUME FoundStates == {"up", "down"} \subseteq Found /\ Found \subseteq States \ {"unknown"}
ASSUME ChannelsFinite == IsFiniteSet(Channels)
ASSUME CapPositive == ListenerCap \in Nat \ {0}
ASSUME Flags == NotifyOnChange \in BOOLEAN /\ EnableNetlink \in BOOLEAN

VARIABLES
    state,     \* m.state
    listeners, \* m.listeners
    chan,      \* what each listener channel holds
    closed,    \* the channels Stop closed
    loopAt,        \* where each goroutine of the monitor is
    hand,      \* the argument of its call of updateState, "down" outside
    notify,    \* its local test: listeners are to be told; FALSE outside
    monCtx,    \* the context given to Start is live
    stop       \* Stop: "no", "waiting" (for m.wg), "returned"

monitorVars == <<state, listeners, chan, closed, loopAt, hand, notify, monCtx, stop>>

(* "start" is the goroutine that calls Start, which runs its own check. *)
Loops == {"ticker", "netlink"}
Goroutines == Loops \cup {"start"}

MonitorTypeOK ==
    /\ state \in Found \cup {"unknown"}
    /\ listeners \subseteq Channels
    /\ chan \in [Channels -> Seq(Found)]
    /\ \A c \in Channels : Len(chan[c]) <= ListenerCap
    /\ closed \subseteq Channels
    /\ loopAt \in [Goroutines -> {"off", "select", "write", "notify", "ended"}]
    /\ hand \in [Goroutines -> Found]
    /\ notify \in [Goroutines -> BOOLEAN]
    /\ monCtx \in BOOLEAN
    /\ stop \in {"no", "waiting", "returned"}

MonitorInit ==
    /\ state = "unknown"
    /\ listeners = {} /\ closed = {}
    /\ chan = [c \in Channels |-> <<>>]
    /\ loopAt = [g \in Goroutines |-> IF g = "start" THEN "select" ELSE "off"]
    /\ hand = [g \in Goroutines |-> "down"]
    /\ notify = [g \in Goroutines |-> FALSE]
    /\ monCtx = TRUE
    /\ stop = "no"

IsUp == state = "up"

-----------------------------------------------------------------------------
(* The call of updateState with v: a tick, or a netlink event about a      *)
(* monitored interface, which means "down" without any check when the      *)
(* interface lost its flag; both may be picked although stopCh is closed.  *)
CallUpdateState(g) ==
    /\ loopAt[g] = "select"
    /\ \E v \in Found : hand' = [hand EXCEPT ![g] = v]
    /\ loopAt' = [loopAt EXCEPT ![g] = "write"]
    /\ UNCHANGED <<state, listeners, chan, closed, notify, monCtx, stop>>

(* Mutant: listeners are told only when the network is lost. *)
WriteStateLoss(g) ==
    /\ loopAt[g] = "write"
    /\ state' = hand[g]
    /\ notify' = [notify EXCEPT ![g] = state = "up" /\ hand[g] # "up"]
    /\ loopAt' = [loopAt EXCEPT ![g] = "notify"]
    /\ UNCHANGED <<listeners, chan, closed, hand, monCtx, stop>>

(* updateState, its first section and the test that follows. *)
WriteState(g) ==
    /\ loopAt[g] = "write"
    /\ state' = hand[g]
    /\ notify' = [notify EXCEPT ![g] = ~NotifyOnChange \/ state # hand[g]]
    /\ loopAt' = [loopAt EXCEPT ![g] = "notify"]
    /\ UNCHANGED <<listeners, chan, closed, hand, monCtx, stop>>

HasRoom(c) == Len(chan[c]) < ListenerCap

(* Where a goroutine goes after updateState: Start spawns the loops. *)
AfterUpdate(g) ==
    IF g = "start"
    THEN [loopAt EXCEPT !["start"] = "ended", !["ticker"] = "select",
                    !["netlink"] = IF EnableNetlink THEN "select" ELSE "off"]
    ELSE [loopAt EXCEPT ![g] = "select"]

(* updateState, its second section: a full channel is skipped. *)
NotifyListeners(g) ==
    /\ loopAt[g] = "notify"
    /\ chan' = [c \in Channels |->
                  IF notify[g] /\ c \in listeners /\ HasRoom(c)
                  THEN Append(chan[c], hand[g]) ELSE chan[c]]
    /\ loopAt' = AfterUpdate(g)
    /\ hand' = [hand EXCEPT ![g] = "down"]
    /\ notify' = [notify EXCEPT ![g] = FALSE]
    /\ UNCHANGED <<state, listeners, closed, monCtx, stop>>

(* A loop returns: its context is done or stopCh is closed. *)
LoopExit(g) ==
    /\ g \in Loops /\ loopAt[g] = "select"
    /\ ~monCtx \/ stop # "no"
    /\ loopAt' = [loopAt EXCEPT ![g] = "ended"]
    /\ UNCHANGED <<state, listeners, chan, closed, hand, notify, monCtx, stop>>

(* monitorNetlinkEvents returns at once when LinkSubscribe fails. *)
NetlinkFails ==
    /\ loopAt["netlink"] = "select"
    /\ loopAt' = [loopAt EXCEPT !["netlink"] = "ended"]
    /\ UNCHANGED <<state, listeners, chan, closed, hand, notify, monCtx, stop>>

(* The context given to Start is cancelled. *)
CancelMonitor ==
    /\ monCtx /\ monCtx' = FALSE
    /\ UNCHANGED <<state, listeners, chan, closed, loopAt, hand, notify, stop>>

(* Stop, once, by whoever started the monitor: close(m.stopCh). *)
Stop ==
    /\ stop = "no" /\ loopAt["start"] = "ended"
    /\ stop' = "waiting"
    /\ UNCHANGED <<state, listeners, chan, closed, loopAt, hand, notify, monCtx>>

(* Stop after m.wg.Wait: the listener channels are closed. *)
StopClose ==
    /\ stop = "waiting"
    /\ \A g \in Loops : loopAt[g] \in {"off", "ended"}
    /\ closed' = closed \cup listeners
    /\ listeners' = {}
    /\ stop' = "returned"
    /\ UNCHANGED <<state, chan, loopAt, hand, notify, monCtx>>

MonitorNext ==
    \/ \E g \in Goroutines : \/ CallUpdateState(g) \/ WriteState(g)
                             \/ NotifyListeners(g) \/ LoopExit(g)
    \/ NetlinkFails \/ CancelMonitor \/ Stop \/ StopClose

(* A goroutine inside updateState runs on (its lock is free in between),   *)
(* a loop whose select has a closed channel picks it sooner or later, and  *)
(* Stop goes on when the WaitGroup lets it.                                *)
MonitorFairness ==
    /\ \A g \in Goroutines : /\ WF_monitorVars(WriteState(g))
                             /\ WF_monitorVars(NotifyListeners(g))
    /\ \A g \in Loops : SF_monitorVars(LoopExit(g))
    /\ WF_monitorVars(StopClose)
=============================================================================
