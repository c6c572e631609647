--------------------------- MODULE ConnectionPool ---------------------------
(***************************************************************************)
(* The pool of vSphere sessions (providers/vsphere/pool.go): callers of    *)
(* Get and Put, the available channel, the connections slice behind p.mu,  *)
(* the health check that logs idle sessions out, and Close.                *)
(*                                                                         *)
(* Get works partly outside p.mu, so its sections are separate actions:    *)
(* take from the channel and look at lastUsed, then claim under the lock.  *)
(* A vSphere session (external) is open from creation to its first Logout. *)
(***************************************************************************)
EXTENDS Naturals, Sequences, FiniteSets

CONSTANTS Clients,         \* goroutines that call Get and Put
          Conns,           \* identities of sessions, a bound on how many are made
          MaxConnections   \* PoolConfig.MaxConnections

ASSUME ConnsFinite == IsFiniteSet(Conns) /\ "none" \notin Conns
ASSUME MaxPositive == MaxConnections \in Nat \ {0}

VARIABLES
    connections, \* the members of p.connections
    available,   \* the p.available channel
    closedChan,  \* close(p.available) was called
    inUse,       \* pooledConnection.inUse
    stale,       \* lastUsed is more than IdleTimeout ago
    created,     \* sessions made so far
    loggedOut,   \* sessions on which Logout was called
    at,          \* where each client is
    conn,        \* the session it has taken, or "none"
    running      \* the health check loop runs

vars == <<connections, available, closedChan, inUse, stale, created, loggedOut,
          at, conn, running>>

Places == {"out", "empty", "popped", "create", "wait", "using", "exhausted", "panic"}

TypeOK ==
    /\ connections \subseteq created /\ created \subseteq Conns
    /\ available \in Seq(created)
    /\ Len(available) <= MaxConnections
    /\ closedChan \in BOOLEAN
    /\ inUse \in [Conns -> BOOLEAN]
    /\ stale \in [Conns -> BOOLEAN]
    /\ loggedOut \subseteq created
    /\ at \in [Clients -> Places]
    /\ conn \in [Clients -> created \cup {"none"}]
    /\ running \in BOOLEAN

Init ==
    /\ connections = {} /\ available = <<>> /\ closedChan = FALSE
    /\ inUse = [k \in Conns |-> FALSE]
    /\ stale = [k \in Conns |-> FALSE]
    /\ created = {} /\ loggedOut = {}
    /\ at = [c \in Clients |-> "out"]
    /\ conn = [c \in Clients |-> "none"]
    /\ running = TRUE

Goto(c, from, to) ==
    /\ at[c] = from
    /\ at' = [at EXCEPT ![c] = to]

Touch(k, used) ==
    /\ inUse' = [inUse EXCEPT ![k] = used]
    /\ stale' = [stale EXCEPT ![k] = FALSE]

-----------------------------------------------------------------------------
(* IdleTimeout passes since the session was last used. *)
GrowStale(k) ==
    /\ k \in created /\ ~stale[k]
    /\ stale' = [stale EXCEPT ![k] = TRUE]
    /\ UNCHANGED <<connections, available, closedChan, inUse, created, loggedOut,
                   at, conn, running>>

(* Mutant: Get looks at the head of the channel without removing it. *)
GetAvailableKeeps(c) ==
    /\ available # <<>>
    /\ LET k == Head(available)
       IN  \/ /\ stale[k]
              /\ loggedOut' = loggedOut \cup {k}
              /\ Goto(c, "out", "create")
              /\ UNCHANGED conn
           \/ /\ ~stale[k]
              /\ conn' = [conn EXCEPT ![c] = k]
              /\ Goto(c, "out", "popped")
              /\ UNCHANGED loggedOut
    /\ UNCHANGED <<connections, available, closedChan, inUse, stale, created, running>>

(* Get, first case of its select: an expired session is logged out and     *)
(* left in p.connections; otherwise it is claimed in the next section.     *)
GetAvailable(c) ==
    /\ available # <<>>
    /\ available' = Tail(available)
    /\ LET k == Head(available)
       IN  \/ /\ stale[k]
              /\ loggedOut' = loggedOut \cup {k}
              /\ Goto(c, "out", "create")
              /\ UNCHANGED conn
           \/ /\ ~stale[k]
              /\ conn' = [conn EXCEPT ![c] = k]
              /\ Goto(c, "out", "popped")
              /\ UNCHANGED loggedOut
    /\ UNCHANGED <<connections, closedChan, inUse, stale, created, running>>

(* Get, default case of its select: nothing in the channel. *)
GetNone(c) ==
    /\ available = <<>> /\ ~closedChan
    /\ Goto(c, "out", "empty")
    /\ UNCHANGED <<connections, available, closedChan, inUse, stale, created,
                   loggedOut, conn, running>>

(* Get, the section under p.mu: create when the slice has room, else wait. *)
Decide(c) ==
    /\ Goto(c, "empty",
            IF Cardinality(connections) < MaxConnections THEN "create" ELSE "wait")
    /\ UNCHANGED <<connections, available, closedChan, inUse, stale, created,
                   loggedOut, conn, running>>

(* Get in its inner select: a session comes back; no expiry check here. *)
WaitAvailable(c) ==
    /\ available # <<>>
    /\ available' = Tail(available)
    /\ conn' = [conn EXCEPT ![c] = Head(available)]
    /\ Goto(c, "wait", "popped")
    /\ UNCHANGED <<connections, closedChan, inUse, stale, created, loggedOut, running>>

(* The caller's context ends while Get selects. *)
WaitCancelled(c) ==
    /\ Goto(c, "wait", "out")
    /\ UNCHANGED <<connections, available, closedChan, inUse, stale, created,
                   loggedOut, conn, running>>

(* A closed and drained channel yields nil, which Get dereferences. *)
GetClosed(c) ==
    /\ available = <<>> /\ closedChan
    /\ \E from \in {"out", "wait"} : Goto(c, from, "panic")
    /\ UNCHANGED <<connections, available, closedChan, inUse, stale, created,
                   loggedOut, conn, running>>

(* Get, the section under p.mu that marks the session in use. *)
Claim(c) ==
    /\ Goto(c, "popped", "using")
    /\ Touch(conn[c], TRUE)
    /\ UNCHANGED <<connections, available, closedChan, created, loggedOut, conn, running>>

(* Mutant: createNewConnection without its second look at the limit. *)
CreateUnchecked(c) ==
    /\ \/ \E k \in Conns \ created :
             /\ Goto(c, "create", "using")
             /\ conn' = [conn EXCEPT ![c] = k]
             /\ created' = created \cup {k}
             /\ connections' = connections \cup {k}
             /\ Touch(k, TRUE)
       \/ /\ Goto(c, "create", "out")
          /\ UNCHANGED <<connections, created, inUse, stale, conn>>
    /\ UNCHANGED <<available, closedChan, loggedOut, running>>

(* createNewConnection: the limit again, then a login that may fail. *)
Create(c) ==
    /\ \/ /\ Cardinality(connections) >= MaxConnections
          /\ Goto(c, "create", "exhausted")
          /\ UNCHANGED <<connections, created, inUse, stale, conn>>
       \/ /\ Cardinality(connections) < MaxConnections
          /\ \E k \in Conns \ created :
                /\ Goto(c, "create", "using")
                /\ conn' = [conn EXCEPT ![c] = k]
                /\ created' = created \cup {k}
                /\ connections' = connections \cup {k}
                /\ Touch(k, TRUE)
       \/ /\ Cardinality(connections) < MaxConnections
          /\ Goto(c, "create", "out")
          /\ UNCHANGED <<connections, created, inUse, stale, conn>>
    /\ UNCHANGED <<available, closedChan, loggedOut, running>>

(* Get returned "connection pool exhausted" to its caller. *)
Refused(c) ==
    /\ Goto(c, "exhausted", "out")
    /\ UNCHANGED <<connections, available, closedChan, inUse, stale, created,
                   loggedOut, conn, running>>

(* Whether Put's non-blocking send succeeds. *)
Room == Len(available) < MaxConnections

(* Put: back into the channel; logged out when the channel is full (and    *)
(* left in p.connections) or when it is not pooled any more.  A send on    *)
(* the closed channel panics.                                              *)
Put(c) ==
    /\ at[c] = "using"
    /\ LET k == conn[c]
       IN  \/ /\ k \in connections
              /\ Touch(k, FALSE)
              /\ \/ /\ closedChan
                    /\ at' = [at EXCEPT ![c] = "panic"]
                    /\ UNCHANGED <<available, loggedOut>>
                 \/ /\ ~closedChan /\ Room
                    /\ available' = Append(available, k)
                    /\ at' = [at EXCEPT ![c] = "out"]
                    /\ UNCHANGED loggedOut
                 \/ /\ ~closedChan /\ ~Room
                    /\ loggedOut' = loggedOut \cup {k}
                    /\ at' = [at EXCEPT ![c] = "out"]
                    /\ UNCHANGED available
           \/ /\ k \notin connections
              /\ loggedOut' = loggedOut \cup {k}
              /\ at' = [at EXCEPT ![c] = "out"]
              /\ UNCHANGED <<available, inUse, stale>>
    /\ conn' = [conn EXCEPT ![c] = "none"]
    /\ UNCHANGED <<connections, closedChan, created, running>>

(* Mutant: the health check does not skip sessions in use. *)
IdleAny == {k \in connections : stale[k]}

(* The sessions performHealthCheck removes. *)
Idle == {k \in connections : ~inUse[k] /\ stale[k]}

(* performHealthCheck: sessions idle too long are logged out and leave the *)
(* slice, but not the channel.                                             *)
HealthCheck ==
    /\ running
    /\ Idle # {}
    /\ connections' = connections \ Idle
    /\ loggedOut' = loggedOut \cup Idle
    /\ UNCHANGED <<available, closedChan, inUse, stale, created, at, conn, running>>

(* Close: the loop stops, then everything in the slice is logged out and   *)
(* the channel is closed.                                                  *)
StopHealthCheck ==
    /\ running
    /\ running' = FALSE
    /\ UNCHANGED <<connections, available, closedChan, inUse, stale, created,
                   loggedOut, at, conn>>

Close ==
    /\ ~running /\ ~closedChan
    /\ loggedOut' = loggedOut \cup connections
    /\ connections' = {}
    /\ closedChan' = TRUE
    /\ UNCHANGED <<available, inUse, stale, created, at, conn, running>>

-----------------------------------------------------------------------------
Acquire(c) == \/ GetAvailable(c) \/ GetNone(c) \/ Decide(c) \/ GetClosed(c)
              \/ WaitAvailable(c) \/ Claim(c) \/ Create(c) \/ Refused(c)

Next == \/ \E c \in Clients : Acquire(c) \/ WaitCancelled(c) \/ Put(c)
        \/ \E k \in Conns : GrowStale(k)
        \/ HealthCheck \/ StopHealthCheck \/ Close

Spec == Init /\ [][Next]_vars

-----------------------------------------------------------------------------
Pooled == {available[i] : i \in DOMAIN available}

(***************************************************************************)
(* A session has one user: it is in the channel once or taken by one       *)
(* client, through expiry, health checks, full channels and Close.         *)
(***************************************************************************)
Exclusive ==
    /\ \A c, d \in Clients : conn[c] = conn[d] => c = d \/ conn[c] = "none"
    /\ \A c \in Clients : conn[c] \notin Pooled
    /\ \A i, j \in DOMAIN available : available[i] = available[j] => i = j

(***************************************************************************)
(* No session leaks: one that was not logged out is in p.connections,      *)
(* where the health check and Close find it, and there are never more of   *)
(* them than MaxConnections, though Get decides outside p.mu.              *)
(***************************************************************************)
SessionsBounded ==
    created \ loggedOut \subseteq connections /\ Cardinality(connections) <= MaxConnections

(***************************************************************************)
(* The in_use count of Stats is right: a pooled session is marked in use   *)
(* exactly while a client works with it.                                   *)
(***************************************************************************)
InUseMatchesClients ==
    \A k \in connections :
        inUse[k] <=> \E c \in Clients : at[c] = "using" /\ conn[c] = k

(***************************************************************************)
(* A session a client works with is not logged out under it by the health  *)
(* check or by another client: only Close does that.                       *)
(***************************************************************************)
NotClosedUnderUser ==
    [][\A c \in Clients :
          /\ at[c] = "using" /\ at'[c] = "using"
          /\ conn[c] \notin loggedOut /\ conn[c] \in loggedOut'
          => closedChan']_vars

(***************************************************************************)
(* Get hands out sessions the health check has logged out, for they stay   *)
(* in the channel ("Check if connection is still valid" asks for their     *)
(* age).  But the pool gives each of them out once: it does not count it   *)
(* any more, so Put will not put it back.                                  *)
(***************************************************************************)
DeadNotReturned ==
    closedChan \/ \A c \in Clients :
        at[c] = "using" /\ conn[c] \in loggedOut => conn[c] \notin connections
=============================================================================
