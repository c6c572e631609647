--------------------------- MODULE ConnectionProofs ---------------------------
(***************************************************************************)
(* Proofs about the pool of vSphere sessions, for any number of clients,   *)
(* sessions and places, and about the retryer with its network monitor,    *)
(* for any number of callers, attempts and channels.                       *)
(*                                                                         *)
(* ConnectionPool. A client holds a session exactly between its receive    *)
(* and its Put (HoldsWhere), and a session that was logged out but is      *)
(* still counted is loose (DeadLoose): neither in the channel nor with a   *)
(* client, so nobody can be handed it again.                               *)
(*                                                                         *)
(* Retryer. WaitsOnlyIfMissed says that a caller waits on a network that   *)
(* is up only if the news passed it by. It needs that who waits is among   *)
(* the listeners until Stop (WaitersHear), that only a caller with an      *)
(* attempt left subscribes, so that a channel is subscribed once           *)
(* (AttemptsLeft), and that no loop of the monitor runs before Start has   *)
(* looked or after Stop has returned (LoopsInOrder).                       *)
(***************************************************************************)
EXTENDS ConnectionPool, Retryer, FiniteSetTheorems, SequenceTheorems, TLAPS

(* The pool of sessions. *)

HoldsWhere == \A c \in Clients : conn[c] # "none" <=> at[c] \in {"popped", "using"}

DeadLoose ==
    closedChan \/ \A k \in loggedOut \cap connections :
        k \notin Pooled /\ \A c \in Clients : conn[c] # k

(* What every step keeps. *)
PoolInv ==
    /\ TypeOK /\ HoldsWhere /\ Exclusive /\ SessionsBounded
    /\ InUseMatchesClients /\ DeadLoose

-----------------------------------------------------------------------------
(* What receiving from a channel of distinct sessions does to Pooled. *)
LEMMA Receive ==
    ASSUME NEW S, NEW q \in Seq(S), q # <<>>,
           \A i, j \in DOMAIN q : q[i] = q[j] => i = j
    PROVE  /\ Head(q) \in S /\ Head(q) \in {q[i] : i \in DOMAIN q}
           /\ {Tail(q)[i] : i \in DOMAIN Tail(q)} \subseteq {q[i] : i \in DOMAIN q}
           /\ Head(q) \notin {Tail(q)[i] : i \in DOMAIN Tail(q)}
           /\ \A i, j \in DOMAIN Tail(q) : Tail(q)[i] = Tail(q)[j] => i = j
           /\ Tail(q) \in Seq(S) /\ Len(Tail(q)) = Len(q) - 1
<1>1. /\ Len(q) \in Nat /\ Len(q) > 0 /\ DOMAIN q = 1 .. Len(q)
      /\ Head(q) = q[1] /\ q[1] \in S
  OBVIOUS
<1>2. /\ Tail(q) \in Seq(S) /\ Len(Tail(q)) = Len(q) - 1
      /\ DOMAIN Tail(q) = 1 .. Len(q) - 1
      /\ \A i \in 1 .. Len(q) - 1 : Tail(q)[i] = q[i + 1]
  OBVIOUS
<1>3. \A i \in 1 .. Len(q) - 1 : i + 1 \in 1 .. Len(q) /\ i + 1 # 1
  BY <1>1
<1>4. \A i, j \in 1 .. Len(q) - 1 : i + 1 = j + 1 => i = j
  BY <1>1
<1> QED BY <1>1, <1>2, <1>3, <1>4

(* What sending another session does to it. *)
LEMMA SendOne ==
    ASSUME NEW S, NEW q \in Seq(S), NEW k \in S, k \notin {q[i] : i \in DOMAIN q},
           \A i, j \in DOMAIN q : q[i] = q[j] => i = j
    PROVE  /\ Append(q, k) \in Seq(S) /\ Len(Append(q, k)) = Len(q) + 1
           /\ {Append(q, k)[i] : i \in DOMAIN Append(q, k)}
                  = {q[i] : i \in DOMAIN q} \cup {k}
           /\ \A i, j \in DOMAIN Append(q, k) :
                  Append(q, k)[i] = Append(q, k)[j] => i = j
<1>1. Len(q) \in Nat /\ DOMAIN q = 1 .. Len(q)
  OBVIOUS
<1>2. /\ Append(q, k) \in Seq(S) /\ Len(Append(q, k)) = Len(q) + 1
      /\ DOMAIN Append(q, k) = 1 .. Len(q) + 1
      /\ \A i \in 1 .. Len(q) : Append(q, k)[i] = q[i]
      /\ Append(q, k)[Len(q) + 1] = k
  OBVIOUS
<1>3. \A i \in 1 .. Len(q) + 1 : i \in 1 .. Len(q) \/ i = Len(q) + 1
  BY <1>1
<1>4. \A i \in 1 .. Len(q) : i \in 1 .. Len(q) + 1
  BY <1>1
<1>5. Len(q) + 1 \in 1 .. Len(q) + 1
  BY <1>1
<1> QED BY <1>1, <1>2, <1>3, <1>4, <1>5

(* A sequence of old sessions is one of old and new ones. *)
LEMMA SeqGrows ==
    ASSUME NEW S, NEW U, S \subseteq U, NEW q \in Seq(S)
    PROVE  q \in Seq(U)
OBVIOUS

(* The sessions counted are finitely many. *)
LEMMA Finite ==
    ASSUME TypeOK
    PROVE  IsFiniteSet(connections) /\ Cardinality(connections) \in Nat
<1>1. connections \subseteq Conns BY DEF TypeOK
<1> QED BY <1>1, ConnsFinite, FS_Subset, FS_CardinalityType

(* The initial state satisfies the invariant: there is no session. *)
LEMMA PoolInvInit == Init => PoolInv
<1> SUFFICES ASSUME Init PROVE PoolInv
  OBVIOUS
<1>1. TypeOK
  <2>1. inUse \in [Conns -> BOOLEAN] /\ stale \in [Conns -> BOOLEAN]
    BY DEF Init
  <2>2. available \in Seq(created) /\ Len(available) <= MaxConnections
    BY MaxPositive DEF Init
  <2> QED BY <2>1, <2>2 DEF Init, TypeOK, Places
<1>2. SessionsBounded BY FS_EmptySet, MaxPositive DEF Init, SessionsBounded
<1>3. Pooled = {} BY DEF Init, Pooled
<1>4. Exclusive BY <1>3 DEF Init, Exclusive
<1> QED BY <1>1, <1>2, <1>4 DEF Init, PoolInv, HoldsWhere, InUseMatchesClients, DeadLoose

-----------------------------------------------------------------------------
(* Steps, in groups by what they touch.  A client that moves between       *)
(* places where it holds nothing, and time that passes.                    *)
Moves(c) ==
    /\ \E from, to \in Places \ {"popped", "using"} : Goto(c, from, to)
    /\ UNCHANGED <<connections, available, closedChan, inUse, stale, created,
                   loggedOut, conn>>

(* Such steps preserve the invariant. *)
LEMMA StepMoves ==
    ASSUME PoolInv,
           \/ \E c \in Clients : Moves(c)
           \/ \E k \in Conns : GrowStale(k)
           \/ StopHealthCheck \/ UNCHANGED vars,
           running' \in BOOLEAN
    PROVE  PoolInv'
<1> USE DEF PoolInv
<1>1. /\ at' \in [Clients -> Places] /\ stale' \in [Conns -> BOOLEAN]
      /\ \A c \in Clients : at'[c] = at[c] \/ {at[c], at'[c]} \cap {"popped", "using"} = {}
      /\ UNCHANGED <<connections, available, closedChan, inUse, created, loggedOut, conn>>
  <2>1. CASE \E c \in Clients : Moves(c) BY <2>1 DEF Moves, Goto, TypeOK
  <2>2. CASE \E k \in Conns : GrowStale(k) BY <2>2 DEF GrowStale, TypeOK
  <2>3. CASE StopHealthCheck \/ UNCHANGED vars
    BY <2>3 DEF StopHealthCheck, vars, TypeOK
  <2> QED BY <2>1, <2>2, <2>3
<1>2. TypeOK' BY <1>1 DEF TypeOK
<1>3. HoldsWhere' /\ InUseMatchesClients'
  <2>1. \A c \in Clients : at'[c] = "using" <=> at[c] = "using" BY <1>1
  <2>2. \A c \in Clients :
            at'[c] \in {"popped", "using"} <=> at[c] \in {"popped", "using"}
    BY <1>1
  <2> QED BY <1>1, <2>1, <2>2 DEF HoldsWhere, InUseMatchesClients
<1>4. Pooled' = Pooled BY <1>1 DEF Pooled
<1>5. Exclusive' /\ DeadLoose' /\ SessionsBounded'
  BY <1>1, <1>4 DEF Exclusive, DeadLoose, SessionsBounded
<1> QED BY <1>2, <1>3, <1>5

(* A receive from the channel by a client that holds nothing: it keeps the *)
(* session, or logs it out and forgets it.                                 *)
LEMMA StepReceive ==
    ASSUME PoolInv, NEW c \in Clients, GetAvailable(c) \/ WaitAvailable(c)
    PROVE  PoolInv'
<1> DEFINE k == Head(available)
<1> USE DEF PoolInv
<1>1. /\ available # <<>> /\ available' = Tail(available)
      /\ conn[c] = "none" /\ at[c] \in {"out", "wait"}
      /\ \/ /\ loggedOut' = loggedOut \cup {k} /\ conn' = conn
            /\ at' = [at EXCEPT ![c] = "create"]
         \/ /\ loggedOut' = loggedOut /\ conn' = [conn EXCEPT ![c] = k]
            /\ at' = [at EXCEPT ![c] = "popped"]
      /\ UNCHANGED <<connections, closedChan, inUse, stale, created, running>>
  BY DEF GetAvailable, WaitAvailable, Goto, HoldsWhere
<1>2. /\ k \in created /\ k \in Pooled /\ k \notin Pooled' /\ Pooled' \subseteq Pooled
      /\ \A i, j \in DOMAIN available' : available'[i] = available'[j] => i = j
      /\ available' \in Seq(created) /\ Len(available') = Len(available) - 1
  BY <1>1, Receive DEF TypeOK, Exclusive, Pooled
<1>3. k # "none" BY <1>2, ConnsFinite DEF TypeOK
<1>4. Len(available) \in Nat BY DEF TypeOK
<1>5. \A d \in Clients : conn[d] # k BY <1>2 DEF Exclusive
<1> HIDE DEF k
<1>6. TypeOK'
  BY <1>1, <1>2, <1>4, MaxPositive DEF TypeOK, Places
<1>7. HoldsWhere' BY <1>1, <1>3 DEF HoldsWhere, TypeOK
<1>8. Exclusive' BY <1>1, <1>2, <1>5 DEF Exclusive, TypeOK
<1>9. SessionsBounded' BY <1>1 DEF SessionsBounded
<1>10. InUseMatchesClients'
  <2>1. \A d \in Clients : /\ at'[d] = "using" <=> at[d] = "using"
                           /\ at[d] = "using" => conn'[d] = conn[d]
    BY <1>1 DEF TypeOK
  <2> QED BY <1>1, <2>1 DEF InUseMatchesClients
<1>11. DeadLoose' BY <1>1, <1>2, <1>5 DEF DeadLoose, TypeOK
<1> QED BY <1>6, <1>7, <1>8, <1>9, <1>10, <1>11

(* The section of Get that marks the session in use. *)
LEMMA StepClaim ==
    ASSUME PoolInv, NEW c \in Clients, Claim(c)
    PROVE  PoolInv'
<1> USE DEF PoolInv
<1>1. /\ at[c] = "popped" /\ at' = [at EXCEPT ![c] = "using"]
      /\ inUse' = [inUse EXCEPT ![conn[c]] = TRUE]
      /\ stale' = [stale EXCEPT ![conn[c]] = FALSE]
      /\ UNCHANGED <<connections, available, closedChan, created, loggedOut, conn, running>>
  BY DEF Claim, Goto, Touch
<1>2. TypeOK'
  <2>1. inUse' \in [Conns -> BOOLEAN] /\ stale' \in [Conns -> BOOLEAN]
    BY <1>1 DEF TypeOK
  <2> QED BY <1>1, <2>1 DEF TypeOK, Places
<1>3. HoldsWhere' BY <1>1 DEF HoldsWhere, TypeOK
<1>4. Pooled' = Pooled BY <1>1 DEF Pooled
<1>5. Exclusive' /\ SessionsBounded' /\ DeadLoose'
  BY <1>1, <1>4 DEF Exclusive, SessionsBounded, DeadLoose
<1>6. InUseMatchesClients'
  <2> SUFFICES ASSUME NEW k \in connections
               PROVE  inUse'[k] <=> \E d \in Clients : at'[d] = "using" /\ conn[d] = k
    BY <1>1 DEF InUseMatchesClients
  <2>1. k \in Conns BY DEF TypeOK
  <2>2. CASE k = conn[c]
    BY <1>1, <2>1, <2>2 DEF TypeOK
  <2>3. CASE k # conn[c]
    <3>1. inUse'[k] = inUse[k] BY <1>1, <2>1, <2>3 DEF TypeOK
    <3>2. \A d \in Clients : conn[d] = k => (at'[d] = "using" <=> at[d] = "using")
      BY <1>1, <2>3 DEF TypeOK
    <3> QED BY <3>1, <3>2 DEF InUseMatchesClients
  <2> QED BY <2>2, <2>3
<1> QED BY <1>2, <1>3, <1>5, <1>6

(* createNewConnection that succeeds: a session nobody knows. *)
LEMMA StepCreate ==
    ASSUME PoolInv, NEW c \in Clients, NEW k \in Conns \ created,
           Cardinality(connections) < MaxConnections,
           Goto(c, "create", "using"), Touch(k, TRUE),
           conn' = [conn EXCEPT ![c] = k],
           created' = created \cup {k}, connections' = connections \cup {k},
           UNCHANGED <<available, closedChan, loggedOut, running>>
    PROVE  PoolInv'
<1> USE DEF PoolInv, Goto, Touch
<1>1. /\ k \notin connections /\ k \notin loggedOut /\ k # "none"
      /\ \A d \in Clients : conn[d] # k
    BY ConnsFinite DEF TypeOK
<1>2. k \notin Pooled /\ Pooled' = Pooled
  BY DEF TypeOK, Pooled
<1>3. TypeOK'
  <2>1. inUse' \in [Conns -> BOOLEAN] /\ stale' \in [Conns -> BOOLEAN]
    BY DEF TypeOK
  <2>2. available' \in Seq(created') BY SeqGrows DEF TypeOK
  <2> QED BY <2>1, <2>2 DEF TypeOK, Places
<1>4. HoldsWhere' BY <1>1 DEF HoldsWhere, TypeOK
<1>5. Exclusive' BY <1>1, <1>2 DEF Exclusive, TypeOK
<1>6. SessionsBounded'
  <2>1. Cardinality(connections') = Cardinality(connections) + 1
    BY <1>1, Finite, FS_AddElement
  <2> QED BY <2>1, Finite, MaxPositive DEF SessionsBounded
<1>7. InUseMatchesClients'
  <2> SUFFICES ASSUME NEW x \in connections'
               PROVE  inUse'[x] <=> \E d \in Clients : at'[d] = "using" /\ conn'[d] = x
    BY DEF InUseMatchesClients
  <2>1. CASE x = k
    <3>1. inUse'[x] BY <2>1 DEF TypeOK
    <3>2. at'[c] = "using" /\ conn'[c] = x BY <2>1 DEF TypeOK
    <3> QED BY <3>1, <3>2
  <2>2. CASE x # k
    <3>1. x \in connections /\ inUse'[x] = inUse[x] BY <2>2 DEF TypeOK
    <3>2. \A d \in Clients : (at'[d] = "using" /\ conn'[d] = x)
                                <=> (at[d] = "using" /\ conn[d] = x)
      BY <2>2, <1>1 DEF TypeOK
    <3> QED BY <3>1, <3>2 DEF InUseMatchesClients
  <2> QED BY <2>1, <2>2
<1>8. DeadLoose' BY <1>1, <1>2 DEF DeadLoose, TypeOK
<1> QED BY <1>3, <1>4, <1>5, <1>6, <1>7, <1>8

(* Put, whatever becomes of the session. *)
LEMMA StepPut ==
    ASSUME PoolInv, NEW c \in Clients, Put(c)
    PROVE  PoolInv'
<1> DEFINE k == conn[c]
<1> USE DEF PoolInv
<1>1. /\ at[c] = "using" /\ k # "none" /\ k \in created
      /\ k \notin Pooled /\ \A d \in Clients \ {c} : conn[d] # k
      /\ conn' = [conn EXCEPT ![c] = "none"]
      /\ \E p \in {"out", "panic"} : at' = [at EXCEPT ![c] = p]
      /\ loggedOut' \in {loggedOut, loggedOut \cup {k}}
      /\ UNCHANGED <<connections, closedChan, created, running>>
  BY DEF Put, TypeOK, HoldsWhere, Exclusive
<1>2. /\ available' \in Seq(created) /\ Len(available') <= MaxConnections
      /\ \A i, j \in DOMAIN available' : available'[i] = available'[j] => i = j
      /\ \/ Pooled' = Pooled
         \/ Pooled' = Pooled \cup {k} /\ loggedOut' = loggedOut /\ k \in connections
  <2>1. CASE available' = available
    BY <2>1 DEF TypeOK, Exclusive, Pooled
  <2>2. CASE /\ available' = Append(available, k) /\ Room
             /\ loggedOut' = loggedOut /\ k \in connections
    <3>1. /\ available \in Seq(created) /\ k \in created
          /\ k \notin {available[i] : i \in DOMAIN available}
          /\ \A i, j \in DOMAIN available : available[i] = available[j] => i = j
      BY <1>1 DEF TypeOK, Exclusive, Pooled
    <3>2. /\ available' \in Seq(created) /\ Len(available') = Len(available) + 1
          /\ Pooled' = Pooled \cup {k}
          /\ \A i, j \in DOMAIN available' : available'[i] = available'[j] => i = j
      BY <2>2, <3>1, SendOne DEF Pooled
    <3>3. Len(available') <= MaxConnections
      BY <2>2, <3>1, <3>2, MaxPositive DEF Room
    <3> QED BY <2>2, <3>2, <3>3
  <2> QED BY <2>1, <2>2 DEF Put
<1>3. \/ /\ k \in connections
         /\ inUse' = [inUse EXCEPT ![k] = FALSE] /\ stale' = [stale EXCEPT ![k] = FALSE]
      \/ k \notin connections /\ UNCHANGED <<inUse, stale>>
  BY DEF Put, Touch
<1> HIDE DEF k
<1>4. TypeOK'
  <2>1. inUse' \in [Conns -> BOOLEAN] /\ stale' \in [Conns -> BOOLEAN]
    BY <1>3 DEF TypeOK
  <2>2. conn' \in [Clients -> created \cup {"none"}] BY <1>1 DEF TypeOK
  <2>3. at' \in [Clients -> Places] BY <1>1 DEF TypeOK, Places
  <2> QED BY <1>1, <1>2, <2>1, <2>2, <2>3 DEF TypeOK
<1>5. HoldsWhere' BY <1>1 DEF HoldsWhere, TypeOK
<1>6. Exclusive'
  <2>1. \A d \in Clients : conn'[d] = "none" \/ (d # c /\ conn'[d] = conn[d])
    BY <1>1 DEF TypeOK
  <2>2. "none" \notin created BY ConnsFinite DEF TypeOK
  <2>3. Pooled' \subseteq created BY <1>2, <1>1 DEF Pooled, TypeOK
  <2>4. \A d \in Clients : conn'[d] \notin Pooled'
    BY <1>1, <1>2, <2>1, <2>2, <2>3 DEF Exclusive
  <2> QED BY <1>2, <2>1, <2>4 DEF Exclusive
<1>7. SessionsBounded' BY <1>1 DEF SessionsBounded
<1>8. InUseMatchesClients'
  <2> SUFFICES ASSUME NEW x \in connections
               PROVE  inUse'[x] <=> \E d \in Clients : at'[d] = "using" /\ conn'[d] = x
    BY <1>1 DEF InUseMatchesClients
  <2>1. x \in Conns BY DEF TypeOK
  <2>2. CASE x = k
    <3>1. ~inUse'[x] BY <1>3, <2>1, <2>2 DEF TypeOK
    <3>2. \A d \in Clients : conn'[d] # x BY <1>1, <2>2 DEF TypeOK
    <3> QED BY <3>1, <3>2
  <2>3. CASE x # k
    <3>1. inUse'[x] = inUse[x] BY <1>3, <2>1, <2>3 DEF TypeOK
    <3>2. \A d \in Clients : (at'[d] = "using" /\ conn'[d] = x)
                                <=> (at[d] = "using" /\ conn[d] = x)
      <4>1. at'[c] # "using" /\ conn[c] # x BY <1>1, <2>3 DEF TypeOK, k
      <4>2. \A d \in Clients \ {c} : at'[d] = at[d] /\ conn'[d] = conn[d]
        BY <1>1 DEF TypeOK
      <4> QED BY <4>1, <4>2
    <3> QED BY <3>1, <3>2 DEF InUseMatchesClients
  <2> QED BY <2>2, <2>3
<1>9. DeadLoose'
  <2> SUFFICES ASSUME ~closedChan, NEW x \in loggedOut' \cap connections
               PROVE  x \notin Pooled' /\ \A d \in Clients : conn'[d] # x
    BY <1>1 DEF DeadLoose
  <2>1. x # "none" BY ConnsFinite DEF TypeOK
  <2>2. CASE x = k
    <3>1. \A d \in Clients : conn'[d] # x BY <1>1, <2>1, <2>2 DEF TypeOK
    <3>2. k \in connections => k \notin loggedOut BY DEF DeadLoose, k
    <3> QED BY <1>1, <1>2, <2>2, <3>1, <3>2
  <2>3. CASE x # k
    <3>1. x \in loggedOut BY <1>1, <2>3
    <3>2. \A d \in Clients : conn'[d] \in {conn[d], "none"} BY <1>1 DEF TypeOK
    <3> QED BY <1>2, <2>1, <2>3, <3>1, <3>2 DEF DeadLoose
  <2> QED BY <2>2, <2>3
<1> QED BY <1>4, <1>5, <1>6, <1>7, <1>8, <1>9

(* The health check and Close take sessions out of the slice. *)
LEMMA StepLogOut ==
    ASSUME PoolInv, HealthCheck \/ Close
    PROVE  PoolInv'
<1> USE DEF PoolInv
<1>1. /\ connections' \subseteq connections
      /\ loggedOut' = loggedOut \cup (connections \ connections')
      /\ closedChan' \in BOOLEAN /\ (closedChan => closedChan')
      /\ UNCHANGED <<available, inUse, stale, created, at, conn, running>>
  BY DEF HealthCheck, Close, Idle, TypeOK
<1>2. TypeOK' BY <1>1 DEF TypeOK
<1>3. HoldsWhere' BY <1>1 DEF HoldsWhere
<1>4. Pooled' = Pooled BY <1>1 DEF Pooled
<1>5. Exclusive' BY <1>1, <1>4 DEF Exclusive
<1>6. SessionsBounded'
  <2>1. /\ Cardinality(connections') <= Cardinality(connections)
        /\ Cardinality(connections') \in Nat
    BY <1>1, Finite, FS_Subset, FS_CardinalityType
  <2> QED BY <1>1, <2>1, Finite, MaxPositive DEF SessionsBounded
<1>7. InUseMatchesClients' BY <1>1 DEF InUseMatchesClients
<1>8. DeadLoose' BY <1>1, <1>4 DEF DeadLoose
<1> QED BY <1>2, <1>3, <1>5, <1>6, <1>7, <1>8

(* Every step preserves the invariant. *)
LEMMA StepInv == PoolInv /\ [Next]_vars => PoolInv'
<1> SUFFICES ASSUME PoolInv, [Next]_vars PROVE PoolInv'
  OBVIOUS
<1>0. running \in BOOLEAN BY DEF PoolInv, TypeOK
<1>1. ASSUME NEW c \in Clients, Acquire(c) \/ WaitCancelled(c) PROVE PoolInv'
  <2>1. CASE GetAvailable(c) \/ WaitAvailable(c) BY <2>1, StepReceive
  <2>2. CASE Claim(c) BY <2>2, StepClaim
  <2>3. CASE GetNone(c) \/ Decide(c) \/ GetClosed(c) \/ Refused(c) \/ WaitCancelled(c)
    <3>1. Moves(c) /\ running' = running
      BY <2>3 DEF GetNone, Decide, GetClosed, Refused, WaitCancelled, Moves, Goto, Places
    <3> QED BY <1>0, <3>1, StepMoves
  <2>4. CASE Create(c)
    <3>1. CASE \E k \in Conns \ created :
                 /\ Cardinality(connections) < MaxConnections
                 /\ Goto(c, "create", "using") /\ Touch(k, TRUE)
                 /\ conn' = [conn EXCEPT ![c] = k]
                 /\ created' = created \cup {k} /\ connections' = connections \cup {k}
      BY <2>4, <3>1, StepCreate DEF Create
    <3>2. CASE Moves(c) /\ running' = running
      BY <1>0, <3>2, StepMoves
    <3> QED BY <2>4, <3>1, <3>2 DEF Create, Moves, Goto, Places
  <2> QED BY <1>1, <2>1, <2>2, <2>3, <2>4 DEF Acquire
<1>2. ASSUME NEW c \in Clients, Put(c) PROVE PoolInv'
  BY <1>2, StepPut
<1>3. ASSUME NEW k \in Conns, GrowStale(k) PROVE PoolInv'
  BY <1>0, <1>3, StepMoves DEF GrowStale
<1>4. CASE HealthCheck \/ Close BY <1>4, StepLogOut
<1>5. CASE StopHealthCheck
  BY <1>5, StepMoves DEF StopHealthCheck
<1>6. CASE UNCHANGED vars
  BY <1>0, <1>6, StepMoves DEF vars
<1> QED BY <1>1, <1>2, <1>3, <1>4, <1>5, <1>6 DEF Next

-----------------------------------------------------------------------------
(* The invariant holds for any clients, sessions and places. *)
THEOREM PoolInvAlways == Spec => []PoolInv
BY PoolInvInit, StepInv, PTL DEF Spec

(* TypeOK: the channel never holds more than MaxConnections sessions. *)
THEOREM PoolTypesSafe == Spec => []TypeOK
<1>1. PoolInv => TypeOK BY DEF PoolInv
<1> QED BY <1>1, PoolInvAlways, PTL

(* Exclusive: Get never gives one session to two callers. *)
THEOREM ExclusiveSafe == Spec => []Exclusive
<1>1. PoolInv => Exclusive BY DEF PoolInv
<1> QED BY <1>1, PoolInvAlways, PTL

(* SessionsBounded: createNewConnection, performHealthCheck and Close      *)
(* neither leak a session nor exceed the limit.                            *)
THEOREM BoundedSafe == Spec => []SessionsBounded
<1>1. PoolInv => SessionsBounded BY DEF PoolInv
<1> QED BY <1>1, PoolInvAlways, PTL

(* InUseMatchesClients: what Stats reports as in use is in use. *)
THEOREM InUseSafe == Spec => []InUseMatchesClients
<1>1. PoolInv => InUseMatchesClients BY DEF PoolInv
<1> QED BY <1>1, PoolInvAlways, PTL

(* DeadNotReturned: Put takes back no session that was logged out. *)
THEOREM DeadSafe == Spec => []DeadNotReturned
<1>1. PoolInv => DeadNotReturned BY DEF PoolInv, DeadLoose, DeadNotReturned
<1> QED BY <1>1, PoolInvAlways, PTL

(* NotClosedUnderUser: but for Close, nobody logs out a session in use.    *)
THEOREM NotClosedSafe == Spec => NotClosedUnderUser
<1> DEFINE NotClosed ==
        \A c \in Clients :
          /\ at[c] = "using" /\ at'[c] = "using"
          /\ conn[c] \notin loggedOut /\ conn[c] \in loggedOut'
          => closedChan'
<1>1. PoolInv /\ [Next]_vars => [NotClosed]_vars
  <2> SUFFICES ASSUME PoolInv, Next, NEW c \in Clients,
                      at[c] = "using", at'[c] = "using",
                      conn[c] \notin loggedOut, conn[c] \in loggedOut', ~closedChan'
               PROVE  FALSE
    OBVIOUS
  <2>1. conn[c] # "none" /\ conn[c] \in created /\ conn[c] \notin Pooled
    BY DEF PoolInv, HoldsWhere, TypeOK, Exclusive
  <2>2. ASSUME NEW d \in Clients, Acquire(d) \/ WaitCancelled(d) PROVE FALSE
    <3>1. loggedOut' \subseteq loggedOut \cup Pooled
      <4>1. available # <<>> => Head(available) \in Pooled
        BY Receive DEF PoolInv, TypeOK, Exclusive, Pooled
      <4> QED BY <2>2, <4>1 DEF Acquire, GetAvailable, GetNone, Decide, GetClosed,
               WaitAvailable, Claim, Create, Refused, WaitCancelled
    <3> QED BY <2>1, <3>1
  <2>3. ASSUME NEW d \in Clients, Put(d) PROVE FALSE
    <3>1. d # c BY <2>3 DEF Put, PoolInv, TypeOK
    <3>2. loggedOut' \subseteq loggedOut \cup {conn[d]} BY <2>3 DEF Put
    <3> QED BY <2>1, <3>1, <3>2 DEF PoolInv, Exclusive
  <2>4. CASE HealthCheck
    <3>1. conn[c] \in Idle BY <2>4 DEF HealthCheck
    <3> QED BY <3>1 DEF Idle, PoolInv, InUseMatchesClients
  <2>5. CASE Close BY <2>5 DEF Close
  <2>6. CASE StopHealthCheck \/ \E k \in Conns : GrowStale(k)
    BY <2>6 DEF StopHealthCheck, GrowStale
  <2> QED BY <2>2, <2>3, <2>4, <2>5, <2>6 DEF Next
<1> QED BY <1>1, PoolInvAlways, PTL DEF Spec, NotClosedUnderUser

-----------------------------------------------------------------------------
(* The retryer and the network monitor. *)

(* Where a caller has another attempt left. *)
Between == Waiting \cup {"looks", "checks", "sleeping"}

(* Who waits for an attempt has one left. *)
AttemptsLeft == \A c \in Callers : pc[c] \in Between => attempt[c] < MaxAttempts

(* A caller that waits hears the monitor until Stop has closed it. *)
WaitersHear == \A c \in Callers :
    pc[c] = "waits" => Channel(c) \in listeners \/ stop = "returned"

(* Start's own check comes before the loops, the loops before Stop, and    *)
(* Stop returns when they have ended.                                      *)
LoopsInOrder ==
    /\ loopAt["start"] # "off"
    /\ loopAt["start"] # "ended" => \A g \in Loops : loopAt[g] = "off"
    /\ stop # "no" => loopAt["start"] = "ended"
    /\ stop = "returned" => \A g \in Loops : loopAt[g] \in {"off", "ended"}

(* What every step keeps, the property among it. *)
RetryerInv == WaitsOnlyIfMissed /\ AttemptsLeft /\ WaitersHear /\ LoopsInOrder
-----------------------------------------------------------------------------
(* Every attempt of every caller has a channel. *)
LEMMA ChannelsTyped ==
  RetryerTypeOK => \A c \in Callers : Channel(c) \in Channels
BY ChannelNames DEF RetryerTypeOK, Channel

(* The monitor's types and the order of its loops. *)
LEMMA MonitorTypeStep ==
  ASSUME MonitorTypeOK, LoopsInOrder, MonitorNext
  PROVE  MonitorTypeOK' /\ LoopsInOrder'
<1> USE FoundStates, CapPositive DEF MonitorTypeOK, LoopsInOrder, Goroutines, Loops
<1>1. ASSUME NEW g \in Goroutines, CallUpdateState(g) PROVE MonitorTypeOK' /\ LoopsInOrder'
  BY <1>1 DEF CallUpdateState
<1>2. ASSUME NEW g \in Goroutines, WriteState(g) PROVE MonitorTypeOK' /\ LoopsInOrder'
  BY <1>2 DEF WriteState
<1>3. ASSUME NEW g \in Goroutines, NotifyListeners(g) PROVE MonitorTypeOK' /\ LoopsInOrder'
  <2>1. \A c \in Channels : /\ chan'[c] \in Seq(Found)
                            /\ Len(chan'[c]) <= ListenerCap
    BY <1>3 DEF NotifyListeners, HasRoom
  <2>2. chan' \in [Channels -> Seq(Found)]
    BY <1>3, <2>1 DEF NotifyListeners
  <2>3. /\ loopAt' \in [Goroutines -> {"off", "select", "write", "notify", "ended"}]
        /\ LoopsInOrder'
    BY <1>3 DEF NotifyListeners, AfterUpdate
  <2>4. hand' \in [Goroutines -> Found] /\ notify' \in [Goroutines -> BOOLEAN]
    BY <1>3 DEF NotifyListeners
  <2> QED BY <1>3, <2>1, <2>2, <2>3, <2>4 DEF NotifyListeners
<1>4. ASSUME NEW g \in Goroutines, LoopExit(g) PROVE MonitorTypeOK' /\ LoopsInOrder'
  BY <1>4 DEF LoopExit
<1>5. CASE NetlinkFails \/ CancelMonitor
  BY <1>5 DEF NetlinkFails, CancelMonitor
<1>6. CASE Stop \/ StopClose
  BY <1>6 DEF Stop, StopClose
<1> QED BY <1>1, <1>2, <1>3, <1>4, <1>5, <1>6 DEF MonitorNext

(* The news on its way to a caller, or the reason why it has none. *)
Informed(c) == NewsOnItsWay(c) \/ missed[c]

(* A goroutine that is told to notify goes on to do so whatever the others *)
(* do, and "up" comes with a goroutine that will.                          *)
LEMMA MonitorInforms ==
  ASSUME RetryerTypeOK, LoopsInOrder, WaitersHear, MonitorStep,
         NEW c \in Callers, pc[c] \in Waiting, state' = "up",
         state = "up" => Informed(c)
  PROVE  Informed(c)'
<1> USE DEF Goroutines, Loops
<1>t. MonitorTypeOK /\ ListenerCap \in Nat /\ Channel(c) \in Channels
  BY CapPositive, ChannelsTyped DEF RetryerTypeOK
<1>u. Channel(c)' = Channel(c) /\ pc' = pc /\ (missed[c] => missed'[c])
  BY DEF MonitorStep, Channel
(* A step that keeps the goroutines that notify, the channels and pc. *)
<1>a. ASSUME state = "up", chan' = chan,
             \A g \in Goroutines : loopAt[g] = "notify" =>
                loopAt'[g] = "notify" /\ notify'[g] = notify[g] /\ hand'[g] = hand[g]
      PROVE  Informed(c)'
  BY <1>a, <1>u DEF Informed, NewsOnItsWay
<1>1. ASSUME NEW g \in Goroutines, CallUpdateState(g) PROVE Informed(c)'
  BY <1>a, <1>1, <1>t DEF CallUpdateState, MonitorTypeOK
<1>2. ASSUME NEW g \in Goroutines, WriteState(g) PROVE Informed(c)'
  <2>1. CASE state = "up"
    BY <1>a, <1>2, <1>t, <2>1 DEF WriteState, MonitorTypeOK
  <2>2. CASE state # "up"
    <3>1. loopAt'[g] = "notify" /\ notify'[g] /\ hand'[g] = "up"
      BY <1>2, <1>t, <2>2 DEF WriteState, MonitorTypeOK
    <3> QED BY <3>1 DEF Informed, NewsOnItsWay
  <2> QED BY <2>1, <2>2
<1>3. ASSUME NEW g \in Goroutines, NotifyListeners(g) PROVE Informed(c)'
  <2>1. state = "up" /\ loopAt[g] = "notify" /\ loopAt'[g] # "notify"
    BY <1>3, <1>t DEF NotifyListeners, AfterUpdate, MonitorTypeOK
  <2>2. CASE missed[c]
    BY <1>u, <2>2 DEF Informed
  <2>3. ASSUME NEW h \in Goroutines, loopAt[h] = "notify", notify[h], hand[h] = "up", h # g
        PROVE  Informed(c)'
    <3>1. g # "start" /\ h # "start"
      BY <2>1, <2>3 DEF LoopsInOrder
    <3>2. loopAt'[h] = "notify" /\ notify'[h] /\ hand'[h] = "up"
      BY <1>3, <1>t, <2>3, <3>1 DEF NotifyListeners, AfterUpdate, MonitorTypeOK
    <3> QED BY <3>2 DEF Informed, NewsOnItsWay
  <2>4. CASE notify[g] /\ hand[g] = "up"
    <3>1. TellsUp
      BY <2>1, <2>4 DEF TellsUp
    <3>2. CASE pc[c] = "subscribes" \/ ~HasRoom(Channel(c))
      <4>1. missed'[c]
        BY <3>1, <3>2 DEF MonitorStep, Waiting
      <4> QED BY <4>1 DEF Informed
    <3>3. CASE pc[c] = "waits" /\ HasRoom(Channel(c))
      <4>1. Channel(c) \in listeners
        BY <2>1, <3>3 DEF WaitersHear, LoopsInOrder
      <4>2. chan'[Channel(c)] = Append(chan[Channel(c)], "up")
        BY <1>3, <1>t, <2>4, <3>3, <4>1 DEF NotifyListeners
      <4>3. chan[Channel(c)] \in Seq(Found)
        BY <1>t DEF MonitorTypeOK
      <4>4. /\ Len(chan'[Channel(c)]) \in 1 .. Len(chan'[Channel(c)])
            /\ chan'[Channel(c)][Len(chan'[Channel(c)])] = "up"
        BY <4>2, <4>3
      <4> QED BY <1>u, <3>3, <4>4 DEF Informed, NewsOnItsWay
    <3> QED BY <3>2, <3>3 DEF Waiting
  <2>5. ASSUME pc[c] = "waits", NEW i \in 1 .. Len(chan[Channel(c)]), chan[Channel(c)][i] = "up"
        PROVE  Informed(c)'
    <3>1. chan[Channel(c)] \in Seq(Found)
      BY <1>t DEF MonitorTypeOK
    <3>2. chan'[Channel(c)] = chan[Channel(c)] \/ chan'[Channel(c)] = Append(chan[Channel(c)], hand[g])
      BY <1>3, <1>t DEF NotifyListeners
    <3>3. i \in 1 .. Len(chan'[Channel(c)]) /\ chan'[Channel(c)][i] = "up"
      BY <2>5, <3>1, <3>2
    <3> QED BY <1>u, <2>5, <3>3 DEF Informed, NewsOnItsWay
  <2> QED BY <2>1, <2>2, <2>3, <2>4, <2>5 DEF Informed, NewsOnItsWay
<1>4. ASSUME NEW g \in Goroutines, LoopExit(g) PROVE Informed(c)'
  BY <1>a, <1>4, <1>t DEF LoopExit, MonitorTypeOK
<1>5. CASE NetlinkFails \/ CancelMonitor \/ Stop \/ StopClose
  BY <1>a, <1>5, <1>t DEF NetlinkFails, CancelMonitor, Stop, StopClose, MonitorTypeOK
<1> QED BY <1>1, <1>2, <1>3, <1>4, <1>5 DEF MonitorStep, MonitorNext

(* What the monitor does leaves the callers where they are and hears them. *)
LEMMA MonitorStepKeeps ==
  ASSUME RetryerInv, MonitorStep PROVE RetryerInv'
<1>0. RetryerTypeOK /\ LoopsInOrder /\ WaitersHear /\ AttemptsLeft
  BY DEF RetryerInv, WaitsOnlyIfMissed
<1>1. UNCHANGED <<pc, attempt, live>> /\ MonitorNext /\ missed' \in [Callers -> BOOLEAN]
  BY <1>0 DEF MonitorStep, RetryerTypeOK
<1>2. MonitorTypeOK' /\ LoopsInOrder'
  BY <1>0, <1>1, MonitorTypeStep DEF RetryerTypeOK
<1>3. RetryerTypeOK' /\ AttemptsLeft'
  BY <1>0, <1>1, <1>2 DEF RetryerTypeOK, AttemptsLeft
<1>4. WaitersHear'
  <2>1. \/ UNCHANGED listeners /\ (stop = "returned" => stop' = "returned")
        \/ stop' = "returned"
    BY <1>1 DEF MonitorNext, CallUpdateState, WriteState, NotifyListeners, LoopExit,
                NetlinkFails, CancelMonitor, Stop, StopClose
  <2> QED BY <1>0, <1>1, <2>1 DEF WaitersHear, Channel
<1>5. ASSUME NEW c \in Callers, pc'[c] \in Waiting, state' = "up" PROVE Informed(c)'
  <2>1. state = "up" => Informed(c)
    BY <1>1, <1>5 DEF RetryerInv, WaitsOnlyIfMissed, Informed
  <2> QED BY <1>0, <1>1, <1>5, <2>1, MonitorInforms
<1> QED BY <1>2, <1>3, <1>4, <1>5 DEF RetryerInv, WaitsOnlyIfMissed, Informed

-----------------------------------------------------------------------------
(* A caller that moves leaves the others as they are.                      *)
LEMMA CallerStepKeeps ==
  ASSUME RetryerInv, NEW c \in Callers, CallerStep(c) \/ Cancel(c) PROVE RetryerInv'
<1>0. RetryerTypeOK /\ MonitorTypeOK /\ LoopsInOrder /\ WaitersHear /\ AttemptsLeft
  BY DEF RetryerInv, WaitsOnlyIfMissed, RetryerTypeOK
<1>n. MaxAttempts \in Nat /\ ListenerCap \in Nat
  BY MaxAttemptsPositive, CapPositive
<1>c. \A d \in Callers : Channel(d) \in Channels /\ (d # c => Channel(d) # Channel(c))
  BY <1>0, ChannelsTyped DEF Channel
<1>m. UNCHANGED <<state, loopAt, hand, notify, stop, closed, monCtx>>
  BY DEF CallerStep, Begin, Return, Look, Check, Subscribe, Hear, WakeUp, GiveUp, Cancel,
         monitorVars
<1>o. \A d \in Callers \ {c} : /\ pc'[d] = pc[d] /\ attempt'[d] = attempt[d]
                               /\ missed'[d] = missed[d] /\ Channel(d)' = Channel(d)
                               /\ chan'[Channel(d)] = chan[Channel(d)]
  <2>1. \A d \in Callers \ {c} : /\ pc'[d] = pc[d] /\ attempt'[d] = attempt[d]
                                 /\ missed'[d] = missed[d]
    BY <1>0 DEF CallerStep, Begin, Return, Look, Check, Subscribe, Hear, WakeUp, GiveUp,
                Cancel, CallerGoes, NextAttempt, RetryerTypeOK
  <2>2. chan' = chan \/ chan' = [chan EXCEPT ![Channel(c)] = Tail(@)]
    BY DEF CallerStep, Begin, Return, Look, Check, Subscribe, Hear, WakeUp, GiveUp,
           Cancel, monitorVars
  <2> QED BY <1>0, <1>c, <2>1, <2>2 DEF Channel, MonitorTypeOK
<1>l. listeners \subseteq listeners' /\ listeners' \subseteq Channels
  BY <1>0, <1>c DEF CallerStep, Begin, Return, Look, Check, Subscribe, Hear, WakeUp,
                    GiveUp, Cancel, monitorVars, MonitorTypeOK
(* Its own place, and what it hears there. *)
<1>1. /\ pc' \in [Callers -> CallerPlaces] /\ attempt' \in [Callers -> 1 .. MaxAttempts]
      /\ live' \in [Callers -> BOOLEAN] /\ missed' \in [Callers -> BOOLEAN]
      /\ pc'[c] \in Between => attempt'[c] < MaxAttempts
  <2> USE <1>n DEF RetryerTypeOK, CallerGoes, CallerPlaces, Ended, Waiting, Between
  <2>0. /\ attempt[c] \in 1 .. MaxAttempts /\ pc[c] \in CallerPlaces
        /\ pc[c] \in Between => attempt[c] < MaxAttempts
    BY <1>0 DEF AttemptsLeft
  <2>1. CASE Begin(c) \/ Look(c) \/ GiveUp(c) \/ Cancel(c)
    BY <1>0, <2>0, <2>1 DEF Begin, Look, GiveUp, Cancel
  <2>5. CASE Return(c)
    <3>1. PICK p \in {"succeeded", "failed", AfterError(c)} : CallerGoes(c, "operating", p)
      BY <2>5 DEF Return
    <3>2. p \in CallerPlaces /\ (p \in Between => attempt[c] < MaxAttempts)
      BY <2>0, <3>1 DEF AfterError
    <3> QED BY <1>0, <2>5, <3>1, <3>2 DEF Return
  <2>2. CASE Check(c)
    BY <1>0, <2>2 DEF Check, NextAttempt, AttemptsLeft
  <2>3. CASE Subscribe(c) \/ WakeUp(c)
    BY <1>0, <2>3 DEF Subscribe, WakeUp, NextAttempt, AttemptsLeft
  <2>4. CASE Hear(c)
    <3>1. pc[c] = "waits" /\ live' = live /\ missed' = missed
      BY <2>4 DEF Hear
    <3>2. CASE UNCHANGED <<pc, attempt>>
      BY <1>0, <2>0, <3>1, <3>2
    <3>3. CASE NextAttempt(c, "waits")
      BY <1>0, <2>0, <3>1, <3>3 DEF NextAttempt
    <3> QED BY <2>4, <3>2, <3>3 DEF Hear
  <2> QED BY <2>1, <2>2, <2>3, <2>4, <2>5 DEF CallerStep
<1>2. chan' \in [Channels -> Seq(Found)] /\ \A k \in Channels : Len(chan'[k]) <= ListenerCap
  <2>1. CASE chan' = chan
    BY <1>0, <2>1 DEF MonitorTypeOK
  <2>2. CASE Hear(c)
    <3>1. chan[Channel(c)] \in Seq(Found) /\ chan[Channel(c)] # <<>>
      BY <1>0, <1>c, <2>2 DEF Hear, MonitorTypeOK
    <3>2. /\ Tail(chan[Channel(c)]) \in Seq(Found)
          /\ Len(Tail(chan[Channel(c)])) = Len(chan[Channel(c)]) - 1
      BY <3>1
    <3> QED BY <1>0, <1>c, <1>n, <2>2, <3>1, <3>2 DEF Hear, MonitorTypeOK
  <2> QED
    BY <2>1, <2>2 DEF CallerStep, Begin, Return, Look, Check, Subscribe, WakeUp, GiveUp,
                      Cancel, monitorVars
<1>3. RetryerTypeOK'
  BY <1>0, <1>1, <1>2, <1>l, <1>m DEF RetryerTypeOK, MonitorTypeOK
<1>4. AttemptsLeft'
  BY <1>0, <1>1, <1>o DEF AttemptsLeft
<1>5. LoopsInOrder'
  BY <1>0, <1>m DEF LoopsInOrder
<1>6. WaitersHear'
  <2>1. pc'[c] = "waits" => Channel(c)' \in listeners' \/ stop' = "returned"
    <3>1. CASE Subscribe(c)
      BY <3>1 DEF Subscribe, Channel
    <3>2. CASE ~Subscribe(c)
      <4>1. pc'[c] = "waits" => pc[c] = "waits" /\ attempt'[c] = attempt[c]
        BY <1>0, <3>2 DEF CallerStep, Begin, Return, Look, Check, Hear, WakeUp, GiveUp, Cancel,
                    CallerGoes, NextAttempt, AfterError, RetryerTypeOK
      <4> QED BY <1>0, <1>l, <1>m, <4>1 DEF WaitersHear, Channel
    <3> QED BY <3>1, <3>2
  <2> QED BY <1>0, <1>l, <1>m, <1>o, <2>1 DEF WaitersHear
<1>7. ASSUME NEW d \in Callers, d # c, pc'[d] \in Waiting, state' = "up" PROVE Informed(d)'
  <2>1. Informed(d) /\ d \in Callers \ {c}
    BY <1>7, <1>m, <1>o DEF RetryerInv, WaitsOnlyIfMissed, Informed
  <2> QED BY <1>m, <1>o, <2>1 DEF Informed, NewsOnItsWay
<1>8. ASSUME pc'[c] \in Waiting, state' = "up" PROVE Informed(c)'
  <2>1. CASE Begin(c) \/ Return(c) \/ Look(c) \/ WakeUp(c) \/ GiveUp(c)
    BY <1>0, <1>8, <2>1 DEF Begin, Return, Look, WakeUp, GiveUp, CallerGoes, NextAttempt,
                            AfterError, RetryerTypeOK, Waiting
  <2>2. CASE Check(c)
    BY <1>0, <1>8, <1>m, <2>2 DEF Check, CallerGoes, NextAttempt, RetryerTypeOK, Waiting, IsUp
  <2>3. ASSUME pc[c] \in Waiting, pc[c] = "waits" => pc'[c] = "waits",
               attempt'[c] = attempt[c], missed'[c] = missed[c], chan' = chan
        PROVE  Informed(c)'
    <3>1. Informed(c)
      BY <1>8, <1>m, <2>3 DEF RetryerInv, WaitsOnlyIfMissed, Informed
    <3> QED BY <1>m, <2>3, <3>1 DEF Informed, NewsOnItsWay, Channel
  <2>4. CASE Subscribe(c)
    BY <1>0, <2>3, <2>4 DEF Subscribe, CallerGoes, RetryerTypeOK, Waiting
  <2>5. CASE Cancel(c)
    BY <1>8, <2>3, <2>5 DEF Cancel, monitorVars
  <2>6. CASE Hear(c)
    <3>1. /\ pc[c] = "waits" /\ pc' = pc /\ attempt' = attempt
          /\ Head(chan[Channel(c)]) # "up" /\ missed' = missed
          /\ chan'[Channel(c)] = Tail(chan[Channel(c)])
          /\ chan[Channel(c)] \in Seq(Found) /\ chan[Channel(c)] # <<>>
      BY <1>0, <1>8, <1>c, <2>6 DEF Hear, NextAttempt, CallerGoes, RetryerTypeOK, Waiting,
                                    MonitorTypeOK
    <3>2. Informed(c)
      BY <1>8, <1>m, <3>1 DEF RetryerInv, WaitsOnlyIfMissed, Informed
    <3>3. ASSUME NEW i \in 1 .. Len(chan[Channel(c)]), chan[Channel(c)][i] = "up"
          PROVE  Informed(c)'
      <4>1. i # 1
        BY <3>1, <3>3
      <4>2. i - 1 \in 1 .. Len(chan'[Channel(c)]) /\ chan'[Channel(c)][i - 1] = "up"
        BY <3>1, <3>3, <4>1
      <4> QED BY <3>1, <4>2 DEF Informed, NewsOnItsWay, Channel
    <3> QED BY <1>m, <3>1, <3>2, <3>3 DEF Informed, NewsOnItsWay
  <2> QED BY <2>1, <2>2, <2>4, <2>5, <2>6 DEF CallerStep
<1> QED
  BY <1>3, <1>4, <1>5, <1>6, <1>7, <1>8 DEF RetryerInv, WaitsOnlyIfMissed, Informed

(* The inductive invariant holds at the start, after every step, always. *)
LEMMA RetryerInvAlways == RetryerSpec => []RetryerInv
<1>1. RetryerInit => RetryerInv
  <2> SUFFICES ASSUME RetryerInit PROVE RetryerInv
    OBVIOUS
  <2>1. MonitorTypeOK
    BY FoundStates, CapPositive DEF RetryerInit, MonitorInit, MonitorTypeOK, Goroutines, Loops
  <2>2. RetryerTypeOK
    BY <2>1, MaxAttemptsPositive DEF RetryerInit, RetryerTypeOK, CallerPlaces
  <2>3. \A c \in Callers : pc[c] = "head"
    BY DEF RetryerInit
  <2>4. LoopsInOrder
    BY DEF RetryerInit, MonitorInit, LoopsInOrder, Goroutines, Loops
  <2> QED
    BY <2>2, <2>3, <2>4 DEF RetryerInv, WaitsOnlyIfMissed, AttemptsLeft, WaitersHear,
                            Between, Waiting
<1>2. RetryerInv /\ [RetryerNext]_retryerVars => RetryerInv'
  <2> SUFFICES ASSUME RetryerInv, [RetryerNext]_retryerVars PROVE RetryerInv'
    OBVIOUS
  <2>1. CASE UNCHANGED retryerVars
    <3>1. UNCHANGED <<state, listeners, chan, closed, loopAt, hand, notify, monCtx, stop,
                      pc, attempt, live, missed>>
      BY <2>1 DEF retryerVars, monitorVars, callerVars
    <3> QED
      BY <3>1 DEF RetryerInv, WaitsOnlyIfMissed, AttemptsLeft, WaitersHear, LoopsInOrder,
                  RetryerTypeOK, MonitorTypeOK, NewsOnItsWay, Channel
  <2> QED BY <2>1, MonitorStepKeeps, CallerStepKeeps DEF RetryerNext
<1> QED BY <1>1, <1>2, PTL DEF RetryerSpec

(* WaitForNetwork: whatever the number of callers, attempts and places of  *)
(* a channel, who waits while the network is up, with no news on its way,  *)
(* was not subscribed when the news was told or had a full channel.        *)
THEOREM MissedSafe == RetryerSpec => []WaitsOnlyIfMissed
BY RetryerInvAlways, PTL DEF RetryerInv
=============================================================================
