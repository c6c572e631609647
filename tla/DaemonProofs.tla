----------------------------- MODULE DaemonProofs -----------------------------
(***************************************************************************)
(* Proofs about the daemon's WebSocket hub, for any number of clients and  *)
(* any capacities of the channels, and about its backup manager, for any   *)
(* number of calls, chunks and crashes.                                    *)
(*                                                                         *)
(* WebSocketHub. A client registers once in its life, before which neither *)
(* the map nor the closed channels know it (Fresh): that is why no channel *)
(* in the map is closed. The gauge counts, beside the map, the clients     *)
(* Shutdown dropped, which are none before Shutdown (NoneForgotten).       *)
(*                                                                         *)
(* BackupManager. Neither the archives nor the checksums are inductive by  *)
(* themselves: RestoreBackup believes a checksum, so what a checksum       *)
(* vouches for must be whole; the checksum is of what was read back, so    *)
(* the archive read back must be the writer's, and the writer's file must  *)
(* be the one at the path (FilesLinked). All of it holds of a backup that  *)
(* is the only one of its name and second (Alone), and so the story        *)
(* (BackupStory) is told backup by backup, each half a function of the     *)
(* other.                                                                  *)
(***************************************************************************)
EXTENDS WebSocketHub, BackupManager, FiniteSetTheorems, TLAPS

(* The WebSocket hub. *)

Fresh ==
    \A c \in Clients :
        handler[c] \in {"off", "register"} => c \notin clients /\ c \notin sendClosed

NoneForgotten == closing # "done" => forgotten = {}

HubInv == TypeOK /\ Fresh /\ MapIsOpen /\ NoneForgotten /\ GaugeCounts

-----------------------------------------------------------------------------
(* Sets of clients are finite. *)
LEMMA Finite ==
    ASSUME NEW S, S \subseteq Clients
    PROVE  IsFiniteSet(S) /\ Cardinality(S) \in Nat
BY ClientsFinite, FS_Subset, FS_CardinalityType

(* A message goes only where there is room. *)
LEMMA SendToType ==
    ASSUME TypeOK, NEW S, \A c \in S \cap Clients : HasRoom(c), SendTo(S)
    PROVE  send' \in [Clients -> 0 .. SendCap]
BY CapsPositive DEF TypeOK, SendTo, HasRoom

(* The initial state satisfies the invariant. *)
LEMMA HubInvInit == Init => HubInv
<1> SUFFICES ASSUME Init PROVE HubInv
  OBVIOUS
<1>1. TypeOK
  <2>1. broadcast \in 0 .. BroadcastCap /\ send \in [Clients -> 0 .. SendCap]
    BY CapsPositive DEF Init
  <2>2. ctxDone \in BOOLEAN /\ status \in BOOLEAN BY DEF Init
  <2>3. /\ handler \in [Clients -> {"off", "register", "record", "started"}]
        /\ initial \in [Clients -> 0 .. 2]
        /\ writer \in [Clients -> {"off", "select", "writing", "ended"}]
        /\ reader \in [Clients -> {"off", "reading", "leaving", "ended"}]
        /\ conn \in [Clients -> {"none", "open", "closed"}]
    BY DEF Init
  <2> QED BY <2>1, <2>2, <2>3 DEF Init, TypeOK
<1>2. Recording = {} BY DEF Init, Recording
<1>3. GaugeCounts BY <1>2, FS_EmptySet DEF Init, GaugeCounts
<1> QED BY <1>1, <1>3 DEF Init, HubInv, Fresh, MapIsOpen, NoneForgotten

(* Types are inductive by themselves. *)
LEMMA StepType == TypeOK /\ [Next]_vars => TypeOK'
<1> SUFFICES ASSUME TypeOK, [Next]_vars PROVE TypeOK'
  OBVIOUS
<1> USE CapsPositive DEF TypeOK, hubVars, clientVars, stopVars
<1>1. ASSUME NEW c \in Clients,
             Connect(c) \/ Register(c) \/ StartPumps(c) \/ Unregister(c)
      PROVE  TypeOK'
  BY <1>1 DEF Connect, Register, StartPumps, Unregister
<1>2. ASSUME NEW c \in Clients, SendInitial(c) PROVE TypeOK'
  <2>1. send' \in [Clients -> 0 .. SendCap]
    BY <1>2, SendToType DEF SendInitial
  <2> QED BY <1>2, <2>1 DEF SendInitial
<1>3. ASSUME NEW c \in Clients, WriterEnds(c) \/ WriterReceives(c) PROVE TypeOK'
  BY <1>3 DEF WriterEnds, WriterReceives
<1>4. ASSUME NEW c \in Clients, Written(c) \/ WriteFails(c) \/ ReaderLeaves(c)
      PROVE  TypeOK'
  BY <1>4 DEF Written, WriteFails, ReaderLeaves
<1>5. CASE Broadcast BY <1>5 DEF Broadcast
<1>6. CASE Deliver
  <2>1. send' \in [Clients -> 0 .. SendCap]
    BY <1>6, SendToType DEF Deliver
  <2> QED BY <1>6, <2>1 DEF Deliver
<1>7. CASE BroadcastRaw
  <2>1. send' \in [Clients -> 0 .. SendCap]
    BY <1>7, SendToType DEF BroadcastRaw
  <2> QED BY <1>7, <2>1 DEF BroadcastRaw
<1>8. CASE StatusEnds \/ HubExits \/ CancelContext \/ HubShutdown
  BY <1>8 DEF StatusEnds, HubExits, CancelContext, HubShutdown
<1>9. CASE UNCHANGED vars BY <1>9 DEF vars
<1> QED BY <1>1, <1>2, <1>3, <1>4, <1>5, <1>6, <1>7, <1>8, <1>9 DEF Next

(* The map, the closed channels and the handlers. *)
LEMMA StepOpen ==
    HubInv /\ [Next]_vars => Fresh' /\ MapIsOpen' /\ NoneForgotten'
<1> SUFFICES ASSUME HubInv, [Next]_vars PROVE Fresh' /\ MapIsOpen' /\ NoneForgotten'
  OBVIOUS
<1> USE DEF HubInv, TypeOK, Fresh, MapIsOpen, NoneForgotten, clientVars, stopVars
<1>1. ASSUME NEW c \in Clients, Connect(c) \/ Register(c) \/ StartPumps(c)
      PROVE  Fresh' /\ MapIsOpen' /\ NoneForgotten'
  BY <1>1 DEF Connect, Register, StartPumps
<1>2. ASSUME NEW c \in Clients, Unregister(c)
      PROVE  Fresh' /\ MapIsOpen' /\ NoneForgotten'
  BY <1>2 DEF Unregister
<1>3. CASE HubShutdown BY <1>3 DEF HubShutdown
<1>4. CASE CancelContext BY <1>4 DEF CancelContext
<1>5. ASSUME UNCHANGED <<clients, sendClosed, handler, closing, forgotten>>
      PROVE  Fresh' /\ MapIsOpen' /\ NoneForgotten'
  BY <1>5
<1>6. ASSUME NEW c \in Clients,
             \/ SendInitial(c) \/ WriterEnds(c) \/ WriterReceives(c)
             \/ Written(c) \/ WriteFails(c) \/ ReaderLeaves(c)
      PROVE  UNCHANGED <<clients, sendClosed, handler, closing, forgotten>>
  BY <1>6 DEF SendInitial, WriterEnds, WriterReceives, Written, WriteFails, ReaderLeaves
<1>7. CASE Broadcast \/ Deliver \/ BroadcastRaw \/ StatusEnds \/ HubExits
  BY <1>5, <1>7 DEF Broadcast, Deliver, BroadcastRaw, StatusEnds, HubExits
<1>8. CASE UNCHANGED vars BY <1>5, <1>8 DEF vars
<1> QED BY <1>1, <1>2, <1>3, <1>4, <1>5, <1>6, <1>7, <1>8 DEF Next

(* The gauge: each step moves one client between Recording, the map and    *)
(* the forgotten, or all of the map to the forgotten.                      *)
LEMMA StepGauge == HubInv /\ [Next]_vars => GaugeCounts'
<1> SUFFICES ASSUME HubInv, [Next]_vars PROVE GaugeCounts'
  OBVIOUS
<1> USE DEF HubInv, TypeOK, clientVars, stopVars
<1>0. /\ Recording \subseteq Clients
      /\ gauge + Cardinality(Recording) = Cardinality(clients) + Cardinality(forgotten)
      /\ Cardinality(Recording) \in Nat
      /\ Cardinality(clients) \in Nat /\ Cardinality(forgotten) \in Nat
  BY Finite DEF Recording, GaugeCounts
<1>1. ASSUME NEW c \in Clients, Register(c) PROVE GaugeCounts'
  <2>1. c \notin Recording /\ Recording' = Recording \cup {c}
    BY <1>1 DEF Register, Recording
  <2>2. c \notin clients BY <1>1 DEF Register, Fresh
  <2>3. /\ Cardinality(Recording') = Cardinality(Recording) + 1
        /\ Cardinality(clients') = Cardinality(clients) + 1
    BY <1>0, <1>1, <2>1, <2>2, Finite, FS_AddElement DEF Register
  <2>4. gauge' = gauge /\ forgotten' = forgotten BY <1>1 DEF Register
  <2> QED BY <1>0, <2>3, <2>4 DEF GaugeCounts
<1>2. ASSUME NEW c \in Clients, StartPumps(c) PROVE GaugeCounts'
  <2>1. c \in Recording /\ Recording' = Recording \ {c}
    BY <1>2 DEF StartPumps, Recording
  <2>2. Cardinality(Recording') = Cardinality(Recording) - 1
    BY <1>0, <2>1, Finite, FS_RemoveElement
  <2>3. gauge' = gauge + 1 /\ clients' = clients /\ forgotten' = forgotten
    BY <1>2 DEF StartPumps
  <2> QED BY <1>0, <2>2, <2>3 DEF GaugeCounts
<1>3. ASSUME NEW c \in Clients, Unregister(c) PROVE GaugeCounts'
  <2>1. Recording' = Recording /\ forgotten' = forgotten
    BY <1>3 DEF Unregister, Recording
  <2>2. CASE c \in clients
    <3>1. Cardinality(clients') = Cardinality(clients) - 1
      BY <1>3, <2>2, Finite, FS_RemoveElement DEF Unregister
    <3>2. gauge' = gauge - 1 BY <1>3, <2>2 DEF Unregister
    <3> QED BY <1>0, <2>1, <3>1, <3>2 DEF GaugeCounts
  <2>3. CASE c \notin clients
    <3>1. clients' = clients /\ gauge' = gauge BY <1>3, <2>3 DEF Unregister
    <3> QED BY <1>0, <2>1, <3>1 DEF GaugeCounts
  <2> QED BY <2>2, <2>3
<1>4. CASE HubShutdown
  <2>1. forgotten = {} BY <1>4 DEF HubShutdown, NoneForgotten
  <2>2. /\ clients' = {} /\ forgotten' = clients /\ gauge' = gauge
        /\ Recording' = Recording
    BY <1>4 DEF HubShutdown, Recording
  <2> QED BY <1>0, <2>1, <2>2, FS_EmptySet DEF GaugeCounts
<1>5. ASSUME NEW c \in Clients, Connect(c) PROVE GaugeCounts'
  <2>1. Recording' = Recording BY <1>5 DEF Connect, Recording
  <2> QED BY <1>0, <1>5, <2>1 DEF Connect, GaugeCounts
<1>6. ASSUME UNCHANGED <<clients, handler, gauge, forgotten>> PROVE GaugeCounts'
  <2>1. Recording' = Recording BY <1>6 DEF Recording
  <2> QED BY <1>0, <1>6, <2>1 DEF GaugeCounts
<1>7. ASSUME NEW c \in Clients,
             \/ SendInitial(c) \/ WriterEnds(c) \/ WriterReceives(c)
             \/ Written(c) \/ WriteFails(c) \/ ReaderLeaves(c)
      PROVE  UNCHANGED <<clients, handler, gauge, forgotten>>
  BY <1>7 DEF SendInitial, WriterEnds, WriterReceives, Written, WriteFails, ReaderLeaves
<1>8. CASE Broadcast \/ Deliver \/ BroadcastRaw \/ StatusEnds \/ HubExits \/ CancelContext
  BY <1>6, <1>8 DEF Broadcast, Deliver, BroadcastRaw, StatusEnds, HubExits, CancelContext
<1>9. CASE UNCHANGED vars BY <1>6, <1>9 DEF vars
<1> QED BY <1>1, <1>2, <1>3, <1>4, <1>5, <1>6, <1>7, <1>8, <1>9 DEF Next

-----------------------------------------------------------------------------
(* The invariant holds for any clients and capacities. *)
THEOREM HubInvAlways == Spec => []HubInv
<1>1. HubInv /\ [Next]_vars => HubInv'
  BY StepType, StepOpen, StepGauge DEF HubInv
<1> QED BY HubInvInit, <1>1, PTL DEF Spec

(* TypeOK: no buffer holds more than its channel's capacity. *)
THEOREM HubTypesSafe == Spec => []TypeOK
<1>1. HubInv => TypeOK BY DEF HubInv
<1> QED BY <1>1, HubInvAlways, PTL

(* MapIsOpen: Run and BroadcastRaw never send on a closed channel. *)
THEOREM OpenSafe == Spec => []MapIsOpen
<1>1. HubInv => MapIsOpen BY DEF HubInv
<1> QED BY <1>1, HubInvAlways, PTL

(* GaugeCounts: RecordWSConnection and onDisconnect agree with the map. *)
THEOREM GaugeSafe == Spec => []GaugeCounts
<1>1. HubInv => GaugeCounts BY DEF HubInv
<1> QED BY <1>1, HubInvAlways, PTL

-----------------------------------------------------------------------------
(* The backup manager. *)

(* The first n chunks of an archive. *)
Prefix(c, n) == [i \in 1 .. n |-> c]

(* The backup of c is the only one of its name. *)
Alone(c) == id[c] # 0 /\ \A d \in Makers : d # c => id[d] # id[c]

(* Where a call may be, and what it holds there. *)
CallsPlaced ==
    /\ \A c \in Calls : pc[c] = "idle" <=> id[c] = 0
    /\ \A c \in Calls : result[c] # "none" => pc[c] = "done"
    /\ \A c \in Makers : pc[c] \in {"idle", "done"} \cup Creating
    /\ \A c \in Makers : result[c] # "restored"
    /\ \A u \in Users : pc[u] \in {"idle", "done"} \cup Restoring \cup Deleting
    /\ \A u \in Users : result[u] # "created"
    /\ \A u \in Users : id[u] # 0 => \E c \in Makers : id[c] = id[u]
    /\ \A u \in Users : pc[u] \in {"verify", "extract"} <=> held[u] # "none"
    /\ \A u \in Users : held[u] \in Makers => id[held[u]] = id[u]
    /\ \A u \in Users : pc[u] = "json" => id[u] \in removed

(* A writer's open file: the one at the path, unless a deletion took it. *)
FilesLinked ==
    /\ \A c \in linked : pc[c] = "write" /\ archive[id[c]] # None
    /\ \A c \in Makers : pc[c] = "write" => offset[c] < Chunks
    /\ \A c \in Makers : pc[c] # "write" => offset[c] = 0

(* A name nobody has asked for has no file and no entry; an entry is under *)
(* the name of the call that made it.                                      *)
EntriesNamed ==
    /\ \A t \in Times : (\A c \in Makers : id[c] # t)
          => archive[t] = None /\ json[t] = None /\ loaded[t] = None
             /\ backups[t] = "none"
    /\ \A t \in Times : backups[t] \in Makers => id[backups[t]] = t

(* The one restore and the one deletion. *)
OneAtATime ==
    /\ \A u \in Users : pc[u] \in Restoring => restoring
    /\ restoring => \E u \in Users : pc[u] \in Restoring
    /\ \A u, v \in Users : pc[u] \in Restoring /\ pc[v] \in Restoring => u = v
    /\ \A u \in Users : pc[u] \in Deleting <=> lock = u

(* A checksum that vouches for the archive of c, on disk or in memory. *)
VouchedFor(c) ==
    \/ sum[c] = Whole(c) \/ json[id[c]] = Whole(c) \/ loaded[id[c]] = Whole(c)

(* How far the archive and the checksums of a backup without a namesake are. *)
ArchiveOf(c) ==
    /\ c \in linked => archive[id[c]] = Prefix(c, offset[c])
    /\ pc[c] = "write" /\ c \notin linked => archive[id[c]] = None
    /\ pc[c] \in {"checksum", "save"} => archive[id[c]] \in {None, Whole(c)}
    /\ VouchedFor(c) => archive[id[c]] \in {None, Whole(c)}

(* Nothing but its whole archive is vouched for, and that once it is       *)
(* saved.                                                                  *)
ChecksumsOf(c) ==
    /\ {sum[c], json[id[c]], loaded[id[c]]} \subseteq {None, Whole(c)}
    /\ pc[c] = "save" => sum[c] = Whole(c)
    /\ pc[c] # "done" => json[id[c]] = None /\ loaded[id[c]] = None

(* A backup nobody deleted. *)
KeptOf(c) ==
    id[c] \notin removed =>
        /\ pc[c] = "write" => c \in linked
        /\ pc[c] \in {"checksum", "save"} => archive[id[c]] = Whole(c)
        /\ pc[c] \in Creating => backups[id[c]] = c
        /\ result[c] = "created" =>
              /\ archive[id[c]] = Whole(c) /\ json[id[c]] = Whole(c)
              /\ backups[id[c]] \in {c, "disk"}

(* A restore of it extracts what has been vouched for. *)
RestoreOf(u, c) ==
    /\ pc[u] = "extract" => sum[c] = Whole(c) \/ loaded[id[c]] = Whole(c)
    /\ result[u] = "restored" => restored[u] = Whole(c)

(* A call has no checksum before it computes one. *)
NoChecksumYet ==
    \A c \in Makers : pc[c] \in {"idle", "open", "write", "checksum"} => sum[c] = None

(* What holds of a backup without a namesake. *)
BackupStory ==
    \A c \in Makers : Alone(c) =>
        /\ ArchiveOf(c) /\ ChecksumsOf(c) /\ KeptOf(c)
        /\ \A u \in Users : id[u] = id[c] => RestoreOf(u, c)

(* What every step keeps. *)
BackupInv ==
    /\ BackupTypeOK /\ CallsPlaced /\ FilesLinked
    /\ EntriesNamed /\ OneAtATime /\ NoChecksumYet /\ BackupStory

-----------------------------------------------------------------------------
(* Whose step it is: creations are the makers', the rest the users'. *)
LEMMA StepCases ==
  ASSUME CallsPlaced, BackupNext
  PROVE  \/ \E c \in Makers :
              \/ Create(c) \/ OpenArchive(c) \/ WriteArchive(c) \/ Checksum(c)
              \/ SaveMetadata(c) \/ CreateFails(c) \/ ArchiveLost(c) \/ Retain(c)
         \/ \E u \in Users :
              \/ Lookup(u) \/ Verify(u) \/ Extract(u) \/ RestoreFails(u)
              \/ RemoveArchive(u) \/ RemoveMetadata(u) \/ DeleteFails(u)
         \/ \E u \in Users, c \in Makers : Restore(u, id[c]) \/ Delete(u, id[c])
         \/ Tick \/ Restart
<1>1. \A c \in Calls : pc[c] \in Creating => c \in Makers
  BY DEF CallsPlaced, Calls, Creating, Restoring, Deleting
<1>2. \A c \in Calls : pc[c] \in Restoring \cup Deleting => c \in Users
  BY DEF CallsPlaced, Calls, Creating, Restoring, Deleting
<1>3. ASSUME NEW c \in Calls, Step(c)
      PROVE  \/ c \in Makers /\ \/ OpenArchive(c) \/ WriteArchive(c) \/ Checksum(c)
                                \/ SaveMetadata(c) \/ CreateFails(c) \/ ArchiveLost(c)
             \/ c \in Users /\ \/ Lookup(c) \/ Verify(c) \/ Extract(c) \/ RestoreFails(c)
                               \/ RemoveArchive(c) \/ RemoveMetadata(c) \/ DeleteFails(c)
  <2>1. /\ OpenArchive(c) => pc[c] \in Creating
        /\ WriteArchive(c) => pc[c] \in Creating
        /\ Checksum(c) => pc[c] \in Creating
        /\ SaveMetadata(c) => pc[c] \in Creating
        /\ CreateFails(c) => pc[c] \in Creating
        /\ ArchiveLost(c) => pc[c] \in Creating
    BY DEF OpenArchive, WriteArchive, Checksum, SaveMetadata, CreateFails,
           ArchiveLost, Creating
  <2>2. /\ Lookup(c) => pc[c] \in Restoring
        /\ Verify(c) => pc[c] \in Restoring
        /\ Extract(c) => pc[c] \in Restoring
        /\ RestoreFails(c) => pc[c] \in Restoring
        /\ RemoveArchive(c) => pc[c] \in Deleting
        /\ RemoveMetadata(c) => pc[c] \in Deleting
        /\ DeleteFails(c) => pc[c] \in Deleting
    BY DEF Lookup, Verify, Extract, RestoreFails, RemoveArchive, RemoveMetadata,
           DeleteFails, Restoring, Deleting
  <2> QED BY <1>1, <1>2, <1>3, <2>1, <2>2 DEF Step
<1> QED BY <1>3 DEF BackupNext

(* A write within the archive's length leaves an archive, and one at the   *)
(* end of the chunks of c one more of them.                                *)
LEMMA WithChunkContents ==
  ASSUME NEW c \in Makers, NEW n \in 0 .. Chunks - 1, NEW s \in Contents
  PROVE  /\ WithChunk(s, n + 1, c) \in Contents
         /\ WithChunk(s, n + 1, c) # None
         /\ s = Prefix(c, n) => WithChunk(s, n + 1, c) = Prefix(c, n + 1)
<1>1. PICK m \in 0 .. Chunks : s \in [1 .. m -> Makers \cup {"hole"}]
  BY DEF Contents
<1>2. s \in Seq(Makers \cup {"hole"}) /\ Len(s) = m /\ Chunks \in Nat
  BY <1>1, Numbers
<1>3. WithChunk(s, n + 1, c)
        = [k \in 1 .. (IF n + 1 > m THEN n + 1 ELSE m) |->
             IF k = n + 1 THEN c ELSE IF k <= m THEN s[k] ELSE "hole"]
  BY <1>2 DEF WithChunk
<1>4. PICK l \in 0 .. Chunks : l = (IF n + 1 > m THEN n + 1 ELSE m)
  BY <1>2
<1>5. WithChunk(s, n + 1, c) \in [1 .. l -> Makers \cup {"hole"}]
  BY <1>1, <1>3, <1>4
<1>6. WithChunk(s, n + 1, c) \in Contents
  BY <1>5 DEF Contents
<1>7. WithChunk(s, n + 1, c)[n + 1] = c /\ n + 1 \in 1 .. l
  BY <1>3, <1>4, <1>2
<1>8. WithChunk(s, n + 1, c) # None
  <2>1. SUFFICES ASSUME WithChunk(s, n + 1, c) = None PROVE FALSE
    OBVIOUS
  <2>2. 1 \in 1 .. l /\ None[1] = "none"
    BY <1>7, <1>4 DEF None
  <2>3. WithChunk(s, n + 1, c)[1] \in Makers \cup {"hole"}
    BY <1>5, <2>2
  <2> QED BY <2>1, <2>2, <2>3, CallsNamed
<1>9. ASSUME s = Prefix(c, n) PROVE WithChunk(s, n + 1, c) = Prefix(c, n + 1)
  <2>1. m = n
    <3>1. DOMAIN s = 1 .. m /\ DOMAIN s = 1 .. n
      BY <1>1, <1>9 DEF Prefix
    <3> QED BY <3>1, <1>2
  <2>2. l = n + 1
    BY <1>4, <2>1
  <2>3. WithChunk(s, n + 1, c)
          = [k \in 1 .. (n + 1) |-> IF k = n + 1 THEN c ELSE IF k <= n THEN s[k] ELSE "hole"]
    BY <1>3, <1>4, <2>1, <2>2
  <2>4. \A k \in 1 .. (n + 1) : k # n + 1 => k <= n /\ s[k] = c
    BY <1>9, <1>2 DEF Prefix
  <2>5. [k \in 1 .. (n + 1) |-> IF k = n + 1 THEN c ELSE IF k <= n THEN s[k] ELSE "hole"]
           = [k \in 1 .. (n + 1) |-> c]
    BY <2>4
  <2> QED BY <2>3, <2>5 DEF Prefix
<1> QED BY <1>6, <1>8, <1>9

(* The archives there are: none is the mark of a missing file. *)
LEMMA ContentsNamed ==
  /\ None \notin Contents
  /\ \A c \in Makers, n \in 0 .. Chunks : Prefix(c, n) \in Contents
  /\ \A c \in Makers : Whole(c) = Prefix(c, Chunks)
  /\ <<>> \in Contents
  /\ \A c \in Makers : <<>> = Prefix(c, 0)
<1>1. None \notin Contents
  <2>1. SUFFICES ASSUME NEW m \in 0 .. Chunks, None \in [1 .. m -> Makers \cup {"hole"}]
                 PROVE  FALSE
    BY DEF Contents
  <2>2. DOMAIN None = 1 .. 1 /\ DOMAIN None = 1 .. m /\ None[1] = "none"
    BY <2>1 DEF None
  <2>3. None[1] \in Makers \cup {"hole"}
    BY <2>1, <2>2
  <2> QED BY <2>2, <2>3, CallsNamed
<1>2. \A c \in Makers, n \in 0 .. Chunks : Prefix(c, n) \in Contents
  BY DEF Prefix, Contents
<1>3. \A c \in Makers : Whole(c) = Prefix(c, Chunks)
  BY DEF Whole, Prefix
<1>4. \A c \in Makers : <<>> = Prefix(c, 0)
  BY DEF Prefix
<1>5. <<>> \in Contents
  <2>1. <<>> \in [1 .. 0 -> Makers \cup {"hole"}] /\ 0 \in 0 .. Chunks
    BY Numbers
  <2> QED BY <2>1 DEF Contents
<1> QED BY <1>1, <1>2, <1>3, <1>4, <1>5

(* The types, without the times a call may index the files with. *)
LEMMA BackupTypeStep ==
  BackupTypeOK /\ CallsPlaced /\ FilesLinked /\ OneAtATime /\ [BackupNext]_backupVars
    => BackupTypeOK'
<1> SUFFICES ASSUME BackupTypeOK, CallsPlaced, FilesLinked, OneAtATime,
                    [BackupNext]_backupVars
             PROVE  BackupTypeOK'
  OBVIOUS
<1>0. Fault => faults' \in 0 .. MaxFaults
  BY Numbers DEF BackupTypeOK, Fault
<1> USE Numbers DEF BackupTypeOK, Goto, Return, files, memory, locals, rest,
                    Calls, Times
<1>1. ASSUME NEW c \in Makers, pc[c] # "idle" PROVE id[c] \in Times
  BY <1>1 DEF CallsPlaced
<1>2. ASSUME NEW u \in Users, pc[u] # "idle" PROVE id[u] \in Times
  BY <1>2 DEF CallsPlaced
<1>p. {"idle", "done", "open", "write", "checksum", "save", "lookup", "verify",
       "extract", "archive", "json"}
        \subseteq {"idle", "done"} \cup Creating \cup Restoring \cup Deleting
  BY DEF Creating, Restoring, Deleting
<1>3. ASSUME NEW c \in Makers, Create(c) PROVE BackupTypeOK'
  BY <1>3 DEF Create, Creating
<1>4. ASSUME NEW c \in Makers, OpenArchive(c) PROVE BackupTypeOK'
  BY <1>1, <1>4, ContentsNamed DEF OpenArchive, Creating
<1>5. ASSUME NEW c \in Makers, WriteArchive(c) PROVE BackupTypeOK'
  <2>1. /\ id[c] \in Times /\ offset[c] \in 0 .. Chunks - 1
        /\ c \in linked => archive[id[c]] \in Contents
    BY <1>1, <1>5 DEF WriteArchive, FilesLinked
  <2>2. archive' \in [Times -> Contents \cup {None}]
    BY <1>5, <2>1, WithChunkContents DEF WriteArchive
  <2>3. /\ pc' \in [Calls -> {"idle", "done"} \cup Creating \cup Restoring \cup Deleting]
        /\ linked' \subseteq Makers /\ offset' \in [Makers -> 0 .. Chunks]
    <3>1. CASE offset[c] + 1 = Chunks
      <4>1. /\ pc' = [pc EXCEPT ![c] = "checksum"] /\ linked' = linked \ {c}
            /\ offset' = [offset EXCEPT ![c] = 0]
        BY <1>5, <3>1 DEF WriteArchive
      <4> QED BY <1>p, <2>1, <4>1
    <3>2. CASE offset[c] + 1 # Chunks
      <4>1. offset[c] + 1 \in 0 .. Chunks
        BY <2>1
      <4> QED BY <1>5, <2>1, <3>2, <4>1 DEF WriteArchive
    <3> QED BY <3>1, <3>2
  <2> QED BY <1>5, <2>2, <2>3 DEF WriteArchive
<1>6. ASSUME NEW c \in Makers, Checksum(c) PROVE BackupTypeOK'
  BY <1>1, <1>6 DEF Checksum, Creating
<1>7. ASSUME NEW c \in Makers, SaveMetadata(c) PROVE BackupTypeOK'
  BY <1>1, <1>7 DEF SaveMetadata
<1>8. ASSUME NEW c \in Makers, CreateFails(c) PROVE BackupTypeOK'
  <2>1. pc[c] # "idle" /\ json' \in [Times -> Contents \cup {None}]
    BY <1>1, <1>8 DEF CreateFails, Creating
  <2>2. offset' \in [Makers -> 0 .. Chunks] /\ linked' \subseteq Makers
    BY <1>8 DEF CreateFails
  <2> QED BY <1>0, <1>8, <2>1, <2>2 DEF CreateFails
<1>9. ASSUME NEW c \in Makers, ArchiveLost(c) PROVE BackupTypeOK'
  BY <1>9 DEF ArchiveLost
<1>10. ASSUME NEW c \in Makers, Retain(c) PROVE BackupTypeOK'
  BY <1>10 DEF Retain
<1>11. ASSUME NEW u \in Users, Lookup(u) PROVE BackupTypeOK'
  <2>1. id[u] \in Times
    BY <1>2, <1>11 DEF Lookup
  <2>2. CASE backups[id[u]] = "none"
    BY <1>11, <2>2 DEF Lookup, RestoreReturns
  <2>3. CASE backups[id[u]] # "none"
    <3>1. /\ pc' = [pc EXCEPT ![u] = "verify"] /\ held' = [held EXCEPT ![u] = backups[id[u]]]
          /\ restoring' = restoring /\ result' = result
      BY <1>11, <2>3 DEF Lookup
    <3>2. /\ pc' \in [Calls -> {"idle", "done"} \cup Creating \cup Restoring \cup Deleting]
          /\ held' \in [Users -> Makers \cup {"none", "disk"}]
      BY <1>p, <2>1, <3>1
    <3> QED BY <1>11, <3>1, <3>2 DEF Lookup
  <2> QED BY <2>2, <2>3
<1>12. ASSUME NEW u \in Users, Verify(u) PROVE BackupTypeOK'
  BY <1>12 DEF Verify, RestoreReturns, Restoring
<1>13. ASSUME NEW u \in Users, Extract(u) PROVE BackupTypeOK'
  <2>1. id[u] \in Times
    BY <1>2, <1>13 DEF Extract
  <2>2. restored' \in [Users -> Contents \cup {None}]
    BY <1>13, <2>1 DEF Extract
  <2>3. \E r \in {"none", "restored"} : RestoreReturns(u, r)
    BY <1>13 DEF Extract
  <2>4. /\ pc' \in [Calls -> {"idle", "done"} \cup Creating \cup Restoring \cup Deleting]
        /\ held' \in [Users -> Makers \cup {"none", "disk"}]
        /\ restoring' \in BOOLEAN
        /\ result' \in [Calls -> {"none", "created", "restored"}]
    <3>1. PICK r \in {"none", "restored"} :
            /\ pc' = [pc EXCEPT ![u] = "done"] /\ result' = [result EXCEPT ![u] = r]
            /\ restoring' = FALSE /\ held' = [held EXCEPT ![u] = "none"]
      BY <2>3 DEF RestoreReturns
    <3>2. held' \in [Users -> Makers \cup {"none", "disk"}]
      BY <3>1
    <3>3. result' \in [Calls -> {"none", "created", "restored"}]
      BY <3>1
    <3>4. pc' \in [Calls -> {"idle", "done"} \cup Creating \cup Restoring \cup Deleting]
      BY <1>p, <3>1
    <3> QED BY <3>1, <3>2, <3>3, <3>4
  <2> QED BY <1>13, <2>2, <2>4 DEF Extract
<1>14. ASSUME NEW u \in Users, RestoreFails(u) PROVE BackupTypeOK'
  BY <1>0, <1>14 DEF RestoreFails, RestoreReturns
<1>15. ASSUME NEW u \in Users, RemoveArchive(u) PROVE BackupTypeOK'
  BY <1>2, <1>15 DEF RemoveArchive, Deleting
<1>16. ASSUME NEW u \in Users, RemoveMetadata(u) PROVE BackupTypeOK'
  BY <1>2, <1>16 DEF RemoveMetadata
<1>17. ASSUME NEW u \in Users, DeleteFails(u) PROVE BackupTypeOK'
  BY <1>0, <1>17 DEF DeleteFails
<1>18. ASSUME NEW u \in Users, NEW c \in Makers, Restore(u, id[c]) PROVE BackupTypeOK'
  BY <1>18 DEF Restore, Restoring
<1>19. ASSUME NEW u \in Users, NEW c \in Makers, Delete(u, id[c]) PROVE BackupTypeOK'
  BY <1>19 DEF Delete, Deleting
<1>20. CASE Tick
  BY <1>20 DEF Tick
<1>21. CASE Restart
  <2>1. /\ backups' \in [Times -> Makers \cup {"none", "disk"}]
        /\ offset' \in [Makers -> 0 .. Chunks]
        /\ sum' \in [Makers -> Contents \cup {None}]
        /\ held' \in [Users -> Makers \cup {"none", "disk"}]
    BY <1>21 DEF Restart
  <2>2. pc' \in [Calls -> {"idle", "done"} \cup Creating \cup Restoring \cup Deleting]
    BY <1>21 DEF Restart
  <2>3. faults' \in 0 .. MaxFaults
    BY <1>0, <1>21 DEF Restart, Fault
  <2> QED BY <1>21, <2>1, <2>2, <2>3 DEF Restart
<1>22. CASE UNCHANGED backupVars
  BY <1>22 DEF backupVars
<1> QED
  BY <1>3, <1>4, <1>5, <1>6, <1>7, <1>8, <1>9, <1>10, <1>11, <1>12, <1>13, <1>14,
     <1>15, <1>16, <1>17, <1>18, <1>19, <1>20, <1>21, <1>22, StepCases

-----------------------------------------------------------------------------
(* Calls go on from where they are, about the backup they were called with. *)
LEMMA CallsPlacedStep ==
  BackupTypeOK /\ CallsPlaced /\ EntriesNamed /\ [BackupNext]_backupVars => CallsPlaced'
<1> SUFFICES ASSUME BackupTypeOK, CallsPlaced, EntriesNamed, [BackupNext]_backupVars
             PROVE  CallsPlaced'
  OBVIOUS
<1> DEFINE Places == {"idle", "done"} \cup Creating \cup Restoring \cup Deleting
<1>0. /\ pc \in [Calls -> Places] /\ id \in [Calls -> Times \cup {0}]
      /\ result \in [Calls -> {"none", "created", "restored"}]
      /\ held \in [Users -> Makers \cup {"none", "disk"}]
      /\ backups \in [Times -> Makers \cup {"none", "disk"}]
      /\ now \in Times /\ 0 \notin Times
      /\ Makers \subseteq Calls /\ Users \subseteq Calls /\ Makers \cap Users = {}
  BY CallsFinite, Numbers DEF BackupTypeOK, Calls, Times
<1> HIDE DEF Places
<1>c. "none" \notin Makers /\ "disk" \notin Makers
  BY CallsNamed
(* A creation goes on, or returns. *)
<1>1. ASSUME NEW c \in Makers, pc[c] \in Creating, id' = id, held' = held,
             removed' = removed,
             \/ \E p \in Creating : pc' = [pc EXCEPT ![c] = p] /\ result' = result
             \/ pc' = pc /\ result' = result
             \/ \E r \in {"none", "created"} :
                   pc' = [pc EXCEPT ![c] = "done"] /\ result' = [result EXCEPT ![c] = r]
      PROVE  CallsPlaced'
  BY <1>0, <1>1 DEF CallsPlaced, Creating, Restoring, Deleting
(* So does a restore or a deletion, and forgets the entry it held if it    *)
(* returns.                                                                *)
<1>2. ASSUME NEW u \in Users, pc[u] # "idle", pc[u] # "done", id' = id,
             removed \subseteq removed',
             \/ /\ \E p \in Restoring \cup Deleting :
                      /\ pc' = [pc EXCEPT ![u] = p]
                      /\ p \in {"verify", "extract"} <=> held'[u] # "none"
                      /\ p = "json" => id[u] \in removed'
                /\ result' = result
             \/ \E r \in {"none", "restored"} :
                   /\ pc' = [pc EXCEPT ![u] = "done"] /\ result' = [result EXCEPT ![u] = r]
                   /\ held'[u] = "none",
             \A v \in Users \ {u} : held'[v] = held[v],
             held'[u] = held[u] \/ held'[u] = "none"
               \/ held'[u] = "disk" \/ (held'[u] \in Makers /\ id[held'[u]] = id[u])
      PROVE  CallsPlaced'
  BY <1>0, <1>c, <1>2 DEF CallsPlaced, Creating, Restoring, Deleting
<1>3. ASSUME NEW c \in Makers, Create(c) PROVE CallsPlaced'
  <2>1. /\ pc[c] = "idle" /\ id[c] = 0 /\ id' = [id EXCEPT ![c] = now]
        /\ pc' = [pc EXCEPT ![c] = "open"] /\ result' = result /\ held' = held
        /\ removed' = removed
    BY <1>3, <1>0 DEF Create, Goto, CallsPlaced, rest
  <2>2. \A d \in Makers : id[d] # 0 => id'[d] = id[d]
    BY <1>0, <2>1
  <2>3. \A u \in Users : id'[u] = id[u]
    BY <1>0, <2>1
  <2>4. \A u \in Users : id'[u] # 0 => \E d \in Makers : id'[d] = id'[u]
    BY <2>2, <2>3 DEF CallsPlaced
  <2>5. \A u \in Users : held'[u] \in Makers => id'[held'[u]] = id'[u]
    <3> SUFFICES ASSUME NEW u \in Users, held[u] \in Makers
                 PROVE  id'[held[u]] = id'[u]
      BY <2>1
    <3>1. id[held[u]] = id[u]
      BY DEF CallsPlaced
    <3>2. CASE id[u] # 0
      BY <2>2, <2>3, <3>1, <3>2
    <3>3. id[u] # 0
      BY <1>0, <1>c DEF CallsPlaced
    <3> QED BY <3>2, <3>3
  <2> QED BY <1>0, <2>1, <2>4, <2>5 DEF CallsPlaced, Creating, Restoring, Deleting
<1>4. ASSUME NEW c \in Makers,
             \/ OpenArchive(c) \/ WriteArchive(c) \/ Checksum(c)
             \/ SaveMetadata(c) \/ CreateFails(c) \/ ArchiveLost(c)
      PROVE  CallsPlaced'
  <2> USE DEF Goto, Return, locals, rest, Creating
  <2>1. CASE OpenArchive(c) BY <1>1, <2>1 DEF OpenArchive
  <2>2. CASE WriteArchive(c) BY <1>1, <2>2 DEF WriteArchive
  <2>3. CASE Checksum(c) BY <1>1, <2>3 DEF Checksum
  <2>4. CASE SaveMetadata(c) BY <1>1, <2>4 DEF SaveMetadata
  <2>5. CASE CreateFails(c) BY <1>1, <2>5 DEF CreateFails
  <2>6. CASE ArchiveLost(c) BY <1>1, <2>6 DEF ArchiveLost
  <2> QED BY <1>4, <2>1, <2>2, <2>3, <2>4, <2>5, <2>6
<1>5. ASSUME NEW u \in Users, NEW r \in {"none", "restored"}, RestoreReturns(u, r),
             pc[u] # "idle", pc[u] # "done", id' = id, removed' = removed
      PROVE  CallsPlaced'
  BY <1>0, <1>2, <1>5 DEF RestoreReturns, Return, Goto
<1>6. ASSUME NEW u \in Users, Lookup(u) PROVE CallsPlaced'
  <2>1. pc[u] = "lookup" /\ id' = id /\ removed' = removed
    BY <1>6 DEF Lookup, rest
  <2>2. CASE backups[id[u]] = "none"
    BY <1>5, <1>6, <2>1, <2>2 DEF Lookup
  <2>3. CASE backups[id[u]] # "none"
    <3>1. /\ held' = [held EXCEPT ![u] = backups[id[u]]]
          /\ pc' = [pc EXCEPT ![u] = "verify"] /\ result' = result
      BY <1>6, <2>3 DEF Lookup, Goto
    <3>2. id[u] \in Times
      BY <1>0, <2>1 DEF CallsPlaced
    <3>3. held'[u] = backups[id[u]]
      BY <1>0, <3>1
    <3>4. held'[u] = "disk" \/ (held'[u] \in Makers /\ id[held'[u]] = id[u])
      BY <1>0, <2>3, <3>2, <3>3 DEF EntriesNamed
    <3>5. "verify" \in Restoring
      BY DEF Restoring
    <3>6. held'[u] # "none" /\ \A v \in Users \ {u} : held'[v] = held[v]
      BY <1>0, <2>3, <3>1, <3>3
    <3>7. \E p \in Restoring \cup Deleting :
            /\ pc' = [pc EXCEPT ![u] = p]
            /\ p \in {"verify", "extract"} <=> held'[u] # "none"
            /\ p = "json" => id[u] \in removed'
      <4>1. "verify" \in Restoring \cup Deleting
        BY <3>5
      <4> WITNESS "verify" \in Restoring \cup Deleting
      <4> QED BY <3>1, <3>6
    <3> QED BY <1>2, <2>1, <3>1, <3>4, <3>6, <3>7
  <2> QED BY <2>2, <2>3
<1>7. ASSUME NEW u \in Users, Verify(u) PROVE CallsPlaced'
  <2>1. pc[u] = "verify" /\ id' = id /\ removed' = removed /\ held[u] # "none"
    BY <1>7 DEF Verify, rest, CallsPlaced
  <2>2. \/ RestoreReturns(u, "none")
        \/ /\ pc' = [pc EXCEPT ![u] = "extract"] /\ result' = result /\ held' = held
    BY <1>7 DEF Verify, Goto
  <2>3. "extract" \in Restoring
    BY DEF Restoring
  <2> QED BY <1>2, <1>5, <2>1, <2>2, <2>3
<1>8. ASSUME NEW u \in Users, Extract(u) \/ RestoreFails(u) PROVE CallsPlaced'
  BY <1>5, <1>8 DEF Extract, RestoreFails, rest
<1>9. ASSUME NEW u \in Users, RemoveArchive(u) PROVE CallsPlaced'
  <2>1. /\ pc[u] = "archive" /\ id' = id /\ result' = result /\ held' = held
        /\ removed' = removed \cup {id[u]} /\ pc' = [pc EXCEPT ![u] = "json"]
    BY <1>9 DEF RemoveArchive, Goto
  <2>2. "json" \in Deleting
    BY DEF Deleting
  <2>3. held[u] = "none"
    BY <2>1 DEF CallsPlaced
  <2> QED BY <1>2, <2>1, <2>2, <2>3
<1>10. ASSUME NEW u \in Users, RemoveMetadata(u) \/ DeleteFails(u) PROVE CallsPlaced'
  <2>1. /\ pc[u] # "idle" /\ pc[u] # "done" /\ id' = id /\ held' = held
        /\ removed' = removed /\ pc' = [pc EXCEPT ![u] = "done"]
        /\ result' = [result EXCEPT ![u] = "none"]
    BY <1>10 DEF RemoveMetadata, DeleteFails, Return, Goto, locals, rest, Deleting
  <2>2. held[u] = "none"
    BY <1>10 DEF CallsPlaced, RemoveMetadata, DeleteFails, Deleting
  <2> QED BY <1>2, <2>1, <2>2
<1>11. ASSUME NEW u \in Users, NEW c \in Makers, Restore(u, id[c]) \/ Delete(u, id[c])
       PROVE  CallsPlaced'
  <2>1. /\ pc[u] = "idle" /\ id[c] # 0 /\ id' = [id EXCEPT ![u] = id[c]]
        /\ held' = held /\ removed' = removed
        /\ \/ \E p \in {"lookup", "archive"} :
                 pc' = [pc EXCEPT ![u] = p] /\ result' = result
           \/ pc' = [pc EXCEPT ![u] = "done"] /\ result' = [result EXCEPT ![u] = "none"]
    BY <1>11 DEF Restore, Delete, Goto, Return, rest
  <2>2. \A d \in Makers : id'[d] = id[d]
    BY <1>0, <2>1
  <2>3. id'[u] = id[c] /\ \A v \in Users \ {u} : id'[v] = id[v]
    BY <1>0, <2>1
  <2>4. held[u] \notin Makers
    BY <1>c, <2>1 DEF CallsPlaced
  <2> QED BY <1>0, <2>1, <2>2, <2>3, <2>4 DEF CallsPlaced, Creating, Restoring, Deleting
<1>12. CASE Restart
  <2>1. /\ id' = id /\ result' = result /\ removed' = removed
        /\ held' = [u \in Users |-> "none"]
        /\ pc' = [c \in Calls |-> IF InProgress(c) THEN "done" ELSE pc[c]]
    BY <1>12 DEF Restart
  <2> QED BY <1>0, <1>c, <2>1 DEF CallsPlaced, InProgress, Creating, Restoring, Deleting
<1>13. ASSUME UNCHANGED <<pc, id, result, held, removed>> PROVE CallsPlaced'
  BY <1>13 DEF CallsPlaced
<1>14. ASSUME Tick \/ UNCHANGED backupVars \/ \E c \in Makers : Retain(c)
       PROVE  CallsPlaced'
  BY <1>13, <1>14 DEF Tick, backupVars, Retain, locals, rest
<1> QED
  BY <1>3, <1>4, <1>6, <1>7, <1>8, <1>9, <1>10, <1>11, <1>12, <1>14, StepCases

-----------------------------------------------------------------------------
(* What is linked is being written, and only RemoveArchive takes a file away. *)
LEMMA FilesLinkedStep ==
  BackupTypeOK /\ CallsPlaced /\ FilesLinked /\ [BackupNext]_backupVars => FilesLinked'
<1> SUFFICES ASSUME BackupTypeOK, CallsPlaced, FilesLinked, [BackupNext]_backupVars
             PROVE  FilesLinked'
  OBVIOUS
<1> DEFINE Places == {"idle", "done"} \cup Creating \cup Restoring \cup Deleting
<1>0. /\ pc \in [Calls -> Places] /\ id \in [Calls -> Times \cup {0}]
      /\ archive \in [Times -> Contents \cup {None}]
      /\ linked \subseteq Makers /\ offset \in [Makers -> 0 .. Chunks]
      /\ Makers \subseteq Calls /\ Users \subseteq Calls /\ Makers \cap Users = {}
      /\ now \in Times /\ Chunks \in Nat \ {0}
  BY CallsFinite, Numbers DEF BackupTypeOK, Calls
<1>t. \A c \in Calls : pc[c] # "idle" => id[c] \in Times
  BY <1>0 DEF CallsPlaced
<1> HIDE DEF Places
(* The steps that leave the files and the writers alone. *)
<1>1. ASSUME NEW c \in Calls, NEW p, pc[c] # "write", p # "write",
             pc' = [pc EXCEPT ![c] = p], archive' = archive, linked' = linked,
             offset' = offset, \A d \in Makers : pc[d] # "idle" => id'[d] = id[d]
      PROVE  FilesLinked'
  BY <1>0, <1>1 DEF FilesLinked
<1>2. ASSUME NEW c \in Makers, Create(c) PROVE FilesLinked'
  <2>1. /\ pc[c] = "idle" /\ pc' = [pc EXCEPT ![c] = "open"]
        /\ id' = [id EXCEPT ![c] = now] /\ archive' = archive /\ linked' = linked
        /\ offset' = offset
    BY <1>2 DEF Create, Goto, files
  <2> QED BY <1>0, <1>1, <2>1
<1>3. ASSUME NEW c \in Makers, OpenArchive(c) PROVE FilesLinked'
  <2>1. /\ pc[c] = "open" /\ pc' = [pc EXCEPT ![c] = "write"] /\ id' = id
        /\ archive' = [archive EXCEPT ![id[c]] = <<>>]
        /\ linked' = linked \cup {c} /\ offset' = offset
    BY <1>3 DEF OpenArchive, Goto
  <2>2. <<>> # None
    BY ContentsNamed
  <2>3. \A d \in Makers : pc[d] # "idle" => archive'[id[d]] \in {archive[id[d]], <<>>}
    BY <1>0, <1>t, <2>1
  <2>4. archive'[id[c]] = <<>>
    BY <1>0, <1>t, <2>1
  <2>5. offset[c] = 0
    BY <2>1 DEF FilesLinked
  <2> QED BY <1>0, <2>1, <2>2, <2>3, <2>4, <2>5 DEF FilesLinked
<1>4. ASSUME NEW c \in Makers, WriteArchive(c) PROVE FilesLinked'
  <2>1. /\ pc[c] = "write" /\ id' = id
        /\ archive' = IF c \in linked
                      THEN [archive EXCEPT ![id[c]] = WithChunk(@, offset[c] + 1, c)]
                      ELSE archive
    BY <1>4 DEF WriteArchive
  <2>2. /\ id[c] \in Times /\ offset[c] \in 0 .. Chunks - 1
        /\ c \in linked => archive[id[c]] \in Contents
    BY <1>0, <1>t, <2>1 DEF FilesLinked
  <2>3. ASSUME NEW d \in Makers, pc[d] # "idle", archive[id[d]] # None
        PROVE  archive'[id[d]] # None
    BY <1>0, <1>t, <2>1, <2>2, <2>3, WithChunkContents
  <2>4. CASE offset[c] + 1 = Chunks
    <3>1. /\ pc' = [pc EXCEPT ![c] = "checksum"] /\ linked' = linked \ {c}
          /\ offset' = [offset EXCEPT ![c] = 0]
      BY <1>4, <2>4 DEF WriteArchive, Goto
    <3> QED BY <1>0, <2>1, <2>3, <3>1 DEF FilesLinked
  <2>5. CASE offset[c] + 1 # Chunks
    <3>1. pc' = pc /\ linked' = linked /\ offset' = [offset EXCEPT ![c] = @ + 1]
      BY <1>4, <2>5 DEF WriteArchive
    <3>2. offset'[c] < Chunks /\ \A d \in Makers \ {c} : offset'[d] = offset[d]
      BY <1>0, <2>2, <2>5, <3>1
    <3> QED BY <1>0, <2>1, <2>3, <3>1, <3>2 DEF FilesLinked
  <2> QED BY <2>4, <2>5
<1>5. ASSUME NEW c \in Makers, Checksum(c) \/ SaveMetadata(c) \/ ArchiveLost(c)
      PROVE  FilesLinked'
  <2>1. /\ pc[c] # "write" /\ id' = id /\ archive' = archive /\ linked' = linked
        /\ offset' = offset
        /\ \E p \in {"save", "done"} : pc' = [pc EXCEPT ![c] = p]
    BY <1>5 DEF Checksum, SaveMetadata, ArchiveLost, Goto, Return, files, locals
  <2> QED BY <1>0, <1>1, <2>1
<1>6. ASSUME NEW c \in Makers, CreateFails(c) PROVE FilesLinked'
  <2>1. /\ id' = id /\ archive' = archive /\ linked' = linked \ {c}
        /\ offset' = [offset EXCEPT ![c] = 0] /\ pc' = [pc EXCEPT ![c] = "done"]
    BY <1>6 DEF CreateFails, Return, Goto
  <2> QED BY <1>0, <2>1 DEF FilesLinked
<1>7. ASSUME NEW u \in Users,
             \/ Lookup(u) \/ Verify(u) \/ Extract(u) \/ RestoreFails(u)
             \/ RemoveMetadata(u) \/ DeleteFails(u)
             \/ \E c \in Makers : Restore(u, id[c]) \/ Delete(u, id[c])
      PROVE  FilesLinked'
  <2> DEFINE Aside ==
        /\ pc[u] # "write" /\ archive' = archive /\ linked' = linked /\ offset' = offset
        /\ \E p \in {"done", "lookup", "verify", "extract", "archive"} :
              pc' = [pc EXCEPT ![u] = p]
        /\ \A d \in Makers : id'[d] = id[d]
  <2>1. Aside
    <3> USE <1>0 DEF Goto, Return, RestoreReturns, files, locals, Deleting
    <3>1. CASE Lookup(u) BY <3>1 DEF Lookup
    <3>2. CASE Verify(u) BY <3>2 DEF Verify
    <3>3. CASE Extract(u) BY <3>3 DEF Extract
    <3>4. CASE RestoreFails(u) BY <3>4 DEF RestoreFails
    <3>5. CASE RemoveMetadata(u) BY <3>5 DEF RemoveMetadata
    <3>6. CASE DeleteFails(u) BY <3>6 DEF DeleteFails
    <3>7. ASSUME NEW c \in Makers, Restore(u, id[c]) PROVE Aside
      BY <3>7 DEF Restore
    <3>8. ASSUME NEW c \in Makers, Delete(u, id[c]) PROVE Aside
      BY <3>8 DEF Delete
    <3> QED BY <1>7, <3>1, <3>2, <3>3, <3>4, <3>5, <3>6, <3>7, <3>8
  <2> QED BY <1>0, <1>1, <2>1
<1>8. ASSUME NEW u \in Users, RemoveArchive(u) PROVE FilesLinked'
  <2>1. /\ pc[u] = "archive" /\ id' = id /\ archive' = [archive EXCEPT ![id[u]] = None]
        /\ linked' = {d \in linked : id[d] # id[u]} /\ offset' = offset
        /\ pc' = [pc EXCEPT ![u] = "json"]
    BY <1>8 DEF RemoveArchive, Goto
  <2>2. \A d \in linked' : archive'[id[d]] = archive[id[d]]
    BY <1>0, <1>t, <2>1 DEF FilesLinked
  <2> QED BY <1>0, <2>1, <2>2 DEF FilesLinked
<1>9. CASE Restart
  <2>1. /\ linked' = {} /\ offset' = [c \in Makers |-> 0]
        /\ pc' = [c \in Calls |-> IF InProgress(c) THEN "done" ELSE pc[c]]
    BY <1>9 DEF Restart
  <2>2. \A c \in Makers : pc'[c] # "write"
    BY <1>0, <2>1 DEF InProgress, Creating
  <2> QED BY <2>1, <2>2 DEF FilesLinked
<1>10. ASSUME Tick \/ UNCHANGED backupVars \/ \E c \in Makers : Retain(c)
       PROVE  FilesLinked'
  <2>1. UNCHANGED <<pc, id, archive, linked, offset>>
    BY <1>10 DEF Tick, backupVars, Retain, locals, files
  <2> QED BY <2>1 DEF FilesLinked
<1> QED
  BY <1>2, <1>3, <1>4, <1>5, <1>6, <1>7, <1>8, <1>9, <1>10, StepCases

-----------------------------------------------------------------------------
(* Files, checksums and entries appear under the names of creations alone. *)
LEMMA EntriesNamedStep ==
  BackupTypeOK /\ CallsPlaced /\ EntriesNamed /\ [BackupNext]_backupVars => EntriesNamed'
<1> SUFFICES ASSUME BackupTypeOK, CallsPlaced, EntriesNamed, [BackupNext]_backupVars
             PROVE  EntriesNamed'
  OBVIOUS
<1>0. /\ id \in [Calls -> Times \cup {0}]
      /\ archive \in [Times -> Contents \cup {None}]
      /\ json \in [Times -> Contents \cup {None}]
      /\ backups \in [Times -> Makers \cup {"none", "disk"}]
      /\ Makers \subseteq Calls /\ Users \subseteq Calls /\ Makers \cap Users = {}
      /\ now \in Times /\ 0 \notin Times
      /\ "none" \notin Makers /\ "disk" \notin Makers
  BY CallsFinite, CallsNamed DEF BackupTypeOK, Calls, Times
<1>t. \A c \in Calls : pc[c] # "idle" => id[c] \in Times
  BY <1>0 DEF CallsPlaced
(* A step that changes at most what is under the name of a creation, and   *)
(* makes no entry.                                                         *)
<1>1. ASSUME NEW c \in Makers, \A d \in Makers : id'[d] = id[d],
             \A t \in Times \ {id[c]} :
                archive'[t] = archive[t] /\ json'[t] = json[t] /\ loaded'[t] = loaded[t],
             backups' = backups
      PROVE  EntriesNamed'
  BY <1>0, <1>1 DEF EntriesNamed
<1>2. ASSUME \A d \in Makers : id'[d] = id[d],
             archive' = archive, json' = json, loaded' = loaded, backups' = backups
      PROVE  EntriesNamed'
  BY <1>0, <1>2 DEF EntriesNamed
<1>3. ASSUME NEW c \in Makers, Create(c) PROVE EntriesNamed'
  <2>1. /\ id[c] = 0 /\ id' = [id EXCEPT ![c] = now]
        /\ backups' = [backups EXCEPT ![now] = c]
        /\ archive' = archive /\ json' = json /\ loaded' = loaded
    BY <1>3 DEF Create, CallsPlaced, files, Calls
  <2>2. id'[c] = now /\ \A d \in Makers \ {c} : id'[d] = id[d]
    BY <1>0, <2>1
  <2>3. backups'[now] = c /\ \A t \in Times \ {now} : backups'[t] = backups[t]
    BY <1>0, <2>1
  <2>4. \A t \in Times \ {now} : backups[t] \in Makers => backups[t] # c
    BY <1>0, <2>1 DEF EntriesNamed
  <2> QED BY <1>0, <2>1, <2>2, <2>3, <2>4 DEF EntriesNamed
<1>4. ASSUME NEW c \in Makers,
             \/ OpenArchive(c) \/ WriteArchive(c) \/ Checksum(c)
             \/ SaveMetadata(c) \/ CreateFails(c) \/ ArchiveLost(c) \/ Retain(c)
      PROVE  EntriesNamed'
  <2> USE <1>0, <1>1, <1>2 DEF locals, memory, files
  <2>1. CASE OpenArchive(c) BY <2>1 DEF OpenArchive
  <2>2. CASE WriteArchive(c) BY <2>2 DEF WriteArchive
  <2>3. CASE Checksum(c) BY <2>3 DEF Checksum
  <2>4. CASE SaveMetadata(c) BY <2>4 DEF SaveMetadata
  <2>5. CASE CreateFails(c) BY <2>5 DEF CreateFails
  <2>6. CASE ArchiveLost(c) BY <2>6 DEF ArchiveLost
  <2>7. CASE Retain(c) BY <2>7 DEF Retain
  <2> QED BY <1>4, <2>1, <2>2, <2>3, <2>4, <2>5, <2>6, <2>7
<1>5. ASSUME NEW u \in Users,
             \/ Lookup(u) \/ Verify(u) \/ Extract(u) \/ RestoreFails(u)
             \/ DeleteFails(u) \/ \E c \in Makers : Restore(u, id[c]) \/ Delete(u, id[c])
      PROVE  EntriesNamed'
  <2>1. /\ \A d \in Makers : id'[d] = id[d]
        /\ archive' = archive /\ json' = json /\ loaded' = loaded /\ backups' = backups
    BY <1>0, <1>5 DEF Lookup, Verify, Extract, RestoreFails, DeleteFails, Restore,
                      Delete, files, locals
  <2> QED BY <1>2, <2>1
<1>6. ASSUME NEW u \in Users, RemoveArchive(u) PROVE EntriesNamed'
  <2>1. /\ id' = id /\ archive' = [archive EXCEPT ![id[u]] = None]
        /\ json' = json /\ loaded' = loaded /\ backups' = backups
    BY <1>6 DEF RemoveArchive, memory
  <2> QED BY <1>0, <2>1 DEF EntriesNamed
<1>7. ASSUME NEW u \in Users, RemoveMetadata(u) PROVE EntriesNamed'
  <2>1. /\ id' = id /\ json' = [json EXCEPT ![id[u]] = None]
        /\ archive' = archive /\ loaded' = loaded
        /\ backups' = [backups EXCEPT ![id[u]] = "none"]
    BY <1>7 DEF RemoveMetadata, locals
  <2> QED BY <1>0, <2>1 DEF EntriesNamed
<1>8. CASE Restart
  <2>1. /\ id' = id /\ archive' = archive /\ json' = json /\ loaded' = json
        /\ backups' = [t \in Times |-> IF json[t] = None THEN "none" ELSE "disk"]
    BY <1>8 DEF Restart, files
  <2> QED BY <1>0, <2>1 DEF EntriesNamed
<1>9. CASE Tick \/ UNCHANGED backupVars
  BY <1>2, <1>9 DEF Tick, backupVars, files, memory, locals
<1> QED
  BY <1>3, <1>4, <1>5, <1>6, <1>7, <1>8, <1>9, StepCases

-----------------------------------------------------------------------------
(* The place of the one restore and the lock pass with the calls. *)
LEMMA OneAtATimeStep ==
  BackupTypeOK /\ CallsPlaced /\ OneAtATime /\ [BackupNext]_backupVars => OneAtATime'
<1> SUFFICES ASSUME BackupTypeOK, CallsPlaced, OneAtATime, [BackupNext]_backupVars
             PROVE  OneAtATime'
  OBVIOUS
<1> DEFINE Places == {"idle", "done"} \cup Creating \cup Restoring \cup Deleting
<1>0. /\ pc \in [Calls -> Places]
      /\ Makers \subseteq Calls /\ Users \subseteq Calls /\ Makers \cap Users = {}
      /\ restoring \in BOOLEAN /\ "free" \notin Users /\ "retention" \notin Users
  BY CallsFinite, CallsNamed DEF BackupTypeOK, Calls
<1> HIDE DEF Places
(* A step that moves no call into or out of a restore or a deletion. *)
<1>1. ASSUME lock' = lock \/ (lock \notin Users /\ lock' \notin Users),
             restoring' = restoring,
             \A u \in Users : pc'[u] \in Restoring <=> pc[u] \in Restoring,
             \A u \in Users : pc'[u] \in Deleting <=> pc[u] \in Deleting
      PROVE  OneAtATime'
  BY <1>0, <1>1 DEF OneAtATime
(* The one restore ends. *)
<1>2. ASSUME NEW u \in Users, NEW r \in {"none", "restored"}, RestoreReturns(u, r),
             pc[u] \in Restoring, lock' = lock
      PROVE  OneAtATime'
  BY <1>0, <1>2 DEF OneAtATime, RestoreReturns, Return, Goto, Restoring, Deleting
(* The one deletion ends. *)
<1>3. ASSUME NEW u \in Users, pc[u] \in Deleting, pc' = [pc EXCEPT ![u] = "done"],
             lock' = "free", restoring' = restoring
      PROVE  OneAtATime'
  BY <1>0, <1>3 DEF OneAtATime, Restoring, Deleting
<1>4. ASSUME NEW c \in Makers,
             \/ Create(c) \/ OpenArchive(c) \/ WriteArchive(c) \/ Checksum(c)
             \/ SaveMetadata(c) \/ CreateFails(c) \/ ArchiveLost(c)
      PROVE  OneAtATime'
  <2>1. lock' = lock /\ restoring' = restoring /\ \A u \in Users : pc'[u] = pc[u]
    <3> USE <1>0 DEF memory, Goto, Return
    <3>1. CASE Create(c) BY <3>1 DEF Create
    <3>2. CASE OpenArchive(c) BY <3>2 DEF OpenArchive
    <3>3. CASE WriteArchive(c) BY <3>3 DEF WriteArchive
    <3>4. CASE Checksum(c) BY <3>4 DEF Checksum
    <3>5. CASE SaveMetadata(c) BY <3>5 DEF SaveMetadata
    <3>6. CASE CreateFails(c) BY <3>6 DEF CreateFails
    <3>7. CASE ArchiveLost(c) BY <3>7 DEF ArchiveLost
    <3> QED BY <1>4, <3>1, <3>2, <3>3, <3>4, <3>5, <3>6, <3>7
  <2> QED BY <1>1, <2>1
<1>5. ASSUME NEW c \in Makers, Retain(c) PROVE OneAtATime'
  <2>1. pc' = pc /\ restoring' = restoring /\ lock = "free"
        /\ lock' \in {"free", "retention"}
    BY <1>5 DEF Retain
  <2> QED BY <1>0, <1>1, <2>1
<1>6. ASSUME NEW u \in Users, Lookup(u) \/ Verify(u) \/ Extract(u) \/ RestoreFails(u)
      PROVE  OneAtATime'
  <2>1. lock' = lock /\ pc[u] \in Restoring
    BY <1>6 DEF Lookup, Verify, Extract, RestoreFails, Restoring
  <2>2. \/ \E r \in {"none", "restored"} : RestoreReturns(u, r)
        \/ /\ \E p \in {"verify", "extract"} : pc' = [pc EXCEPT ![u] = p]
           /\ restoring' = restoring
    BY <1>6 DEF Lookup, Verify, Extract, RestoreFails, Goto
  <2>3. ASSUME NEW p \in {"verify", "extract"}, pc' = [pc EXCEPT ![u] = p],
               restoring' = restoring
        PROVE  OneAtATime'
    BY <1>0, <1>1, <2>1, <2>3 DEF Restoring, Deleting
  <2> QED BY <1>2, <2>1, <2>2, <2>3
<1>7. ASSUME NEW u \in Users, RemoveArchive(u) PROVE OneAtATime'
  <2>1. /\ pc[u] = "archive" /\ pc' = [pc EXCEPT ![u] = "json"]
        /\ lock' = lock /\ restoring' = restoring
    BY <1>7 DEF RemoveArchive, Goto, memory
  <2> QED BY <1>0, <1>1, <2>1 DEF Restoring, Deleting
<1>8. ASSUME NEW u \in Users, RemoveMetadata(u) \/ DeleteFails(u) PROVE OneAtATime'
  BY <1>3, <1>8 DEF RemoveMetadata, DeleteFails, Return, Goto, Deleting
<1>9. ASSUME NEW u \in Users, NEW c \in Makers, Restore(u, id[c]) PROVE OneAtATime'
  <2>1. pc[u] = "idle" /\ lock' = lock
    BY <1>9 DEF Restore
  <2>2. CASE restoring
    <3>1. restoring' = restoring /\ pc' = [pc EXCEPT ![u] = "done"]
      BY <1>9, <2>2 DEF Restore, Return, Goto
    <3> QED BY <1>0, <1>1, <2>1, <3>1 DEF Restoring, Deleting
  <2>3. CASE ~restoring
    <3>1. restoring' = TRUE /\ pc' = [pc EXCEPT ![u] = "lookup"]
      BY <1>9, <2>3 DEF Restore, Goto
    <3> QED BY <1>0, <2>1, <2>3, <3>1 DEF OneAtATime, Restoring, Deleting
  <2> QED BY <2>2, <2>3
<1>10. ASSUME NEW u \in Users, NEW c \in Makers, Delete(u, id[c]) PROVE OneAtATime'
  <2>1. pc[u] = "idle" /\ lock = "free" /\ restoring' = restoring
    BY <1>10 DEF Delete
  <2>2. \/ lock' = lock /\ pc' = [pc EXCEPT ![u] = "done"]
        \/ lock' = u /\ pc' = [pc EXCEPT ![u] = "archive"]
    BY <1>10 DEF Delete, Return, Goto
  <2> QED BY <1>0, <2>1, <2>2 DEF OneAtATime, Restoring, Deleting
<1>11. CASE Restart
  <2>1. /\ lock' = "free" /\ restoring' = FALSE
        /\ pc' = [c \in Calls |-> IF InProgress(c) THEN "done" ELSE pc[c]]
    BY <1>11 DEF Restart
  <2> QED BY <1>0, <2>1 DEF OneAtATime, InProgress, Restoring, Deleting
<1>12. CASE Tick \/ UNCHANGED backupVars
  BY <1>1, <1>12 DEF Tick, backupVars, memory
<1> QED
  BY <1>4, <1>5, <1>6, <1>7, <1>8, <1>9, <1>10, <1>11, <1>12, StepCases

-----------------------------------------------------------------------------
(* Only Checksum gives a call its checksum, and a restart takes it. *)
LEMMA NoChecksumYetStep ==
  BackupTypeOK /\ CallsPlaced /\ NoChecksumYet /\ [BackupNext]_backupVars
    => NoChecksumYet'
<1> SUFFICES ASSUME BackupTypeOK, CallsPlaced, NoChecksumYet, [BackupNext]_backupVars
             PROVE  NoChecksumYet'
  OBVIOUS
<1> DEFINE Places == {"idle", "done"} \cup Creating \cup Restoring \cup Deleting
<1>0. /\ pc \in [Calls -> Places] /\ sum \in [Makers -> Contents \cup {None}]
      /\ Makers \subseteq Calls /\ Users \subseteq Calls /\ Makers \cap Users = {}
  BY CallsFinite DEF BackupTypeOK, Calls
<1> HIDE DEF Places
<1> USE DEF NoChecksumYet, Goto, Return, locals, memory
<1>1. ASSUME NEW c \in Makers,
             \/ Create(c) \/ OpenArchive(c) \/ WriteArchive(c) \/ Checksum(c)
             \/ SaveMetadata(c) \/ CreateFails(c) \/ ArchiveLost(c) \/ Retain(c)
      PROVE  NoChecksumYet'
  <2> USE <1>0
  <2>1. CASE Create(c) BY <2>1 DEF Create
  <2>2. CASE OpenArchive(c) BY <2>2 DEF OpenArchive
  <2>3. CASE WriteArchive(c) BY <2>3 DEF WriteArchive
  <2>4. CASE Checksum(c) BY <2>4 DEF Checksum
  <2>5. CASE SaveMetadata(c) BY <2>5 DEF SaveMetadata
  <2>6. CASE CreateFails(c) BY <2>6 DEF CreateFails
  <2>7. CASE ArchiveLost(c) BY <2>7 DEF ArchiveLost
  <2>8. CASE Retain(c) BY <2>8 DEF Retain
  <2> QED BY <1>1, <2>1, <2>2, <2>3, <2>4, <2>5, <2>6, <2>7, <2>8
<1>2. ASSUME NEW u \in Users,
             \/ Lookup(u) \/ Verify(u) \/ Extract(u) \/ RestoreFails(u)
             \/ RemoveArchive(u) \/ RemoveMetadata(u) \/ DeleteFails(u)
             \/ \E c \in Makers : Restore(u, id[c]) \/ Delete(u, id[c])
      PROVE  NoChecksumYet'
  <2> DEFINE Aside == sum' = sum /\ \A c \in Makers : pc'[c] = pc[c]
  <2>1. Aside
    <3> USE <1>0 DEF RestoreReturns
    <3>1. CASE Lookup(u) BY <3>1 DEF Lookup
    <3>2. CASE Verify(u) BY <3>2 DEF Verify
    <3>3. CASE Extract(u) BY <3>3 DEF Extract
    <3>4. CASE RestoreFails(u) BY <3>4 DEF RestoreFails
    <3>5. CASE RemoveArchive(u) BY <3>5 DEF RemoveArchive
    <3>6. CASE RemoveMetadata(u) BY <3>6 DEF RemoveMetadata
    <3>7. CASE DeleteFails(u) BY <3>7 DEF DeleteFails
    <3>8. ASSUME NEW c \in Makers, Restore(u, id[c]) PROVE Aside
      BY <3>8 DEF Restore
    <3>9. ASSUME NEW c \in Makers, Delete(u, id[c]) PROVE Aside
      BY <3>9 DEF Delete
    <3> QED BY <1>2, <3>1, <3>2, <3>3, <3>4, <3>5, <3>6, <3>7, <3>8, <3>9
  <2> QED BY <2>1
<1>3. CASE Restart
  BY <1>3 DEF Restart
<1>4. CASE Tick \/ UNCHANGED backupVars
  BY <1>4 DEF Tick, backupVars
<1> QED BY <1>1, <1>2, <1>3, <1>4, StepCases

(***************************************************************************)
(* The story of a backup without a namesake.                               *)
(***************************************************************************)
MakerOf(c) == ArchiveOf(c) /\ ChecksumsOf(c) /\ KeptOf(c)

(* What the backup of c is made of. *)
SameBackup(c) ==
    LET t == id[c]
    IN  /\ id'[c] = id[c] /\ pc'[c] = pc[c] /\ result'[c] = result[c]
        /\ sum'[c] = sum[c] /\ offset'[c] = offset[c]
        /\ c \in linked' <=> c \in linked
        /\ t \in removed' <=> t \in removed
        /\ archive'[t] = archive[t] /\ json'[t] = json[t]
        /\ loaded'[t] = loaded[t] /\ backups'[t] = backups[t]

(* A step leaves this call alone. *)
SameCall(u) ==
    /\ id'[u] = id[u] /\ pc'[u] = pc[u] /\ result'[u] = result[u]
    /\ restored'[u] = restored[u]

(* A backup that a step leaves alone keeps its story. *)
LEMMA SameBackupKept ==
  ASSUME NEW c \in Makers, MakerOf(c), SameBackup(c)
  PROVE  MakerOf(c)'
<1>1. /\ id'[c] = id[c] /\ pc'[c] = pc[c] /\ result'[c] = result[c]
      /\ sum'[c] = sum[c] /\ offset'[c] = offset[c]
      /\ c \in linked' <=> c \in linked
      /\ id[c] \in removed' <=> id[c] \in removed
      /\ archive'[id[c]] = archive[id[c]] /\ json'[id[c]] = json[id[c]]
      /\ loaded'[id[c]] = loaded[id[c]] /\ backups'[id[c]] = backups[id[c]]
  BY DEF SameBackup
<1>2. ArchiveOf(c)'
  BY <1>1 DEF MakerOf, ArchiveOf, VouchedFor, Prefix, Whole
<1>3. ChecksumsOf(c)'
  BY <1>1 DEF MakerOf, ChecksumsOf, Whole
<1>4. KeptOf(c)'
  BY <1>1 DEF MakerOf, KeptOf, Whole
<1> QED BY <1>2, <1>3, <1>4 DEF MakerOf

(* The types a step of the story reads. *)
BackupTypes ==
    /\ id \in [Calls -> Times \cup {0}] /\ Times \subseteq Nat \ {0} /\ now \in Times
    /\ archive \in [Times -> Contents \cup {None}]
    /\ json \in [Times -> Contents \cup {None}]
    /\ loaded \in [Times -> Contents \cup {None}]
    /\ backups \in [Times -> Makers \cup {"none", "disk"}]
    /\ sum \in [Makers -> Contents \cup {None}]
    /\ offset \in [Makers -> 0 .. Chunks]
    /\ held \in [Users -> Makers \cup {"none", "disk"}]
    /\ linked \subseteq Makers
    /\ DOMAIN pc = Calls /\ pc = [c \in Calls |-> pc[c]]
    /\ DOMAIN result = Calls /\ result = [c \in Calls |-> result[c]]
    /\ DOMAIN restored = Users /\ restored = [u \in Users |-> restored[u]]
    /\ Makers \subseteq Calls /\ Users \subseteq Calls /\ Makers \cap Users = {}
    /\ \A c \in Calls : pc[c] # "idle" => id[c] \in Times
    /\ \A c \in Calls : id[c] # 0 => id[c] \in Times

(* They follow from the invariant. *)
LEMMA BackupTyped == BackupTypeOK /\ CallsPlaced => BackupTypes
BY CallsFinite, Numbers DEF BackupTypeOK, CallsPlaced, BackupTypes, Calls, Times

(* Another call's creation step does not touch it. *)
LEMMA OtherMaker ==
  ASSUME BackupTypes, NEW c \in Makers, NEW d \in Makers, d # c, Alone(c), Alone(c)',
         \/ Create(d) \/ OpenArchive(d) \/ WriteArchive(d) \/ Checksum(d)
         \/ SaveMetadata(d) \/ CreateFails(d) \/ ArchiveLost(d) \/ Retain(d)
  PROVE  SameBackup(c) /\ \A u \in Users : SameCall(u)
<1> USE DEF BackupTypes, SameBackup, SameCall, Goto, Return, files, memory, locals, rest
<1>1. id[c] \in Times /\ id[d] # id[c]
  BY DEF Alone
<1>2. CASE Create(d)
  <2>1. now # id[c]
    BY <1>2 DEF Create, Alone
  <2> QED BY <1>1, <1>2, <2>1 DEF Create
<1>3. CASE OpenArchive(d) BY <1>1, <1>3 DEF OpenArchive
<1>4. CASE WriteArchive(d) BY <1>1, <1>4 DEF WriteArchive
<1>5. CASE Checksum(d) BY <1>1, <1>5 DEF Checksum
<1>6. CASE SaveMetadata(d) BY <1>1, <1>6 DEF SaveMetadata
<1>7. CASE CreateFails(d) BY <1>1, <1>7 DEF CreateFails
<1>8. CASE ArchiveLost(d) BY <1>1, <1>8 DEF ArchiveLost
<1>9. CASE Retain(d) BY <1>1, <1>9 DEF Retain
<1> QED BY <1>2, <1>3, <1>4, <1>5, <1>6, <1>7, <1>8, <1>9

(* The steps of its own creation. *)
LEMMA OwnMaker ==
  ASSUME BackupTypes, CallsPlaced, FilesLinked, EntriesNamed, NoChecksumYet,
         NEW c \in Makers, id[c] # 0 => Alone(c) /\ MakerOf(c), Alone(c)',
         \/ Create(c) \/ OpenArchive(c) \/ WriteArchive(c) \/ Checksum(c)
         \/ SaveMetadata(c) \/ CreateFails(c) \/ ArchiveLost(c) \/ Retain(c)
  PROVE  MakerOf(c)'
<1> DEFINE t == id[c]
<1>n. /\ \A d \in Makers, n \in 0 .. Chunks : Prefix(d, n) # None
      /\ Whole(c) = Prefix(c, Chunks) /\ Whole(c) # None /\ Chunks \in Nat \ {0}
      /\ <<>> = Prefix(c, 0) /\ <<>> # None
  BY ContentsNamed, Numbers
<1>c. c # "none" /\ c # "disk"
  BY CallsNamed
<1>w. Whole(c)' = Whole(c) /\ \A n : Prefix(c, n)' = Prefix(c, n)
  BY DEF Whole, Prefix
<1>o. ASSUME id[c] # 0 PROVE ArchiveOf(c) /\ ChecksumsOf(c) /\ KeptOf(c) /\ t \in Times
  BY <1>o DEF MakerOf, BackupTypes
<1>1. CASE Create(c)
  <2>1. /\ pc[c] = "idle" /\ id[c] = 0 /\ id'[c] = now /\ result[c] = "none"
        /\ backups'[now] = c /\ pc'[c] = "open" /\ result'[c] = "none"
        /\ UNCHANGED <<archive, json, loaded, sum, linked, offset, removed>>
    BY <1>1 DEF Create, CallsPlaced, Goto, files, rest, BackupTypes
  <2>2. \A d \in Makers : id[d] # now
    <3>1. id[c] # now
      BY <2>1 DEF BackupTypes
    <3>2. \A d \in Makers \ {c} : id'[d] = id[d]
      BY <1>1 DEF Create, BackupTypes
    <3> QED BY <2>1, <3>1, <3>2 DEF Alone
  <2>3. /\ archive'[now] = None /\ json'[now] = None /\ loaded'[now] = None
        /\ sum'[c] = None /\ c \notin linked'
    BY <2>1, <2>2 DEF EntriesNamed, BackupTypes, NoChecksumYet, FilesLinked
  <2>4. ArchiveOf(c)' /\ ChecksumsOf(c)'
    BY <1>n, <1>w, <2>1, <2>3 DEF ArchiveOf, ChecksumsOf, VouchedFor
  <2>5. KeptOf(c)'
    BY <1>n, <1>w, <2>1, <2>3 DEF KeptOf, Creating
  <2> QED BY <2>4, <2>5 DEF MakerOf
<1>2. CASE OpenArchive(c)
  <2>1. /\ pc[c] = "open" /\ id' = id /\ archive'[t] = <<>> /\ c \in linked'
        /\ pc'[c] = "write" /\ result'[c] = result[c]
        /\ UNCHANGED <<json, loaded, backups, sum, offset, removed>>
    BY <1>2 DEF OpenArchive, CallsPlaced, Goto, memory, rest, BackupTypes
  <2>2. /\ id[c] # 0 /\ offset[c] = 0 /\ sum[c] = None /\ result[c] # "created"
    BY <2>1 DEF BackupTypes, FilesLinked, NoChecksumYet, CallsPlaced
  <2>3. ArchiveOf(c) /\ ChecksumsOf(c) /\ KeptOf(c) /\ t \in Times
    BY <1>o, <2>2
  <2>4. ArchiveOf(c)' /\ ChecksumsOf(c)'
    BY <1>n, <1>w, <2>1, <2>2, <2>3 DEF ArchiveOf, ChecksumsOf, VouchedFor
  <2>5. KeptOf(c)'
    BY <1>n, <1>w, <2>1, <2>2, <2>3 DEF KeptOf, Creating
  <2> QED BY <2>4, <2>5 DEF MakerOf
<1>3. CASE WriteArchive(c)
  <2>1. /\ pc[c] = "write" /\ id' = id /\ result'[c] = result[c]
        /\ UNCHANGED <<json, loaded, backups, sum, removed>>
    BY <1>3 DEF WriteArchive, CallsPlaced, Goto, memory, rest, BackupTypes
  <2>2. /\ id[c] # 0 /\ offset[c] \in 0 .. Chunks - 1 /\ sum[c] = None
        /\ result[c] # "created"
    <3>1. id[c] # 0 /\ sum[c] = None /\ result[c] # "created"
      BY <2>1 DEF BackupTypes, NoChecksumYet, CallsPlaced
    <3>2. offset[c] \in 0 .. Chunks /\ offset[c] < Chunks
      BY <2>1 DEF BackupTypes, FilesLinked
    <3> QED BY <1>n, <3>1, <3>2
  <2>3. ArchiveOf(c) /\ ChecksumsOf(c) /\ KeptOf(c) /\ t \in Times
    BY <1>o, <2>2
  <2>4. IF c \in linked THEN archive'[t] = Prefix(c, offset[c] + 1)
                        ELSE archive'[t] = None
    <3>1. CASE c \in linked
      <4>1. archive[t] = Prefix(c, offset[c]) /\ archive[t] \in Contents
        BY <1>n, <2>2, <2>3, <3>1, ContentsNamed DEF ArchiveOf
      <4>2. archive'[t] = WithChunk(archive[t], offset[c] + 1, c)
        BY <1>3, <2>3, <3>1 DEF WriteArchive, BackupTypes
      <4> QED BY <2>2, <3>1, <4>1, <4>2, WithChunkContents
    <3>2. CASE c \notin linked
      BY <1>3, <2>1, <2>3, <3>2 DEF WriteArchive, ArchiveOf
    <3> QED BY <3>1, <3>2
  <2>5. CASE offset[c] + 1 = Chunks
    <3>1. pc'[c] = "checksum" /\ c \notin linked'
      BY <1>3, <2>5 DEF WriteArchive, Goto, BackupTypes
    <3>2. archive'[t] \in {None, Whole(c)} /\ (c \in linked => archive'[t] = Whole(c))
      BY <1>n, <2>4, <2>5
    <3>3. ArchiveOf(c)' /\ ChecksumsOf(c)'
      BY <1>n, <1>w, <2>1, <2>2, <2>3, <3>1, <3>2 DEF ArchiveOf, ChecksumsOf, VouchedFor
    <3>4. KeptOf(c)'
      BY <1>n, <1>w, <2>1, <2>2, <2>3, <3>1, <3>2 DEF KeptOf, Creating
    <3> QED BY <3>3, <3>4 DEF MakerOf
  <2>6. CASE offset[c] + 1 # Chunks
    <3>1. pc' = pc /\ linked' = linked /\ offset'[c] = offset[c] + 1
      BY <1>3, <2>6 DEF WriteArchive, BackupTypes
    <3>2. ArchiveOf(c)' /\ ChecksumsOf(c)'
      BY <1>n, <1>w, <2>1, <2>2, <2>3, <2>4, <3>1 DEF ArchiveOf, ChecksumsOf, VouchedFor
    <3>3. KeptOf(c)'
      BY <1>n, <1>w, <2>1, <2>2, <2>3, <3>1 DEF KeptOf, Creating
    <3> QED BY <3>2, <3>3 DEF MakerOf
  <2> QED BY <2>5, <2>6
<1>4. CASE Checksum(c)
  <2>1. /\ pc[c] = "checksum" /\ id' = id /\ sum'[c] = archive[t] /\ archive[t] # None
        /\ pc'[c] = "save" /\ result'[c] = result[c]
        /\ UNCHANGED <<archive, json, loaded, backups, linked, removed>>
    BY <1>4 DEF Checksum, CallsPlaced, Goto, files, memory, rest, BackupTypes
  <2>2. id[c] # 0 /\ result[c] # "created" /\ c \notin linked
    BY <2>1 DEF BackupTypes, FilesLinked, CallsPlaced
  <2>3. ArchiveOf(c) /\ ChecksumsOf(c) /\ KeptOf(c) /\ t \in Times
    BY <1>o, <2>2
  <2>4. archive[t] = Whole(c)
    BY <2>1, <2>3 DEF ArchiveOf
  <2>5. ArchiveOf(c)' /\ ChecksumsOf(c)'
    BY <1>n, <1>w, <2>1, <2>2, <2>3, <2>4 DEF ArchiveOf, ChecksumsOf, VouchedFor
  <2>6. KeptOf(c)'
    BY <1>n, <1>w, <2>1, <2>2, <2>3, <2>4 DEF KeptOf, Creating
  <2> QED BY <2>5, <2>6 DEF MakerOf
<1>5. CASE SaveMetadata(c)
  <2>1. /\ pc[c] = "save" /\ id' = id /\ json'[t] = sum[c] /\ pc'[c] = "done"
        /\ UNCHANGED <<archive, loaded, backups, sum, linked, removed>>
    BY <1>5 DEF SaveMetadata, CallsPlaced, Return, Goto, locals, rest, BackupTypes
  <2>2. id[c] # 0 /\ c \notin linked
    BY <2>1 DEF BackupTypes, FilesLinked
  <2>3. ArchiveOf(c) /\ ChecksumsOf(c) /\ KeptOf(c) /\ t \in Times
    BY <1>o, <2>2
  <2>4. sum[c] = Whole(c)
    BY <2>1, <2>3 DEF ChecksumsOf
  <2>5. ArchiveOf(c)' /\ ChecksumsOf(c)'
    BY <1>n, <1>w, <2>1, <2>2, <2>3, <2>4 DEF ArchiveOf, ChecksumsOf, VouchedFor
  <2>6. KeptOf(c)'
    BY <1>n, <1>w, <2>1, <2>2, <2>3, <2>4 DEF KeptOf, Creating
  <2> QED BY <2>5, <2>6 DEF MakerOf
<1>6. CASE CreateFails(c)
  <2>1. /\ pc[c] \in Creating /\ id' = id /\ json'[t] \in {json[t], None}
        /\ pc'[c] = "done" /\ result'[c] = "none" /\ c \notin linked'
        /\ UNCHANGED <<archive, loaded, backups, sum, removed>>
    BY <1>6 DEF CreateFails, CallsPlaced, Return, Goto, memory, BackupTypes
  <2>2. id[c] # 0
    BY <2>1 DEF BackupTypes, Creating
  <2>3. ArchiveOf(c) /\ ChecksumsOf(c) /\ KeptOf(c) /\ t \in Times
    BY <1>o, <2>2
  <2>4. ArchiveOf(c)' /\ ChecksumsOf(c)'
    BY <1>n, <1>w, <2>1, <2>2, <2>3 DEF ArchiveOf, ChecksumsOf, VouchedFor
  <2>5. KeptOf(c)'
    BY <1>n, <1>w, <2>1, <2>2, <2>3 DEF KeptOf, Creating
  <2> QED BY <2>4, <2>5 DEF MakerOf
<1>7. CASE ArchiveLost(c)
  <2>1. /\ pc[c] = "checksum" /\ id' = id /\ archive[t] = None
        /\ pc'[c] = "done" /\ result'[c] = "none"
        /\ UNCHANGED <<archive, json, loaded, backups, sum, linked, removed>>
    BY <1>7 DEF ArchiveLost, CallsPlaced, Return, Goto, files, memory, locals, rest,
                BackupTypes
  <2>2. id[c] # 0 /\ c \notin linked
    BY <2>1 DEF BackupTypes, FilesLinked
  <2>3. ArchiveOf(c) /\ ChecksumsOf(c) /\ KeptOf(c) /\ t \in Times
    BY <1>o, <2>2
  <2>4. ArchiveOf(c)' /\ ChecksumsOf(c)'
    BY <1>n, <1>w, <2>1, <2>2, <2>3 DEF ArchiveOf, ChecksumsOf, VouchedFor
  <2>5. KeptOf(c)'
    BY <1>n, <1>w, <2>1, <2>2, <2>3 DEF KeptOf, Creating
  <2> QED BY <2>4, <2>5 DEF MakerOf
<1>8. CASE Retain(c)
  <2>1. SameBackup(c) /\ id' = id
    BY <1>8 DEF Retain, SameBackup, files, locals, rest
  <2>2. id[c] # 0
    BY <2>1 DEF Alone
  <2> QED BY <2>1, <2>2, SameBackupKept
<1> QED BY <1>1, <1>2, <1>3, <1>4, <1>5, <1>6, <1>7, <1>8

(* What a restore or a deletion does to it. *)
LEMMA UserMaker ==
  ASSUME BackupTypes, CallsPlaced, NEW c \in Makers, Alone(c), MakerOf(c),
         NEW u \in Users,
         \/ Lookup(u) \/ Verify(u) \/ Extract(u) \/ RestoreFails(u)
         \/ RemoveArchive(u) \/ RemoveMetadata(u) \/ DeleteFails(u)
         \/ \E d \in Makers : Restore(u, id[d]) \/ Delete(u, id[d])
  PROVE  MakerOf(c)'
<1> DEFINE t == id[c]
<1>0. t \in Times
  BY DEF Alone, BackupTypes
<1>n. Whole(c) # None /\ \A n \in 0 .. Chunks : Prefix(c, n) # None
  <2>1. Chunks \in 0 .. Chunks
    BY Numbers
  <2> QED BY <2>1, ContentsNamed
<1>c. c # "none" /\ c # "disk"
  BY CallsNamed
<1>w. Whole(c)' = Whole(c) /\ \A n : Prefix(c, n)' = Prefix(c, n)
  BY DEF Whole, Prefix
<1>1. CASE \/ Lookup(u) \/ Verify(u) \/ Extract(u) \/ RestoreFails(u) \/ DeleteFails(u)
           \/ \E d \in Makers : Restore(u, id[d]) \/ Delete(u, id[d])
  <2>1. SameBackup(c)
    <3> USE <1>0 DEF BackupTypes, SameBackup, RestoreReturns, Return, Goto,
                     files, locals, rest
    <3>1. CASE Lookup(u) BY <3>1 DEF Lookup
    <3>2. CASE Verify(u) BY <3>2 DEF Verify
    <3>3. CASE Extract(u) BY <3>3 DEF Extract
    <3>4. CASE RestoreFails(u) BY <3>4 DEF RestoreFails
    <3>5. CASE DeleteFails(u) BY <3>5 DEF DeleteFails
    <3>6. ASSUME NEW d \in Makers, Restore(u, id[d]) PROVE SameBackup(c)
      BY <3>6 DEF Restore
    <3>7. ASSUME NEW d \in Makers, Delete(u, id[d]) PROVE SameBackup(c)
      BY <3>7 DEF Delete
    <3> QED BY <1>1, <3>1, <3>2, <3>3, <3>4, <3>5, <3>6, <3>7
  <2> QED BY <2>1, SameBackupKept
<1>2. CASE RemoveArchive(u)
  <2>1. CASE id[u] # t
    <3>1. SameBackup(c)
      BY <1>0, <1>2, <2>1 DEF RemoveArchive, SameBackup, Goto, memory, BackupTypes
    <3> QED BY <3>1, SameBackupKept
  <2>2. CASE id[u] = t
    <3>1. /\ id' = id /\ archive'[t] = None /\ c \notin linked' /\ t \in removed'
          /\ pc'[c] = pc[c] /\ UNCHANGED <<json, loaded, sum>>
      BY <1>0, <1>2, <2>2 DEF RemoveArchive, Goto, memory, BackupTypes
    <3>2. ArchiveOf(c)' /\ ChecksumsOf(c)'
      BY <1>n, <1>w, <3>1 DEF MakerOf, ArchiveOf, ChecksumsOf, VouchedFor
    <3>3. KeptOf(c)'
      BY <3>1 DEF KeptOf
    <3> QED BY <3>2, <3>3 DEF MakerOf
  <2> QED BY <2>1, <2>2
<1>3. CASE RemoveMetadata(u)
  <2>0. id[u] \in removed
    BY <1>3 DEF RemoveMetadata, CallsPlaced
  <2>1. CASE id[u] # t
    <3>1. SameBackup(c)
      BY <1>0, <1>3, <2>1 DEF RemoveMetadata, SameBackup, Return, Goto, locals, rest,
                              BackupTypes
    <3> QED BY <3>1, SameBackupKept
  <2>2. CASE id[u] = t
    <3>1. /\ id' = id /\ json'[t] = None /\ t \in removed'
          /\ pc'[c] = pc[c] /\ UNCHANGED <<archive, loaded, sum, linked, offset>>
      BY <1>0, <1>3, <2>0, <2>2 DEF RemoveMetadata, Return, Goto, locals, rest, BackupTypes
    <3>2. ArchiveOf(c)' /\ ChecksumsOf(c)'
      BY <1>n, <1>w, <3>1 DEF MakerOf, ArchiveOf, ChecksumsOf, VouchedFor
    <3>3. KeptOf(c)'
      BY <3>1 DEF KeptOf
    <3> QED BY <3>2, <3>3 DEF MakerOf
  <2> QED BY <2>1, <2>2
<1> QED BY <1>1, <1>2, <1>3

(* A restart: the creation is over, and json vouches for what it did. *)
LEMMA RestartMaker ==
  ASSUME BackupTypes, CallsPlaced, NEW c \in Makers, Alone(c), MakerOf(c), Restart
  PROVE  MakerOf(c)'
<1> DEFINE t == id[c]
<1>1. /\ t \in Times /\ c \in Calls /\ pc[c] # "idle"
  BY DEF Alone, BackupTypes, CallsPlaced
<1>2. pc'[c] = "done"
  BY <1>1 DEF Restart, CallsPlaced, InProgress
<1>3. /\ id' = id /\ archive' = archive /\ json' = json /\ loaded' = json
      /\ sum'[c] = None /\ c \notin linked' /\ result' = result /\ removed' = removed
      /\ backups'[t] = IF json[t] = None THEN "none" ELSE "disk"
  BY <1>1 DEF Restart, files
<1>n. Whole(c) # None
  <2>1. Chunks \in 0 .. Chunks
    BY Numbers
  <2> QED BY <2>1, ContentsNamed
<1>w. Whole(c)' = Whole(c)
  BY DEF Whole
<1>4. ArchiveOf(c)' /\ ChecksumsOf(c)'
  BY <1>2, <1>3, <1>n, <1>w DEF MakerOf, ArchiveOf, ChecksumsOf, VouchedFor
<1>5. KeptOf(c)'
  BY <1>2, <1>3, <1>n, <1>w DEF MakerOf, KeptOf, Creating
<1> QED BY <1>4, <1>5 DEF MakerOf

(* What a user's own step does to its restore of the backup of c. *)
LEMMA OwnRestore ==
  ASSUME BackupTypes, CallsPlaced, EntriesNamed, NEW c \in Makers, Alone(c), MakerOf(c),
         NEW u \in Users, id[u] = id[c] => RestoreOf(u, c),
         \/ Lookup(u) \/ Verify(u) \/ Extract(u) \/ RestoreFails(u)
         \/ RemoveArchive(u) \/ RemoveMetadata(u) \/ DeleteFails(u)
         \/ \E d \in Makers : Restore(u, id[d]) \/ Delete(u, id[d]),
         id'[u] = id[c]
  PROVE  RestoreOf(u, c)'
<1> DEFINE t == id[c]
<1>0. t \in Times /\ u \in Calls
  BY DEF Alone, BackupTypes
<1>w. Whole(c)' = Whole(c)
  BY DEF Whole
<1>n. Whole(c) # None
  <2>1. Chunks \in 0 .. Chunks
    BY Numbers
  <2> QED BY <2>1, ContentsNamed
<1>1. ASSUME pc'[u] # "extract", result'[u] # "restored" PROVE RestoreOf(u, c)'
  BY <1>1 DEF RestoreOf
<1>2. ASSUME RestoreReturns(u, "none") PROVE RestoreOf(u, c)'
  BY <1>0, <1>1, <1>2 DEF RestoreReturns, Return, Goto, BackupTypes
<1>3. CASE Lookup(u)
  <2>1. result[u] = "none"
    BY <1>0, <1>3 DEF Lookup, CallsPlaced
  <2>2. RestoreReturns(u, "none") \/ (pc'[u] = "verify" /\ result' = result)
    BY <1>0, <1>3 DEF Lookup, Goto, BackupTypes
  <2> QED BY <1>1, <1>2, <2>1, <2>2
<1>4. CASE Verify(u)
  <2>1. id[u] = t /\ result[u] = "none" /\ held[u] # "none" /\ pc[u] = "verify"
    BY <1>0, <1>4 DEF Verify, CallsPlaced
  <2>2. CASE archive[t] # None /\ archive[t] = Vouched(u)
    <3>1. result' = result /\ UNCHANGED <<sum, loaded, id>>
      BY <1>4, <2>1, <2>2 DEF Verify
    <3>2. CASE held[u] = "disk"
      <4>1. loaded[t] # None
        BY <2>1, <2>2, <3>2 DEF Vouched
      <4>2. loaded[t] = Whole(c)
        BY <4>1 DEF MakerOf, ChecksumsOf
      <4> QED BY <1>w, <2>1, <3>1, <4>2 DEF RestoreOf
    <3>3. CASE held[u] # "disk"
      <4>1. held[u] \in Makers /\ id[held[u]] = t
        BY <2>1, <3>3 DEF CallsPlaced, BackupTypes
      <4>2. held[u] = c
        BY <4>1 DEF Alone
      <4>3. sum[c] # None
        BY <2>2, <3>3, <4>2 DEF Vouched
      <4>4. sum[c] = Whole(c)
        BY <4>3 DEF MakerOf, ChecksumsOf
      <4> QED BY <1>w, <2>1, <3>1, <4>4 DEF RestoreOf
    <3> QED BY <3>2, <3>3
  <2>3. CASE ~(archive[t] # None /\ archive[t] = Vouched(u))
    BY <1>2, <1>4, <2>1, <2>3 DEF Verify
  <2> QED BY <2>2, <2>3
<1>5. CASE Extract(u)
  <2>1. id[u] = t /\ pc[u] = "extract"
    BY <1>5 DEF Extract
  <2>2. CASE RestoreReturns(u, "none")
    BY <1>2, <2>2
  <2>3. CASE /\ archive[t] # None /\ restored' = [restored EXCEPT ![u] = archive[t]]
             /\ RestoreReturns(u, "restored")
    <3>1. archive[t] = Whole(c)
      BY <2>1, <2>3 DEF RestoreOf, VouchedFor, MakerOf, ArchiveOf
    <3>2. pc'[u] = "done" /\ restored'[u] = Whole(c)
      BY <1>0, <2>3, <3>1 DEF RestoreReturns, Return, Goto, BackupTypes
    <3> QED BY <1>w, <3>2 DEF RestoreOf
  <2> QED BY <1>5, <2>1, <2>2, <2>3 DEF Extract
<1>6. CASE RestoreFails(u)
  BY <1>2, <1>6 DEF RestoreFails
<1>7. CASE \/ RemoveArchive(u) \/ RemoveMetadata(u) \/ DeleteFails(u)
           \/ \E d \in Makers : Restore(u, id[d]) \/ Delete(u, id[d])
  <2>1. result[u] = "none"
    BY <1>0, <1>7 DEF RemoveArchive, RemoveMetadata, DeleteFails, Deleting, Restore,
                      Delete, CallsPlaced
  <2>2. pc'[u] # "extract" /\ result'[u] \in {"none", result[u]}
    BY <1>0, <1>7 DEF RemoveArchive, RemoveMetadata, DeleteFails, Restore,
                      Delete, Return, Goto, BackupTypes
  <2> QED BY <1>1, <2>1, <2>2
<1> QED BY <1>3, <1>4, <1>5, <1>6, <1>7

(* The other calls' restores are left alone by it. *)
LEMMA OtherUsers ==
  ASSUME BackupTypes, NEW u \in Users,
         \/ Lookup(u) \/ Verify(u) \/ Extract(u) \/ RestoreFails(u)
         \/ RemoveArchive(u) \/ RemoveMetadata(u) \/ DeleteFails(u)
         \/ \E d \in Makers : Restore(u, id[d]) \/ Delete(u, id[d])
  PROVE  /\ sum' = sum /\ loaded' = loaded
         /\ \A v \in Calls \ {u} : id'[v] = id[v]
         /\ \A v \in Users \ {u} : SameCall(v)
<1> DEFINE Aside == /\ sum' = sum /\ loaded' = loaded
                    /\ \A v \in Calls \ {u} : id'[v] = id[v]
                    /\ \A v \in Users \ {u} : SameCall(v)
<1> USE DEF BackupTypes, SameCall, RestoreReturns, Return, Goto, memory, locals
<1>1. CASE Lookup(u) BY <1>1 DEF Lookup
<1>2. CASE Verify(u) BY <1>2 DEF Verify
<1>3. CASE Extract(u) BY <1>3 DEF Extract
<1>4. CASE RestoreFails(u) BY <1>4 DEF RestoreFails
<1>5. CASE RemoveArchive(u) BY <1>5 DEF RemoveArchive
<1>6. CASE RemoveMetadata(u) BY <1>6 DEF RemoveMetadata
<1>7. CASE DeleteFails(u) BY <1>7 DEF DeleteFails
<1>8. ASSUME NEW d \in Makers, Restore(u, id[d]) PROVE Aside
  BY <1>8 DEF Restore
<1>9. ASSUME NEW d \in Makers, Delete(u, id[d]) PROVE Aside
  BY <1>9 DEF Delete
<1> QED BY <1>1, <1>2, <1>3, <1>4, <1>5, <1>6, <1>7, <1>8, <1>9

(* Nor do the creation's own steps disturb a restore of it. *)
LEMMA MakerRestore ==
  ASSUME BackupTypes, CallsPlaced, NoChecksumYet, NEW c \in Makers,
         id[c] # 0 => \A u \in Users : id[u] = id[c] => RestoreOf(u, c),
         Alone(c)',
         \/ Create(c) \/ OpenArchive(c) \/ WriteArchive(c) \/ Checksum(c)
         \/ SaveMetadata(c) \/ CreateFails(c) \/ ArchiveLost(c) \/ Retain(c)
  PROVE  \A u \in Users : id'[u] = id'[c] => RestoreOf(u, c)'
<1>w. Whole(c)' = Whole(c)
  BY DEF Whole
<1>1. CASE Create(c)
  <2>1. /\ id[c] = 0 /\ id'[c] = now /\ \A d \in Calls \ {c} : id'[d] = id[d]
    BY <1>1 DEF Create, CallsPlaced, BackupTypes, Calls
  <2>2. ASSUME NEW u \in Users, id'[u] = id'[c] PROVE FALSE
    <3>1. id[u] = now /\ now # 0
      BY <2>1, <2>2 DEF BackupTypes
    <3>2. PICK d \in Makers : id[d] = now
      BY <3>1 DEF CallsPlaced
    <3>3. d # c /\ id'[d] = now
      BY <2>1, <3>1, <3>2 DEF BackupTypes
    <3> QED BY <2>1, <3>3 DEF Alone
  <2> QED BY <2>2
<1>2. CASE ~Create(c)
  <2>1. /\ id' = id /\ loaded' = loaded /\ \A u \in Users : SameCall(u)
        /\ sum'[c] = sum[c] \/ (pc[c] = "checksum")
    <3> USE DEF BackupTypes, SameCall, Return, Goto, memory, locals
    <3>1. CASE OpenArchive(c) BY <3>1 DEF OpenArchive
    <3>2. CASE WriteArchive(c) BY <3>2 DEF WriteArchive
    <3>3. CASE Checksum(c) BY <3>3 DEF Checksum
    <3>4. CASE SaveMetadata(c) BY <3>4 DEF SaveMetadata
    <3>5. CASE CreateFails(c) BY <3>5 DEF CreateFails
    <3>6. CASE ArchiveLost(c) BY <3>6 DEF ArchiveLost
    <3>7. CASE Retain(c) BY <3>7 DEF Retain
    <3> QED BY <1>2, <3>1, <3>2, <3>3, <3>4, <3>5, <3>6, <3>7
  <2>2. id[c] # 0
    BY <2>1 DEF Alone
  <2>3. pc[c] = "checksum" => sum[c] # Whole(c)
    <3>1. Whole(c) # None
      <4>1. Chunks \in 0 .. Chunks
        BY Numbers
      <4> QED BY <4>1, ContentsNamed
    <3> QED BY <3>1 DEF NoChecksumYet
  <2> QED BY <1>w, <2>1, <2>2, <2>3 DEF SameCall, RestoreOf
<1> QED BY <1>1, <1>2

(* No step breaks the story of a backup without a namesake. *)
LEMMA BackupStoryStep == BackupInv /\ [BackupNext]_backupVars => BackupStory'
<1> SUFFICES ASSUME BackupInv, [BackupNext]_backupVars, NEW c \in Makers, Alone(c)'
             PROVE  /\ MakerOf(c)'
                    /\ \A u \in Users : id'[u] = id'[c] => RestoreOf(u, c)'
  BY DEF BackupStory, MakerOf
<1>0. /\ BackupTypes /\ CallsPlaced /\ FilesLinked /\ EntriesNamed /\ NoChecksumYet
      /\ BackupStory
  BY BackupTyped DEF BackupInv
<1>1. Alone(c) => MakerOf(c) /\ \A u \in Users : id[u] = id[c] => RestoreOf(u, c)
  BY <1>0 DEF BackupStory, MakerOf
<1>2. ASSUME \A d \in Makers : id'[d] = id[d] PROVE Alone(c)
  BY <1>2 DEF Alone
<1>3. ASSUME NEW d \in Makers,
             \/ Create(d) \/ OpenArchive(d) \/ WriteArchive(d) \/ Checksum(d)
             \/ SaveMetadata(d) \/ CreateFails(d) \/ ArchiveLost(d) \/ Retain(d)
      PROVE  /\ MakerOf(c)'
             /\ \A u \in Users : id'[u] = id'[c] => RestoreOf(u, c)'
  <2>1. \/ id' = id
        \/ Create(d) /\ id[d] = 0 /\ \A e \in Calls \ {d} : id'[e] = id[e]
    BY <1>0, <1>3 DEF OpenArchive, WriteArchive, Checksum, SaveMetadata, CreateFails,
                      ArchiveLost, Retain, Create, locals, CallsPlaced, BackupTypes, Calls
  <2>2. id[c] # 0 => Alone(c)
    BY <1>0, <2>1 DEF Alone, BackupTypes
  <2>3. CASE d = c
    BY <1>0, <1>1, <1>3, <2>2, <2>3, OwnMaker, MakerRestore
  <2>4. CASE d # c
    <3>1. Alone(c)
      BY <1>0, <2>1, <2>2, <2>4 DEF Alone, BackupTypes
    <3>2. SameBackup(c) /\ \A u \in Users : SameCall(u)
      BY <1>0, <1>3, <2>4, <3>1, OtherMaker
    <3>3. MakerOf(c)'
      BY <1>1, <3>1, <3>2, SameBackupKept
    <3>4. Whole(c)' = Whole(c)
      BY DEF Whole
    <3> QED BY <1>1, <3>1, <3>2, <3>3, <3>4 DEF SameBackup, SameCall, RestoreOf
  <2> QED BY <2>3, <2>4
<1>4. ASSUME NEW u \in Users,
             \/ Lookup(u) \/ Verify(u) \/ Extract(u) \/ RestoreFails(u)
             \/ RemoveArchive(u) \/ RemoveMetadata(u) \/ DeleteFails(u)
             \/ \E d \in Makers : Restore(u, id[d]) \/ Delete(u, id[d])
      PROVE  /\ MakerOf(c)'
             /\ \A v \in Users : id'[v] = id'[c] => RestoreOf(v, c)'
  <2>1. /\ sum' = sum /\ loaded' = loaded
        /\ \A v \in Calls \ {u} : id'[v] = id[v]
        /\ \A v \in Users \ {u} : SameCall(v)
    BY <1>0, <1>4, OtherUsers
  <2>2. \A d \in Makers : id'[d] = id[d]
    BY <1>0, <2>1 DEF BackupTypes
  <2>3. Alone(c)
    BY <1>2, <2>2
  <2>4. MakerOf(c)'
    BY <1>0, <1>1, <1>4, <2>3, UserMaker
  <2>5. id'[u] = id'[c] => RestoreOf(u, c)'
    BY <1>0, <1>1, <1>4, <2>2, <2>3, OwnRestore
  <2>6. ASSUME NEW v \in Users \ {u}, id'[v] = id'[c] PROVE RestoreOf(v, c)'
    <3>1. Whole(c)' = Whole(c)
      BY DEF Whole
    <3> QED BY <1>1, <2>1, <2>2, <2>3, <2>6, <3>1 DEF SameCall, RestoreOf
  <2> QED BY <2>4, <2>5, <2>6
<1>5. CASE Restart
  <2>1. /\ id' = id /\ result' = result /\ restored' = restored
        /\ \A u \in Users : pc'[u] # "extract"
    BY <1>0, <1>5 DEF Restart, BackupTypes, InProgress, Restoring
  <2>2. Alone(c)
    BY <1>2, <2>1
  <2>3. MakerOf(c)'
    BY <1>0, <1>1, <1>5, <2>2, RestartMaker
  <2>4. Whole(c)' = Whole(c)
    BY DEF Whole
  <2> QED BY <1>1, <2>1, <2>2, <2>3, <2>4 DEF RestoreOf
<1>6. CASE Tick \/ UNCHANGED backupVars
  <2>1. UNCHANGED <<files, memory, pc, result, locals, removed>>
    BY <1>6 DEF Tick, backupVars, rest
  <2>2. Alone(c) /\ SameBackup(c) /\ \A u \in Users : SameCall(u)
    BY <1>2, <2>1 DEF SameBackup, SameCall, files, memory, locals
  <2>3. MakerOf(c)'
    BY <1>1, <2>2, SameBackupKept
  <2>4. Whole(c)' = Whole(c)
    BY DEF Whole
  <2> QED BY <1>1, <2>2, <2>3, <2>4 DEF SameBackup, SameCall, RestoreOf
<1> QED BY <1>0, <1>3, <1>4, <1>5, <1>6, StepCases

-----------------------------------------------------------------------------
(* An idle manager without backups satisfies the invariant. *)
LEMMA BackupInvInit == BackupInit => BackupInv
<1> SUFFICES ASSUME BackupInit PROVE BackupInv
  OBVIOUS
<1>1. BackupTypeOK
  <2>1. 1 \in Times /\ 0 \in 0 .. Chunks /\ 0 \in 0 .. MaxFaults
    BY Numbers DEF Times
  <2> QED BY <2>1 DEF BackupInit, BackupTypeOK
<1>2. CallsPlaced
  BY CallsNamed DEF BackupInit, CallsPlaced, Calls
<1>3. FilesLinked /\ NoChecksumYet
  BY DEF BackupInit, FilesLinked, NoChecksumYet, Calls
<1>4. EntriesNamed
  BY CallsNamed DEF BackupInit, EntriesNamed
<1>5. OneAtATime
  BY CallsNamed DEF BackupInit, OneAtATime, Restoring, Deleting, Calls
<1>6. BackupStory
  BY DEF BackupInit, BackupStory, Alone, Calls
<1> QED BY <1>1, <1>2, <1>3, <1>4, <1>5, <1>6 DEF BackupInv

(* It is inductive. *)
LEMMA BackupInvStep == BackupInv /\ [BackupNext]_backupVars => BackupInv'
BY BackupTypeStep, CallsPlacedStep, FilesLinkedStep, EntriesNamedStep, OneAtATimeStep,
   NoChecksumYetStep, BackupStoryStep DEF BackupInv

(* It holds in every reachable state. *)
LEMMA BackupInvAlways == BackupSpec => []BackupInv
BY BackupInvInit, BackupInvStep, PTL DEF BackupSpec

(***************************************************************************)
(* RestoreBackup never restores an archive that is cut short: whatever it  *)
(* reports restored is the whole archive of the one creation of that name, *)
(* whoever writes, deletes or crashes between its three looks at the file. *)
(***************************************************************************)
THEOREM RestoreSafe == BackupSpec => []RestoredIsWhole
<1>1. BackupInv => RestoredIsWhole
  <2> SUFFICES ASSUME BackupInv, NEW u \in Users, result[u] = "restored",
                      ~Collided(id[u])
               PROVE  \E c \in Makers : id[c] = id[u] /\ restored[u] = Whole(c)
    BY DEF RestoredIsWhole
  <2>1. id[u] # 0
    BY DEF BackupInv, CallsPlaced, Calls
  <2>2. PICK c \in Makers : id[c] = id[u]
    BY <2>1 DEF BackupInv, CallsPlaced
  <2>3. Alone(c)
    BY <2>1, <2>2 DEF Alone, Collided
  <2>4. RestoreOf(u, c)
    BY <2>2, <2>3 DEF BackupInv, BackupStory
  <2> QED BY <2>2, <2>4 DEF RestoreOf
<1> QED BY <1>1, BackupInvAlways, PTL

(***************************************************************************)
(* A backup CreateBackup reported stays in the manager and on disk, with   *)
(* the checksum of the whole archive, through any number of crashes, until *)
(* a deletion or another backup of its second.                             *)
(***************************************************************************)
THEOREM CreatedSafe == BackupSpec => []CreatedIsKept
<1>1. BackupInv => CreatedIsKept
  <2> SUFFICES ASSUME BackupInv, NEW c \in Makers, result[c] = "created",
                      ~Collided(id[c]), id[c] \notin removed
               PROVE  /\ archive[id[c]] = Whole(c) /\ json[id[c]] = Whole(c)
                      /\ backups[id[c]] \in {c, "disk"}
    BY DEF CreatedIsKept
  <2>1. id[c] # 0
    BY DEF BackupInv, CallsPlaced, Calls
  <2>2. Alone(c)
    BY <2>1 DEF Alone, Collided
  <2>3. KeptOf(c)
    BY <2>2 DEF BackupInv, BackupStory
  <2> QED BY <2>3 DEF KeptOf
<1> QED BY <1>1, BackupInvAlways, PTL

(***************************************************************************)
(* The place of the one restore and the manager's lock are taken exactly   *)
(* while the call that took them is in progress, on every error path.      *)
(***************************************************************************)
THEOREM BusySafe == BackupSpec => []HeldWhileBusy
<1>1. BackupInv => HeldWhileBusy
  <2> SUFFICES ASSUME BackupInv
               PROVE  Cardinality({u \in Users : pc[u] \in Restoring})
                         = IF restoring THEN 1 ELSE 0
    BY DEF HeldWhileBusy, BackupInv, OneAtATime
  <2> USE DEF BackupInv, OneAtATime
  <2>1. CASE restoring
    <3>1. PICK u \in Users : pc[u] \in Restoring
      BY <2>1
    <3>2. {v \in Users : pc[v] \in Restoring} = {u}
      BY <3>1
    <3> QED BY <2>1, <3>2, FS_Singleton
  <2>2. CASE ~restoring
    <3>1. {v \in Users : pc[v] \in Restoring} = {}
      BY <2>2
    <3> QED BY <2>2, <3>1, FS_EmptySet
  <2> QED BY <2>1, <2>2
<1> QED BY <1>1, BackupInvAlways, PTL
=============================================================================
