---------------------------- MODULE LorieGpuCopy ----------------------------
(***************************************************************************)
(* Copies of the Present extension that the X server leaves to the GPU of  *)
(* the renderer: present_execute_copy() as patches/xserver.patch has it,   *)
(* lorieTryScheduleGpuCopy() and lorieGpuCopyAck() of InitOutput.c, the    *)
(* ring in shared memory (lorie.h), and the renderer that empties it       *)
(* (renderer.cpp).  Copy c is the c-th request of the clients; its source  *)
(* is a pixmap of its own, its destination the root window.                *)
(*                                                                         *)
(* The renderer looks at the ring again and again.  That it wakes up is    *)
(* the subject of LorieRenderer: a copy to the root window damages it.     *)
(***************************************************************************)
EXTENDS Integers, FiniteSets

CONSTANTS
    Capacity,                 \* LORIE_GPU_COPY_QUEUE_CAPACITY
    IndexSize,                \* values of a uint32_t index
    Earlier,                  \* copies before, that are all over
    MaxCopies,                \* bound: requests of the clients
    MaxLosses                 \* bound: disconnections and deaths

ASSUME RingAssumption ==
    /\ Capacity \in Nat \ {0} /\ IndexSize \in Nat
    /\ IndexSize > Capacity /\ IndexSize % Capacity = 0
    /\ Earlier \in Nat /\ MaxCopies \in Nat

VARIABLES
    writeIndex, readIndex, entries, completedSerial,   \* the ring
    surfaceAvailable,         \* the flag in shared memory
    vblank,                   \* of each copy: what has become of it
    gpuPending,               \* copies with gpu_copy_pending
    rootPending,              \* rootGpuCopyPending
    serial, serialCounter,    \* of each copy; gpuCopySerialCounter
    filling,                  \* the copy whose entry is being written
    connG, connNo, sentOn,    \* conn_fd # -1; the number of the connection;
                              \* the one each source was registered on
    pcG, entry, batch,        \* the renderer; its entry; copies on the GPU
    mapNo,                    \* the connection whose shared state and
                              \* buffers it has
    executed, dropped,        \* copies made; copies passed over
    stale,                    \* copies whose destination was replaced
    losses

gpuRing == <<writeIndex, readIndex, entries, completedSerial>>
gpuPresent == <<vblank, gpuPending, rootPending, serial, serialCounter,
                filling>>
gpuRenderer == <<pcG, entry, batch, mapNo>>
gpuVars == <<gpuRing, surfaceAvailable, gpuPresent, connG, connNo, sentOn,
             gpuRenderer, executed, dropped, stale, losses>>

Copies == 1 .. MaxCopies
NoCopy == 0
NoConn == 0
NoEntry == [serial |-> Earlier, copy |-> NoCopy]

GpuInit ==
    /\ writeIndex = Earlier % IndexSize /\ readIndex = Earlier % IndexSize
    /\ completedSerial = Earlier
    /\ entries = [i \in 0 .. Capacity - 1 |-> NoEntry]
    /\ surfaceAvailable = FALSE
    /\ vblank = [c \in Copies |-> "none"]
    /\ gpuPending = {} /\ rootPending = 0
    /\ serial = [c \in Copies |-> 0] /\ serialCounter = Earlier
    /\ filling = NoCopy
    /\ connG = FALSE /\ connNo = NoConn /\ sentOn = [c \in Copies |-> NoConn]
    /\ pcG = "idle" /\ entry = NoEntry /\ batch = {}
    /\ mapNo = NoConn
    /\ executed = {} /\ dropped = {} /\ stale = {} /\ losses = 0

-----------------------------------------------------------------------------
(* The X server. *)

Queued == (writeIndex - readIndex) % IndexSize

(* lorieGpuCopyIsDone() *)
IsDone(c) == completedSerial >= serial[c]

(* Mutant of GpuCopyStalled: the connection is not looked at. *)
StalledNoSurface == ~surfaceAvailable

(* gpuCopyStalled of present_execute_copy() *)
GpuCopyStalled == ~connG \/ ~surfaceAvailable

(* The X server's thread is between two requests or events. *)
XFree == filling = NoCopy

NextCopy(c) ==
    /\ XFree /\ vblank[c] = "none"
    /\ \A b \in 1 .. c - 1 : vblank[b] # "none"

(* gpuCopyQueue.writeIndex - readIndex >= LORIE_GPU_COPY_QUEUE_CAPACITY *)
RingFull == Queued >= Capacity

(* present_execute_copy(): lorieTryScheduleGpuCopy() refuses. *)
CopyByCpu(c) ==
    /\ NextCopy(c)
    /\ GpuCopyStalled \/ RingFull
    /\ vblank' = [vblank EXCEPT ![c] = "shown"]
    /\ executed' = executed \union {c}
    /\ UNCHANGED <<gpuRing, surfaceAvailable, gpuPending, rootPending, serial,
                   serialCounter, filling, connG, connNo, sentOn, gpuRenderer,
                   dropped, stale, losses>>

(* It accepts: references are taken and the entry is filled in, ... *)
Schedule(c) ==
    /\ NextCopy(c)
    /\ ~GpuCopyStalled /\ ~RingFull
    /\ sentOn' = [sentOn EXCEPT ![c] = connNo]
    /\ rootPending' = rootPending + 1
    /\ serialCounter' = serialCounter + 1
    /\ serial' = [serial EXCEPT ![c] = serialCounter + 1]
    /\ entries' = [entries EXCEPT ![writeIndex % Capacity] =
                      [serial |-> serialCounter + 1, copy |-> c]]
    /\ filling' = c
    /\ UNCHANGED <<writeIndex, readIndex, completedSerial, surfaceAvailable,
                   vblank, gpuPending, connG, connNo, gpuRenderer, executed,
                   dropped, stale, losses>>

(* ... then it is published, and the vblank is queued to poll for it. *)
PublishEntry ==
    /\ filling # NoCopy
    /\ writeIndex' = (writeIndex + 1) % IndexSize
    /\ vblank' = [vblank EXCEPT ![filling] = "polling"]
    /\ gpuPending' = gpuPending \union {filling}
    /\ filling' = NoCopy
    /\ UNCHANGED <<readIndex, entries, completedSerial, surfaceAvailable,
                   rootPending, serial, serialCounter, connG, connNo, sentOn,
                   gpuRenderer, executed, dropped, stale, losses>>

(* Mutant of Ack: gpu_copy_pending stays set. *)
AckPending(c) ==
    /\ rootPending' = IF c \in gpuPending THEN rootPending - 1 ELSE rootPending
    /\ UNCHANGED gpuPending

(* lorieGpuCopyAck(), when it is called: with gpu_copy_pending set. *)
Ack(c) ==
    /\ rootPending' = IF c \in gpuPending THEN rootPending - 1 ELSE rootPending
    /\ gpuPending' = gpuPending \ {c}

(* present_execute_copy() and lorieRecheckGpuCopies() for a copy that was  *)
(* offloaded: it is complete, *)
PollDone(c) ==
    /\ XFree /\ vblank[c] = "polling" /\ IsDone(c)
    /\ Ack(c)
    /\ vblank' = [vblank EXCEPT ![c] = "shown"]
    /\ UNCHANGED <<gpuRing, surfaceAvailable, serial, serialCounter, filling,
                   connG, connNo, sentOn, gpuRenderer, executed, dropped,
                   stale, losses>>

(* or it will not be: acknowledged, then scrapped.  The flag is cleared    *)
(* before present_vblank_scrap() looks at it.                              *)
PollStalled(c) ==
    /\ XFree /\ vblank[c] = "polling" /\ ~IsDone(c) /\ GpuCopyStalled
    /\ Ack(c)
    /\ vblank' = [vblank EXCEPT ![c] = "skipped"]
    /\ UNCHANGED <<gpuRing, surfaceAvailable, serial, serialCounter, filling,
                   connG, connNo, sentOn, gpuRenderer, executed, dropped,
                   stale, losses>>

(* present_vblank_scrap() of a copy that a later one of the same window    *)
(* replaces, and present_vblank_destroy() with its window.                 *)
Scrap(c) ==
    /\ XFree /\ vblank[c] = "polling"
    /\ Ack(c)
    /\ vblank' = [vblank EXCEPT ![c] = "skipped"]
    /\ UNCHANGED <<gpuRing, surfaceAvailable, serial, serialCounter, filling,
                   connG, connNo, sentOn, gpuRenderer, executed, dropped,
                   stale, losses>>

(* lorieRRScreenSetSize(): the root window has a new pixmap, and the       *)
(* renderer is told, over the socket, to remove the old one.  Bound: one   *)
(* resize that meets copies, within the first connection.                  *)
Resize ==
    /\ XFree /\ stale = {} /\ gpuPending # {} /\ losses = 0
    /\ stale' = gpuPending
    /\ UNCHANGED <<gpuRing, surfaceAvailable, gpuPresent, connG, connNo,
                   sentOn, gpuRenderer, executed, dropped, losses>>

-----------------------------------------------------------------------------
(* The connection. *)

(* getXConnection()'s work procedure *)
Connect ==
    /\ XFree /\ ~connG
    /\ connG' = TRUE /\ connNo' = connNo + 1
    /\ UNCHANGED <<gpuRing, surfaceAvailable, gpuPresent, sentOn, gpuRenderer,
                   executed, dropped, stale, losses>>

(* threadLoop() takes over the shared state of the connection, with or     *)
(* without a window,                                                       *)
MapState ==
    /\ connG /\ mapNo = NoConn /\ pcG = "idle"
    /\ mapNo' = connNo
    /\ surfaceAvailable' \in BOOLEAN
    /\ UNCHANGED <<gpuRing, gpuPresent, connG, connNo, sentOn, pcG, entry,
                   batch, executed, dropped, stale, losses>>

Disconnect ==
    /\ connG /\ losses < MaxLosses
    /\ connG' = FALSE /\ losses' = losses + 1
    /\ UNCHANGED <<gpuRing, surfaceAvailable, gpuPresent, connNo, sentOn,
                   gpuRenderer, executed, dropped, stale>>

(* and gives up that of an earlier one, with its buffers. *)
UnmapState ==
    /\ mapNo # NoConn /\ (connG => mapNo # connNo) /\ pcG = "idle"
    /\ mapNo' = NoConn
    /\ UNCHANGED <<gpuRing, surfaceAvailable, gpuPresent, connG, connNo,
                   sentOn, pcG, entry, batch, executed, dropped, stale,
                   losses>>

(* The activity dies, with copies in hand. *)
Die ==
    /\ mapNo # NoConn /\ losses < MaxLosses
    /\ losses' = losses + 1
    /\ connG' = FALSE /\ mapNo' = NoConn
    /\ pcG' = "idle" /\ batch' = {}
    /\ dropped' = dropped \union batch
    /\ UNCHANGED <<gpuRing, surfaceAvailable, gpuPresent, connNo, sentOn,
                   entry, executed, stale>>

-----------------------------------------------------------------------------
(* The renderer. *)

(* refreshContext() *)
SetWindow(w) ==
    /\ pcG = "idle" /\ mapNo # NoConn
    /\ surfaceAvailable' = w
    /\ UNCHANGED <<gpuRing, gpuPresent, connG, connNo, sentOn, pcG, entry,
                   batch, mapNo, executed, dropped, stale, losses>>

(* applyPendingGpuCopiesLocked(): an entry is copied, *)
ReadEntry ==
    /\ mapNo # NoConn /\ pcG \in {"idle", "drain"} /\ Queued # 0
    /\ entry' = entries[readIndex % Capacity]
    /\ pcG' = "submit"
    /\ UNCHANGED <<gpuRing, surfaceAvailable, gpuPresent, connG, connNo,
                   sentOn, batch, mapNo, executed, dropped, stale, losses>>

(* its copy given to the GPU, unless its source is not known here or its   *)
(* destination, a root pixmap that was replaced, no longer; and the slot   *)
(* given back.                                                             *)
Submit ==
    /\ pcG = "submit"
    /\ \/ /\ sentOn[entry.copy] = mapNo
          /\ batch' = batch \union {entry.copy} /\ UNCHANGED dropped
       \/ /\ sentOn[entry.copy] # mapNo \/ entry.copy \in stale
          /\ dropped' = dropped \union {entry.copy} /\ UNCHANGED batch
    /\ readIndex' = (readIndex + 1) % IndexSize
    /\ pcG' = "drain"
    /\ UNCHANGED <<writeIndex, entries, completedSerial, surfaceAvailable,
                   gpuPresent, connG, connNo, sentOn, entry, mapNo, executed,
                   stale, losses>>

(* Mutant of Fence: the copies are still being made. *)
FenceSkipped ==
    /\ pcG = "drain" /\ Queued = 0
    /\ pcG' = "publish"
    /\ UNCHANGED <<gpuRing, surfaceAvailable, gpuPresent, connG, connNo,
                   sentOn, entry, batch, mapNo, executed, dropped, stale,
                   losses>>

(* eglClientWaitSyncKHR() returns: the GPU has made the copies. *)
Fence ==
    /\ pcG = "drain" /\ Queued = 0
    /\ executed' = executed \union batch /\ batch' = {}
    /\ pcG' = "publish"
    /\ UNCHANGED <<gpuRing, surfaceAvailable, gpuPresent, connG, connNo,
                   sentOn, entry, mapNo, dropped, stale, losses>>

(* Mutant of PublishSerial: the serial before the last one. *)
PublishSerialBefore ==
    /\ pcG = "publish"
    /\ completedSerial' = entry.serial - 1
    /\ pcG' = "idle"
    /\ UNCHANGED <<writeIndex, readIndex, entries, surfaceAvailable,
                   gpuPresent, connG, connNo, sentOn, entry, batch, mapNo,
                   executed, dropped, stale, losses>>

(* Mutant of PublishSerial: all that was scheduled. *)
PublishSerialAll ==
    /\ pcG = "publish"
    /\ completedSerial' = serialCounter
    /\ pcG' = "idle"
    /\ UNCHANGED <<writeIndex, readIndex, entries, surfaceAvailable,
                   gpuPresent, connG, connNo, sentOn, entry, batch, mapNo,
                   executed, dropped, stale, losses>>

(* The serial of the last one is published. *)
PublishSerial ==
    /\ pcG = "publish"
    /\ completedSerial' = entry.serial
    /\ pcG' = "idle"
    /\ UNCHANGED <<writeIndex, readIndex, entries, surfaceAvailable,
                   gpuPresent, connG, connNo, sentOn, entry, batch, mapNo,
                   executed, dropped, stale, losses>>

-----------------------------------------------------------------------------
(* What the X server does on its own: vblanks come with every frame. *)
GpuX == PublishEntry \/ \E c \in Copies : PollDone(c) \/ PollStalled(c)

GpuR ==
    \/ ReadEntry \/ Submit \/ Fence \/ PublishSerial
    \/ MapState \/ UnmapState

GpuNext ==
    \/ \E c \in Copies : CopyByCpu(c) \/ Schedule(c) \/ Scrap(c)
    \/ GpuX \/ GpuR
    \/ Resize \/ Connect \/ Disconnect \/ Die
    \/ \E w \in BOOLEAN : SetWindow(w)

GpuSpec == GpuInit /\ [][GpuNext]_gpuVars

-----------------------------------------------------------------------------
(* Properties. *)

(* The copies that are queued. *)
InRing == {entries[(readIndex + i) % Capacity].copy : i \in 0 .. Queued - 1}

(* Every variable has the values its declaration says. *)
GpuTypeOK ==
    /\ writeIndex \in 0 .. IndexSize - 1 /\ readIndex \in 0 .. IndexSize - 1
    /\ completedSerial \in 0 .. serialCounter /\ rootPending \in Nat
    /\ vblank \in [Copies -> {"none", "polling", "shown", "skipped"}]

(* A copy that is reported to its client as presented was made, by the CPU *)
(* or the GPU, or was passed over by a renderer that did not know its      *)
(* source or its destination; and it is over: the GPU does not read the    *)
(* pixmap that the client has back.                                        *)
ShownIsMade ==
    \A c \in Copies : vblank[c] = "shown" =>
        /\ c \in executed \union dropped
        /\ c \notin InRing \union batch

(* No one will report copy c: a renderer has taken it and has died. *)
Orphaned(c) ==
    /\ vblank[c] = "polling" /\ ~IsDone(c)
    /\ c \notin InRing /\ pcG = "idle"

(* Within the first connection no copy is orphaned, and none is passed     *)
(* over unless the root window was resized while it was under way.         *)
NothingLost ==
    losses = 0 => dropped \subseteq stale /\ \A c \in Copies : ~Orphaned(c)

(* rootGpuCopyPending counts the copies that poll, and the one that is     *)
(* being scheduled: each lorieTryScheduleGpuCopy() has exactly one         *)
(* lorieGpuCopyAck(), however the copy ends.                               *)
AckedOnce ==
    /\ gpuPending = {c \in Copies : vblank[c] = "polling"}
    /\ rootPending = Cardinality(gpuPending \union ({filling} \ {NoCopy}))

(* The number of the last copy that is published. *)
Published == serialCounter - (IF filling = NoCopy THEN 0 ELSE 1)

Queue == INSTANCE CopyQueue WITH
    Limit <- Capacity,
    scheduled <- Published,
    fetched <- entry.serial,
    taken <- Published - Queued,
    completed <- completedSerial

(* The ring with its wrapping indices implements CopyQueue: copies are     *)
(* taken off in order, none twice, none skipped, and completedSerial never *)
(* runs ahead, across deaths of the renderer and reconnections.            *)
IsQueue == Queue!Spec

(* A copy that polls is over some time, unless it is orphaned: the X       *)
(* server does not poll forever.  (The requests are finite here, so all    *)
(* that poll can be over at once.)                                         *)
PollEnds == []<>(\A c \in Copies : vblank[c] = "polling" => Orphaned(c))
=============================================================================
