------------------------------ MODULE LorieLock ------------------------------
(***************************************************************************)
(* The lock in memory that the X server shares with the renderer of the    *)
(* activity (lorie_mutex_lock() and lorie_mutex_unlock() of lorie.h), with *)
(* those who take it: drawing operations of the X server, which EXA turns  *)
(* into calls of loriePrepareAccess() and lorieFinishAccess(), and the     *)
(* drawing passes of the renderer.  The mutex is recursive, and it is      *)
(* initialised anew by a process that suspects its holder to be dead.      *)
(*                                                                         *)
(* There is no clock: the 33 msec of a wait can be over at any time while  *)
(* another thread holds the mutex.                                         *)
(***************************************************************************)
EXTENDS Integers

CONSTANTS
    MaxDrops,                 \* bound: deaths and disconnections
    MaxLeaks                  \* bound: accesses the driver refuses

VARIABLES
    holder, depth,            \* the mutex: its owner, how often it is held
    lockingPid,
    pcX, op, at,              \* the X server: where it is, its operation,
                              \* which of its accesses to prepare next
    count, slot, agreed,      \* accesses in progress: how often, as what,
                              \* those the driver has agreed to
    pendingX,                 \* pixmaps with a GPU copy under way
    pcR, mapped,              \* the renderer; it has mapped the shared state
    conn,                     \* the socket of the two is open
    drops, leaks,
    late                      \* the mutex was taken from one who used it

lockMutex == <<holder, depth, lockingPid>>
lockAccess == <<count, slot, agreed>>
lockX == <<pcX, op, at, lockAccess, pendingX>>
lockR == <<pcR, mapped, conn>>
lockCounts == <<drops, leaks, late>>
lockVars == <<lockMutex, lockX, lockR, lockCounts>>

Pixmaps == {"root", "other"}
NoOp == <<>>

(* The accesses of an operation, in the order exa_unaccel.c prepares them: *)
(* painting with a tile, copying.  An operation with one access is like    *)
(* one whose other pixmap needs no lock.                                   *)
Ops ==
    {<<[pixmap |-> p, index |-> "DEST"], [pixmap |-> q, index |-> "SRC"]>> :
        p \in Pixmaps, q \in Pixmaps} \union
    {<<[pixmap |-> p, index |-> "SRC"], [pixmap |-> q, index |-> "DEST"]>> :
        p \in Pixmaps, q \in Pixmaps}

LockInit ==
    /\ holder = "none" /\ depth = 0 /\ lockingPid = "none"
    /\ pcX = "idle" /\ op = NoOp /\ at = 1
    /\ count = [p \in Pixmaps |-> 0]
    /\ slot = [p \in Pixmaps |-> "none"] /\ agreed = {}
    /\ pendingX = {}
    /\ pcR = "idle" /\ mapped = FALSE /\ conn = FALSE
    /\ drops = 0 /\ leaks = 0 /\ late = FALSE

-----------------------------------------------------------------------------
(* The mutex. *)

(* pthread_mutex_timedlock() succeeds. *)
Acquires(p) ==
    /\ holder \in {"none", p}
    /\ holder' = p /\ depth' = depth + 1

(* pthread_mutex_unlock(): of no effect (EPERM) unless p is the owner. *)
Releases(p) ==
    IF holder # p THEN UNCHANGED <<holder, depth>>
    ELSE /\ depth' = depth - 1
         /\ holder' = IF depth = 1 THEN "none" ELSE holder

(* Mutant of Suspects: only while the socket is open. *)
SuspectsConnected(p) ==
    holder \notin {"none", p} /\ lockingPid # p /\ (p = "X" => conn)

(* The wait is over: *lockingPid == getpid() || lorieConnectionAlive().    *)
(* conn_fd is set in the X server's process only.                          *)
Suspects(p) ==
    /\ holder \notin {"none", p}
    /\ lockingPid # p
    /\ p = "X" => ~conn

(* The owner is a thread that is alive and uses what the mutex protects. *)
InUse == holder = "R" \/ (holder = "X" /\ pcX # "idle")

Reinitialises ==
    /\ holder' = "none" /\ depth' = 0
    /\ late' = (late \/ InUse)
    /\ UNCHANGED <<lockingPid, drops, leaks>>

-----------------------------------------------------------------------------
(* The X server's main thread. *)

NextAccess == op[at]

(* Mutant of NeedsGpuLock: copies under way are not asked for. *)
NeedsGpuLockRoot(p, index) == p = "root" /\ index = "DEST"

(* lorieNeedsGpuLock() *)
NeedsGpuLock(p, index) ==
    p \in pendingX \/ (p = "root" /\ index = "DEST")

XStart(o) ==
    /\ pcX = "idle"
    /\ pcX' = "prepare" /\ op' = o /\ at' = 1
    /\ UNCHANGED <<lockMutex, lockAccess, pendingX, lockR, lockCounts>>

(* GPU copies from and to pixmaps are scheduled and acknowledged. *)
XPresent(ps) ==
    /\ pcX = "idle" /\ (conn \/ ps \subseteq pendingX)
    /\ pendingX' = ps
    /\ UNCHANGED <<lockMutex, pcX, op, at, lockAccess, lockR, lockCounts>>

(* ExaDoPrepareAccess() of a pixmap that is being accessed: counted only.  *)
XPrepareNested ==
    /\ pcX = "prepare" /\ at <= 2 /\ count[NextAccess.pixmap] > 0
    /\ count' = [count EXCEPT ![NextAccess.pixmap] = @ + 1]
    /\ at' = at + 1
    /\ UNCHANGED <<lockMutex, pcX, op, slot, agreed, pendingX, lockR>>
    /\ UNCHANGED lockCounts

XPrepared(ok) ==
    /\ count' = [count EXCEPT ![NextAccess.pixmap] = 1]
    /\ slot' = [slot EXCEPT ![NextAccess.pixmap] = NextAccess.index]
    /\ agreed' = IF ok THEN agreed \union {NextAccess.pixmap} ELSE agreed
    /\ at' = at + 1
    /\ UNCHANGED <<op, pendingX>>

(* loriePrepareAccess() without the lock. *)
XPrepare ==
    /\ pcX = "prepare" /\ at <= 2 /\ count[NextAccess.pixmap] = 0
    /\ ~NeedsGpuLock(NextAccess.pixmap, NextAccess.index)
    /\ XPrepared(TRUE)
    /\ UNCHANGED <<lockMutex, pcX, lockR, lockCounts>>

(* loriePrepareAccess() with the lock, *)
XLock ==
    /\ pcX = "prepare" /\ at <= 2 /\ count[NextAccess.pixmap] = 0
    /\ NeedsGpuLock(NextAccess.pixmap, NextAccess.index)
    /\ pcX' = "wait"
    /\ UNCHANGED <<lockMutex, op, at, lockAccess, pendingX, lockR, lockCounts>>

XAcquire ==
    /\ pcX = "wait" /\ Acquires("X")
    /\ pcX' = "locked"
    /\ UNCHANGED <<lockingPid, op, at, lockAccess, pendingX>>
    /\ UNCHANGED <<lockR, lockCounts>>

(* and what it does with it: LorieBuffer_lock() may fail, and then the     *)
(* mutex stays locked.                                                     *)
XPrepareLocked(ok) ==
    /\ pcX = "locked" /\ (ok \/ leaks < MaxLeaks)
    /\ lockingPid' = "X"
    /\ XPrepared(ok)
    /\ leaks' = IF ok THEN leaks ELSE leaks + 1
    /\ pcX' = "prepare"
    /\ UNCHANGED <<holder, depth, lockR, drops, late>>

XSuspect ==
    /\ pcX = "wait" /\ Suspects("X")
    /\ pcX' = "reinit"
    /\ UNCHANGED <<lockMutex, op, at, lockAccess, pendingX, lockR, lockCounts>>

XReinit ==
    /\ pcX = "reinit" /\ Reinitialises
    /\ pcX' = "wait"
    /\ UNCHANGED <<op, at, lockAccess, pendingX, lockR>>

XDraw ==
    /\ pcX = "prepare" /\ at = 3
    /\ pcX' = "draw"
    /\ UNCHANGED <<lockMutex, op, at, lockAccess, pendingX, lockR, lockCounts>>

(* Mutant of XFinish: the slot is taken for that of a source. *)
XFinishSource(p) ==
    /\ pcX \in {"draw", "finish"} /\ count[p] > 0
    /\ count' = [count EXCEPT ![p] = @ - 1]
    /\ IF count[p] = 1
       THEN slot' = [slot EXCEPT ![p] = "none"] /\ agreed' = agreed \ {p}
       ELSE UNCHANGED <<slot, agreed>>
    /\ IF count[p] = 1 /\ p \in agreed /\ NeedsGpuLock(p, "SRC")
       THEN pcX' = "unlock" /\ lockingPid' = "none"
       ELSE pcX' = "finish" /\ UNCHANGED lockingPid
    /\ UNCHANGED <<holder, depth, op, at, pendingX, lockR, lockCounts>>

(* exaFinishAccess(): the driver hears of the last one, with the slot that *)
(* the first one took, if it had agreed to that.                           *)
XFinish(p) ==
    /\ pcX \in {"draw", "finish"} /\ count[p] > 0
    /\ count' = [count EXCEPT ![p] = @ - 1]
    /\ IF count[p] = 1
       THEN slot' = [slot EXCEPT ![p] = "none"] /\ agreed' = agreed \ {p}
       ELSE UNCHANGED <<slot, agreed>>
    /\ IF count[p] = 1 /\ p \in agreed /\ NeedsGpuLock(p, slot[p])
       THEN pcX' = "unlock" /\ lockingPid' = "none"
       ELSE pcX' = "finish" /\ UNCHANGED lockingPid
    /\ UNCHANGED <<holder, depth, op, at, pendingX, lockR, lockCounts>>

XUnlock ==
    /\ pcX = "unlock" /\ Releases("X")
    /\ pcX' = "finish"
    /\ UNCHANGED <<lockingPid, op, at, lockAccess, pendingX>>
    /\ UNCHANGED <<lockR, lockCounts>>

XDone ==
    /\ pcX = "finish" /\ \A p \in Pixmaps : count[p] = 0
    /\ pcX' = "idle" /\ op' = NoOp /\ at' = 1
    /\ UNCHANGED <<lockMutex, lockAccess, pendingX, lockR, lockCounts>>

-----------------------------------------------------------------------------
(* The renderer, and the activity it is part of. *)

(* The activity connects; the X server takes note between two operations,  *)
(* and sends the state, which the renderer maps.                           *)
RConnect ==
    /\ ~mapped /\ pcR \in {"idle", "dead"} /\ pcX = "idle"
    /\ conn' = TRUE /\ mapped' = TRUE /\ pcR' = "idle"
    /\ UNCHANGED <<lockMutex, lockX, lockCounts>>

(* applyPendingGpuCopies() and redrawLocked() *)
RLock ==
    /\ mapped /\ pcR = "idle"
    /\ pcR' = "wait"
    /\ UNCHANGED <<lockMutex, lockX, mapped, conn, lockCounts>>

RAcquire ==
    /\ pcR = "wait" /\ Acquires("R")
    /\ pcR' = "locked"
    /\ UNCHANGED <<lockingPid, lockX, mapped, conn, lockCounts>>

RDraw ==
    /\ pcR = "locked"
    /\ lockingPid' = "R" /\ pcR' = "draw"
    /\ UNCHANGED <<holder, depth, lockX, mapped, conn, lockCounts>>

RSuspect ==
    /\ pcR = "wait" /\ Suspects("R")
    /\ pcR' = "reinit"
    /\ UNCHANGED <<lockMutex, lockX, mapped, conn, lockCounts>>

RReinit ==
    /\ pcR = "reinit" /\ Reinitialises
    /\ pcR' = "wait"
    /\ UNCHANGED <<lockX, mapped, conn>>

RUnlock ==
    /\ pcR = "draw"
    /\ lockingPid' = "none" /\ pcR' = "unlock"
    /\ UNCHANGED <<holder, depth, lockX, mapped, conn, lockCounts>>

RRelease ==
    /\ pcR = "unlock" /\ Releases("R")
    /\ pcR' = "idle"
    /\ UNCHANGED <<lockingPid, lockX, mapped, conn, lockCounts>>

(* The activity closes its socket; the renderer gives the state up when it *)
(* is through with what it does.                                           *)
RClose ==
    /\ conn /\ drops < MaxDrops
    /\ conn' = FALSE /\ drops' = drops + 1
    /\ UNCHANGED <<lockMutex, lockX, pcR, mapped, leaks, late>>

RUnmap ==
    /\ mapped /\ ~conn /\ pcR = "idle"
    /\ mapped' = FALSE
    /\ UNCHANGED <<lockMutex, lockX, pcR, conn, lockCounts>>

(* The activity dies: what it has locked stays so. *)
RDie ==
    /\ pcR # "dead" /\ mapped /\ drops < MaxDrops
    /\ pcR' = "dead" /\ mapped' = FALSE /\ conn' = FALSE
    /\ drops' = drops + 1
    /\ holder' = IF holder = "R" THEN "dead" ELSE holder
    /\ lockingPid' = IF lockingPid = "R" THEN "dead" ELSE lockingPid
    /\ UNCHANGED <<depth, lockX, leaks, late>>

-----------------------------------------------------------------------------
XWorks ==
    \/ XPrepareNested \/ XPrepare \/ XLock \/ XPrepareLocked(TRUE)
    \/ XSuspect \/ XReinit \/ XDraw \/ (\E p \in Pixmaps : XFinish(p))
    \/ XUnlock \/ XDone

RWorks == RDraw \/ RSuspect \/ RReinit \/ RUnlock \/ RRelease

LockNext ==
    \/ \E o \in Ops : XStart(o)
    \/ \E ps \in SUBSET Pixmaps : XPresent(ps)
    \/ XWorks \/ XAcquire \/ XPrepareLocked(FALSE)
    \/ RWorks \/ RAcquire \/ RConnect \/ RLock \/ RClose \/ RUnmap \/ RDie

LockSpec == LockInit /\ [][LockNext]_lockVars

-----------------------------------------------------------------------------
(* Properties. *)

(* The mutex has an owner exactly while it is held, and the variables have *)
(* the values their declarations say.                                      *)
LockTypeOK ==
    /\ holder \in {"none", "X", "R", "dead"} /\ depth \in Nat
    /\ lockingPid \in {"none", "X", "R", "dead"}
    /\ (depth = 0) = (holder = "none")

Writes(o, p) == \E i \in 1..2 : o[i] = [pixmap |-> p, index |-> "DEST"]

(* A copy from a pixmap to itself, prepared as a source first: the nested  *)
(* access as a destination is counted, and the driver does not hear of it. *)
CopyWithin(p) ==
    op = <<[pixmap |-> p, index |-> "SRC"], [pixmap |-> p, index |-> "DEST"]>>

(* While the renderer draws, the X server neither writes the root window   *)
(* nor touches a pixmap with a GPU copy under way.  There are two          *)
(* exceptions in the code: a copy within the root window, and a mutex that *)
(* one of the two has initialised while the other was using it.            *)
DrawExclusive ==
    pcX = "draw" /\ pcR = "draw" /\ ~late =>
        /\ Writes(op, "root") => CopyWithin("root")
        /\ \A i \in 1..2 : op[i].pixmap \notin pendingX

(* Every lock of loriePrepareAccess() has its unlock in                    *)
(* lorieFinishAccess(), across nested accesses and time-outs: between two  *)
(* operations the X server holds the mutex only for accesses that the      *)
(* driver refused.                                                         *)
LockBalanced == pcX = "idle" /\ holder = "X" => depth <= leaks

(* The renderer has died with the mutex, and the X server is kept from     *)
(* suspecting so: by the connection of a new renderer, or by lockingPid,   *)
(* which is left from an access the driver refused.                        *)
XMisled == holder = "dead" /\ (conn \/ lockingPid = "X")

(* A drawing operation of the X server that waits for the mutex gets it,   *)
(* also from a renderer that has died, unless the X server is misled.      *)
XProceeds == []<>(pcX \notin {"wait", "reinit"} \/ XMisled)

(* The renderer gets the mutex, from an X server that keeps it, too.       *)
RProceeds == []<>(pcR \notin {"wait", "reinit"})
=============================================================================
