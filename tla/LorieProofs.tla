----------------------------- MODULE LorieProofs -----------------------------
(***************************************************************************)
(* Proofs about LorieLock, LorieRenderer and LorieClipboard, for any       *)
(* number of deaths, refused accesses, root pixmaps, texts and clients.    *)
(* Each part has an inductive invariant of its own:                        *)
(*                                                                         *)
(*   LockInv counts: the X server holds the mutex as often as it has       *)
(*   accesses that need it, neither more, but for those the driver         *)
(*   refused, nor less, unless the mutex was taken from one who used it;   *)
(*                                                                         *)
(*   RendInv says when the renderer draws, what the GUI thread hands to it *)
(*   and in which states a request may be gone;                            *)
(*                                                                         *)
(*   ClipInv follows the announcements: whatever text is in the cache, or  *)
(*   on its way there, is current, or has an announcement behind it.       *)
(***************************************************************************)
EXTENDS LorieLock, LorieRenderer, LorieClipboard, TLAPS

(* The lock. *)

(* Every variable of LorieLock has the values its declaration says. *)
LockTypes ==
    /\ LockTypeOK
    /\ pcX \in {"idle", "prepare", "wait", "locked", "reinit", "draw",
                "finish", "unlock"}
    /\ pcR \in {"idle", "wait", "locked", "reinit", "draw", "unlock", "dead"}
    /\ op \in Ops \union {NoOp} /\ at \in 1..3
    /\ count \in [Pixmaps -> Nat]
    /\ slot \in [Pixmaps -> {"none", "DEST", "SRC"}]
    /\ leaks \in Nat

(* Where the X server is in its operation: it has no access in progress    *)
(* between two; it asks for the lock only for the first access to a pixmap *)
(* that needs it; and it draws when all are prepared, each counted, the    *)
(* first one of a pixmap in its own slot.                                  *)
Accesses ==
    /\ pcX = "idle" => \A p \in Pixmaps : count[p] = 0
    /\ pcX # "idle" => op \in Ops
    /\ pcX \in {"wait", "locked", "reinit"} =>
           /\ at <= 2 /\ count[op[at].pixmap] = 0
           /\ NeedsGpuLock(op[at].pixmap, op[at].index)
    /\ pcX = "draw" => at = 3
    /\ pcX \in {"prepare", "wait", "locked", "reinit", "draw"} =>
           /\ at = 1 => \A p \in Pixmaps : count[p] = 0
           /\ at = 2 => \A p \in Pixmaps : p # op[1].pixmap => count[p] = 0
           /\ at >= 2 => /\ count[op[1].pixmap] > 0
                         /\ slot[op[1].pixmap] = op[1].index
           /\ at = 3 => /\ count[op[2].pixmap] > 0
                        /\ op[2].pixmap # op[1].pixmap =>
                               slot[op[2].pixmap] = op[2].index

(* The locks of the X server: that of an access in progress to p, and the  *)
(* one between the mutex and the access.                                   *)
LockedFor(p) == count[p] > 0 /\ NeedsGpuLock(p, slot[p])
AccessLock(p) == IF LockedFor(p) THEN 1 ELSE 0
OwedUnlock(p) == IF LockedFor(p) /\ p \in agreed THEN 1 ELSE 0
Locks == AccessLock("root") + AccessLock("other")
Owed == OwedUnlock("root") + OwedUnlock("other")
CallLock == IF pcX \in {"locked", "unlock"} THEN 1 ELSE 0

(* The mutex is held no more often than will be unlocked or is lost, *)
HeldAtMost == holder = "X" => depth <= Owed + CallLock + leaks

(* and, unless it was taken from one who used it, no less often than there *)
(* are accesses that need it.                                              *)
HeldAtLeast ==
    /\ Locks + CallLock > 0 => holder = "X"
    /\ holder = "X" => depth >= Locks + CallLock
    /\ pcR \in {"locked", "draw", "unlock"} => holder = "R"

(* The inductive invariant of the lock. *)
LockInv == LockTypes /\ Accesses /\ HeldAtMost /\ (late \/ HeldAtLeast)

-----------------------------------------------------------------------------
(* The two accesses of an operation. *)
LEMMA OpAccess ==
    ASSUME NEW o \in Ops, NEW i \in 1..2
    PROVE  o[i].pixmap \in Pixmaps /\ o[i].index \in {"DEST", "SRC"}
BY DEF Ops

(* Which access is next. *)
LEMMA NextIs ==
    ASSUME LockTypes, Accesses, pcX # "idle", at <= 2
    PROVE  /\ NextAccess.pixmap \in Pixmaps
           /\ NextAccess.index \in {"DEST", "SRC"}
<1>1. op \in Ops /\ at \in 1..2
  BY DEF LockTypes, Accesses
<1>2. QED
  BY <1>1, OpAccess, Zenon DEF NextAccess

(* The steps of the renderer and of the activity *)
RendererLock ==
    \/ RAcquire \/ RDraw \/ RSuspect \/ RReinit \/ RUnlock \/ RRelease
    \/ RConnect \/ RLock \/ RClose \/ RUnmap \/ RDie

(* leave the X server where it is, *)
LEMMA RendererFrame == RendererLock => UNCHANGED lockX
BY Zenon DEF RendererLock, RAcquire, RDraw, RSuspect, RReinit, RUnlock,
   RRelease, RConnect, RLock, RClose, RUnmap, RDie, lockX

(* and most of them leave the mutex alone. *)
RendererIdles ==
    RDraw \/ RSuspect \/ RUnlock \/ RConnect \/ RLock \/ RClose \/ RUnmap

(* Their frame. *)
LEMMA IdleFrame == RendererIdles => UNCHANGED <<holder, depth, leaks, lockX>>
BY Zenon DEF RendererIdles, RDraw, RSuspect, RUnlock, RConnect, RLock,
   RClose, RUnmap, lockMutex, lockCounts

-----------------------------------------------------------------------------

(* It holds at the beginning. *)
LEMMA LockInitInv == LockInit => LockInv
<1> SUFFICES ASSUME LockInit PROVE LockInv
  OBVIOUS
<1>1. LockTypes
  BY DEF LockInit, LockTypes, LockTypeOK
<1>2. Accesses
  BY Zenon DEF LockInit, Accesses, Pixmaps
<1>3. HeldAtMost
  BY Zenon DEF LockInit, HeldAtMost
<1>4. HeldAtLeast
  BY DEF LockInit, HeldAtLeast, Locks, AccessLock, LockedFor, CallLock,
     Pixmaps
<1>5. QED
  BY <1>1, <1>2, <1>3, <1>4, Zenon DEF LockInv

(* Every step keeps the types. *)
LEMMA LockTypesKept ==
    LockInv /\ [LockNext]_lockVars => LockTypes'
<1> SUFFICES ASSUME LockInv, [LockNext]_lockVars PROVE LockTypes'
  OBVIOUS
<1> USE DEF LockInv
<1>1. ASSUME NEW o \in Ops, XStart(o) PROVE LockTypes'
  BY <1>1 DEF XStart, LockTypes, LockTypeOK, lockX, lockAccess, lockMutex,
     lockCounts, lockR
<1>2. ASSUME NEW ps \in SUBSET Pixmaps, XPresent(ps) PROVE LockTypes'
  BY <1>2, ZenonT(40) DEF XPresent, LockTypes, LockTypeOK, lockX, lockAccess,
     lockMutex, lockCounts, lockR
<1>3. CASE XPrepareNested
  BY <1>3, NextIs DEF XPrepareNested, LockTypes, LockTypeOK, lockX,
     lockAccess, lockMutex, lockCounts, lockR
<1>4. CASE XPrepare
  BY <1>4, NextIs DEF XPrepare, XPrepared, LockTypes, LockTypeOK, lockX,
     lockAccess, lockMutex, lockCounts, lockR
<1>5. CASE XLock
  BY <1>5, ZenonT(40) DEF XLock, LockTypes, LockTypeOK, lockX, lockAccess,
     lockMutex, lockCounts, lockR
<1>6. CASE XAcquire
  BY <1>6 DEF XAcquire, Acquires, LockTypes, LockTypeOK, lockX, lockAccess,
     lockMutex, lockCounts, lockR
<1>7. ASSUME NEW ok \in BOOLEAN, XPrepareLocked(ok) PROVE LockTypes'
  <2>1. at <= 2 /\ pcX = "locked"
    BY <1>7, ZenonT(40) DEF XPrepareLocked, Accesses
  <2>2. LockTypeOK' /\ pcX' = "prepare" /\ pcR' = pcR /\ op' = op
    BY <1>7, ZenonT(40) DEF XPrepareLocked, XPrepared, LockTypes,
       LockTypeOK, lockR
  <2>3. at' \in 1..3 /\ leaks' \in Nat
    BY <1>7, <2>1 DEF XPrepareLocked, XPrepared, LockTypes
  <2>4. /\ count' \in [Pixmaps -> Nat]
        /\ slot' \in [Pixmaps -> {"none", "DEST", "SRC"}]
    BY <1>7, <2>1, NextIs, ZenonT(40) DEF XPrepareLocked, XPrepared, LockTypes
  <2>5. QED
    BY Zenon, <2>2, <2>3, <2>4 DEF LockTypes
<1>8. CASE XSuspect
  BY <1>8, ZenonT(40) DEF XSuspect, LockTypes, LockTypeOK, lockX, lockAccess,
     lockMutex, lockCounts, lockR
<1>9. CASE XReinit
  BY <1>9, ZenonT(40) DEF XReinit, Reinitialises, LockTypes, LockTypeOK,
     lockX, lockAccess, lockMutex, lockCounts, lockR
<1>10. CASE XDraw
  BY <1>10, ZenonT(40) DEF XDraw, LockTypes, LockTypeOK, lockX, lockAccess,
     lockMutex, lockCounts, lockR
<1>11. ASSUME NEW p \in Pixmaps, XFinish(p) PROVE LockTypes'
  BY <1>11 DEF XFinish, LockTypes, LockTypeOK, lockX, lockAccess, lockMutex,
     lockCounts, lockR
<1>12. CASE XUnlock
  BY <1>12 DEF XUnlock, Releases, LockTypes, LockTypeOK, lockX, lockAccess,
     lockMutex, lockCounts, lockR
<1>13. CASE XDone
  BY <1>13 DEF XDone, LockTypes, LockTypeOK, lockX, lockAccess, lockMutex,
     lockCounts, lockR
<1>14. CASE RAcquire
  BY <1>14 DEF RAcquire, Acquires, LockTypes, LockTypeOK, lockX, lockAccess,
     lockMutex, lockCounts, lockR
<1>15. CASE RDraw
  BY <1>15, ZenonT(40) DEF RDraw, LockTypes, LockTypeOK, lockX, lockAccess,
     lockMutex, lockCounts, lockR
<1>16. CASE RSuspect
  BY <1>16, ZenonT(40) DEF RSuspect, LockTypes, LockTypeOK, lockX, lockAccess,
     lockMutex, lockCounts, lockR
<1>17. CASE RReinit
  BY <1>17, ZenonT(40) DEF RReinit, Reinitialises, LockTypes, LockTypeOK,
     lockX, lockAccess, lockMutex, lockCounts, lockR
<1>18. CASE RUnlock
  BY <1>18, ZenonT(40) DEF RUnlock, LockTypes, LockTypeOK, lockX, lockAccess,
     lockMutex, lockCounts, lockR
<1>19. CASE RRelease
  BY <1>19 DEF RRelease, Releases, LockTypes, LockTypeOK, lockX, lockAccess,
     lockMutex, lockCounts, lockR
<1>20. CASE RConnect
  BY <1>20, ZenonT(40) DEF RConnect, LockTypes, LockTypeOK, lockX, lockAccess,
     lockMutex, lockCounts, lockR
<1>21. CASE RLock
  BY <1>21, ZenonT(40) DEF RLock, LockTypes, LockTypeOK, lockX, lockAccess,
     lockMutex, lockCounts, lockR
<1>22. CASE RClose
  BY <1>22, ZenonT(40) DEF RClose, LockTypes, LockTypeOK, lockX, lockAccess,
     lockMutex, lockCounts, lockR
<1>23. CASE RUnmap
  BY <1>23, ZenonT(40) DEF RUnmap, LockTypes, LockTypeOK, lockX, lockAccess,
     lockMutex, lockCounts, lockR
<1>24. CASE RDie
  BY <1>24, ZenonT(40) DEF RDie, LockTypes, LockTypeOK, lockX, lockAccess,
     lockMutex, lockCounts, lockR
<1>25. CASE UNCHANGED lockVars
  BY <1>25, ZenonT(40) DEF LockTypes, LockTypeOK, lockVars, lockMutex, lockX,
     lockAccess, lockR, lockCounts
<1>26. QED
  BY Zenon, <1>1, <1>2, <1>3, <1>4, <1>5, <1>6, <1>7, <1>8, <1>9, <1>10,
     <1>11, <1>12, <1>13, <1>14, <1>15, <1>16, <1>17, <1>18, <1>19, <1>20,
     <1>21, <1>22, <1>23, <1>24, <1>25 DEF LockNext, XWorks, RWorks

(* Preparing the next access, the first one of its pixmap or another one, *)
(* keeps the account of them.                                             *)
LEMMA Advance ==
    ASSUME LockTypes, Accesses, pcX \in {"prepare", "locked"}, at <= 2,
           pcX' = "prepare", op' = op, at' = at + 1,
           NEW q, q = NextAccess.pixmap, NEW j, j = NextAccess.index,
           NEW c \in Nat \ {0}, count' = [count EXCEPT ![q] = c],
           \/ count[q] = 0 /\ slot' = [slot EXCEPT ![q] = j]
           \/ count[q] > 0 /\ slot' = slot
    PROVE  Accesses'
<1>1. /\ op \in Ops /\ at \in 1..2 /\ q \in Pixmaps
      /\ count \in [Pixmaps -> Nat]
      /\ slot \in [Pixmaps -> {"none", "DEST", "SRC"}]
  <2>1. op \in Ops /\ at \in 1..2
    BY DEF LockTypes, Accesses
  <2>2. QED
    BY <2>1, NextIs, Zenon DEF LockTypes, Accesses
<1>2. PICK p1, j1, p2, j2 :
          /\ p1 = op[1].pixmap /\ j1 = op[1].index
          /\ p2 = op[2].pixmap /\ j2 = op[2].index
  OBVIOUS
<1>3. p1 \in Pixmaps /\ p2 \in Pixmaps
  BY <1>1, <1>2, OpAccess
<1>4. /\ at = 1 => \A p \in Pixmaps : count[p] = 0
      /\ at = 2 => \A p \in Pixmaps : p # p1 => count[p] = 0
      /\ at = 2 => count[p1] > 0 /\ slot[p1] = j1
  BY <1>1, <1>2 DEF Accesses
<1>5. /\ at = 1 => q = p1 /\ j = j1
      /\ at = 2 => q = p2 /\ j = j2
  BY <1>2, Zenon DEF NextAccess
<1>6. /\ at' = 2 => \A p \in Pixmaps : p # p1 => count'[p] = 0
      /\ count'[p1] > 0 /\ slot'[p1] = j1
      /\ at' = 3 => count'[p2] > 0 /\ (p2 # p1 => slot'[p2] = j2)
      /\ at' \in 2..3
  <2>1. CASE at = 1
    BY <1>1, <1>3, <1>4, <1>5, <2>1
  <2>2. CASE at = 2
    BY <1>1, <1>3, <1>4, <1>5, <2>2
  <2>3. QED
    BY <1>1, <2>1, <2>2
<1>7. at' # 1
  BY <1>6
<1>8. QED
  BY <1>1, <1>2, <1>6, <1>7, Zenon DEF Accesses

(* The accesses are prepared one by one, and finished before the X server  *)
(* is idle.  Only its own steps matter.                                    *)
LEMMA AccessesKept ==
    LockInv /\ [LockNext]_lockVars => Accesses'
<1> SUFFICES ASSUME LockInv, [LockNext]_lockVars PROVE Accesses'
  OBVIOUS
<1> USE DEF LockInv
<1>1. ASSUME NEW o \in Ops, XStart(o) PROVE Accesses'
  BY <1>1 DEF XStart, LockTypes, Accesses, NeedsGpuLock, NextAccess, Pixmaps,
     lockX, lockAccess
<1>2. ASSUME NEW ps \in SUBSET Pixmaps, XPresent(ps) PROVE Accesses'
  BY <1>2, Zenon DEF XPresent, LockTypes, Accesses, NeedsGpuLock, NextAccess,
     Pixmaps, lockX, lockAccess
<1>3. CASE XPrepareNested
  <2>1. PICK q, j, c : /\ q = NextAccess.pixmap /\ j = NextAccess.index
                      /\ c = count[q] + 1
    OBVIOUS
  <2>2. /\ pcX = "prepare" /\ at <= 2 /\ pcX' = pcX /\ op' = op
        /\ at' = at + 1 /\ count[q] > 0 /\ slot' = slot
        /\ count' = [count EXCEPT ![q] = c]
    BY <1>3, <2>1, Zenon DEF XPrepareNested
  <2>3. count[q] \in Nat
    BY <2>1, <2>2, NextIs, Zenon DEF LockTypes
  <2>4. c \in Nat \ {0}
    BY <2>1, <2>3
  <2>5. QED
    BY <2>1, <2>2, <2>4, Advance, Zenon
<1>4. CASE XPrepare
  <2>1. PICK q, j : q = NextAccess.pixmap /\ j = NextAccess.index
    OBVIOUS
  <2>2. /\ pcX = "prepare" /\ at <= 2 /\ pcX' = "prepare" /\ op' = op
        /\ at' = at + 1 /\ count[q] = 0 /\ slot' = [slot EXCEPT ![q] = j]
        /\ count' = [count EXCEPT ![q] = 1]
    BY <1>4, <2>1, Zenon DEF XPrepare, XPrepared
  <2>3. 1 \in Nat \ {0}
    OBVIOUS
  <2>4. QED
    BY <2>1, <2>2, <2>3, Advance, Zenon
<1>5. CASE XLock
  BY <1>5, Zenon DEF XLock, LockTypes, Accesses, NeedsGpuLock, NextAccess,
     Pixmaps, lockX, lockAccess
<1>6. CASE XAcquire
  BY <1>6, Zenon DEF XAcquire, Acquires, LockTypes, Accesses, NeedsGpuLock,
     NextAccess, Pixmaps, lockX, lockAccess
<1>7. ASSUME NEW ok \in BOOLEAN, XPrepareLocked(ok) PROVE Accesses'
  <2>1. PICK q, j : q = NextAccess.pixmap /\ j = NextAccess.index
    OBVIOUS
  <2>2. /\ pcX = "locked" /\ at <= 2 /\ pcX' = "prepare" /\ op' = op
        /\ at' = at + 1 /\ count[q] = 0 /\ slot' = [slot EXCEPT ![q] = j]
        /\ count' = [count EXCEPT ![q] = 1]
    BY <1>7, <2>1, Zenon DEF XPrepareLocked, XPrepared, Accesses, NextAccess
  <2>3. 1 \in Nat \ {0}
    OBVIOUS
  <2>4. QED
    BY <2>1, <2>2, <2>3, Advance, Zenon
<1>8. CASE XSuspect
  BY <1>8, Zenon DEF XSuspect, LockTypes, Accesses, NeedsGpuLock, NextAccess,
     Pixmaps, lockX, lockAccess
<1>9. CASE XReinit
  BY <1>9, Zenon DEF XReinit, Reinitialises, LockTypes, Accesses,
     NeedsGpuLock, NextAccess, Pixmaps, lockX, lockAccess
<1>10. CASE XDraw
  BY <1>10, Zenon DEF XDraw, LockTypes, Accesses, NeedsGpuLock, NextAccess,
     Pixmaps, lockX, lockAccess
<1>11. ASSUME NEW p \in Pixmaps, XFinish(p) PROVE Accesses'
  BY <1>11, Zenon DEF XFinish, LockTypes, Accesses, NeedsGpuLock, NextAccess,
     Pixmaps, lockX, lockAccess
<1>12. CASE XUnlock
  BY <1>12, Zenon DEF XUnlock, Releases, LockTypes, Accesses, NeedsGpuLock,
     NextAccess, Pixmaps, lockX, lockAccess
<1>13. CASE XDone
  BY <1>13, Zenon DEF XDone, LockTypes, Accesses, NeedsGpuLock, NextAccess,
     Pixmaps, lockX, lockAccess
<1>14. CASE UNCHANGED lockX
  BY <1>14, Zenon DEF Accesses, NeedsGpuLock, lockX, lockAccess
<1>15. QED
  BY Zenon, <1>1, <1>2, <1>3, <1>4, <1>5, <1>6, <1>7, <1>8, <1>9, <1>10,
     <1>11, <1>12, <1>13, <1>14, RendererFrame DEF LockNext, XWorks, RWorks,
     RendererLock, lockVars

(* What a step does to the locks of the accesses: none to them, if it      *)
(* leaves the accesses alone,                                              *)
LEMMA LocksFrame ==
    UNCHANGED <<lockAccess, pendingX>> => Locks' = Locks /\ Owed' = Owed
BY Zenon DEF lockAccess, Locks, Owed, AccessLock, OwedUnlock, LockedFor,
   NeedsGpuLock

(* and they are as many as there are accesses to pixmaps that need it. *)
LEMMA LocksNat ==
    /\ Locks \in Nat /\ Owed \in Nat /\ Locks' \in Nat /\ Owed' \in Nat
    /\ Locks = 0 <=> ~LockedFor("root") /\ ~LockedFor("other")
BY DEF Locks, Owed, AccessLock, OwedUnlock

(* The copies under way change between two operations only; an access that *)
(* is only counted, or does not need the lock, adds none.                  *)
LEMMA LocksSame ==
    ASSUME LockInv,
           \/ \E ps \in SUBSET Pixmaps : XPresent(ps)
           \/ XPrepareNested \/ XPrepare
    PROVE  Locks' = Locks /\ Owed' = Owed
<1> USE DEF LockedFor, NeedsGpuLock
<1>1. ASSUME NEW ps \in SUBSET Pixmaps, XPresent(ps)
      PROVE  Locks' = Locks /\ Owed' = Owed
  <2>1. count["root"] = 0 /\ count["other"] = 0 /\ UNCHANGED lockAccess
    BY <1>1, Zenon DEF XPresent, LockInv, Accesses, Pixmaps
  <2>2. QED
    BY <2>1 DEF lockAccess, Locks, Owed, AccessLock, OwedUnlock
<1>2. ASSUME NEW p \in Pixmaps, XPrepareNested
      PROVE  /\ LockedFor(p)' = LockedFor(p)
             /\ UNCHANGED agreed
  <2>1. NextAccess.pixmap \in Pixmaps /\ count \in [Pixmaps -> Nat]
    BY <1>2, NextIs, Zenon DEF XPrepareNested, LockInv, LockTypes
  <2>2. count[p] > 0 <=> count'[p] > 0
    BY <1>2, <2>1 DEF XPrepareNested
  <2>3. QED
    BY <1>2, <2>2, Zenon DEF XPrepareNested
<1>3. ASSUME NEW p \in Pixmaps, XPrepare
      PROVE  /\ LockedFor(p)' = LockedFor(p)
             /\ LockedFor(p) => (p \in agreed' <=> p \in agreed)
  <2>1. /\ NextAccess.pixmap \in Pixmaps
        /\ count \in [Pixmaps -> Nat] /\ DOMAIN slot = Pixmaps
    BY <1>3, NextIs, Zenon DEF XPrepare, LockInv, LockTypes
  <2>2. QED
    BY <1>3, <2>1 DEF XPrepare, XPrepared
<1>4. "root" \in Pixmaps /\ "other" \in Pixmaps
  BY Zenon DEF Pixmaps
<1> USE DEF Locks, Owed, AccessLock, OwedUnlock
<1>5. CASE XPrepareNested
  BY <1>2, <1>4, <1>5, Zenon
<1>6. CASE XPrepare
  BY <1>3, <1>4, <1>6, Zenon
<1>7. QED
  BY <1>1, <1>5, <1>6, Zenon

(* loriePrepareAccess() gives an access the lock it has taken, to be       *)
(* unlocked if the driver agrees;                                          *)
LEMMA LocksTaken ==
    ASSUME LockInv, NEW ok \in BOOLEAN, XPrepareLocked(ok)
    PROVE  Locks' = Locks + 1 /\ Owed' >= Owed /\ (ok => Owed' = Owed + 1)
<1>1. /\ at <= 2 /\ pcX = "locked" /\ count[NextAccess.pixmap] = 0
      /\ NeedsGpuLock(NextAccess.pixmap, NextAccess.index)
  BY Zenon DEF XPrepareLocked, LockInv, Accesses, NextAccess
<1>2. NextAccess.pixmap \in Pixmaps /\ NextAccess.index \in {"DEST", "SRC"}
  BY <1>1, NextIs, Zenon DEF LockInv
<1>3. /\ count \in [Pixmaps -> Nat] /\ DOMAIN slot = Pixmaps
      /\ Pixmaps = {"root", "other"}
  BY Zenon DEF LockInv, LockTypes, Pixmaps
<1>q. PICK q \in Pixmaps : q = NextAccess.pixmap
  BY Zenon, <1>2
<1>n. PICK n \in {"DEST", "SRC"} : n = NextAccess.index
  BY Zenon, <1>2
<1>4. /\ count' = [count EXCEPT ![q] = 1] /\ slot' = [slot EXCEPT ![q] = n]
      /\ agreed' = IF ok THEN agreed \union {q} ELSE agreed
      /\ pendingX' = pendingX /\ count[q] = 0 /\ NeedsGpuLock(q, n)
  BY Zenon, <1>1, <1>q, <1>n DEF XPrepareLocked, XPrepared
<1>5. ~LockedFor(q) /\ LockedFor(q)' /\ (ok => q \in agreed')
  BY <1>3, <1>4 DEF LockedFor, NeedsGpuLock
<1>6. ASSUME NEW p \in Pixmaps, p # q
      PROVE  /\ LockedFor(p)' <=> LockedFor(p)
             /\ p \in agreed' <=> p \in agreed
  BY <1>3, <1>4, <1>6, Zenon DEF LockedFor, NeedsGpuLock
<1>7. QED
  BY <1>3, <1>5, <1>6 DEF Locks, Owed, AccessLock, OwedUnlock

(* and lorieFinishAccess() ends it. *)
LEMMA LocksEnded ==
    ASSUME LockInv, NEW q \in Pixmaps, XFinish(q)
    PROVE  \/ pcX' = "unlock" /\ Locks' = Locks - 1 /\ Owed' = Owed - 1
           \/ pcX' = "finish" /\ Locks' <= Locks /\ Owed' = Owed
<1>1. /\ count \in [Pixmaps -> Nat] /\ DOMAIN slot = Pixmaps
      /\ "root" \in Pixmaps /\ "other" \in Pixmaps
      /\ q \in {"root", "other"}
  BY Zenon DEF LockInv, LockTypes, Pixmaps
<1>2. /\ count[q] > 0 /\ count' = [count EXCEPT ![q] = @ - 1]
      /\ pendingX' = pendingX
  BY Zenon DEF XFinish
<1>3. ASSUME NEW p \in Pixmaps, p # q
      PROVE  /\ LockedFor(p)' <=> LockedFor(p)
             /\ p \in agreed' <=> p \in agreed
  BY <1>1, <1>2, <1>3, Zenon DEF XFinish, LockedFor, NeedsGpuLock
<1>4. CASE count[q] > 1
  <2>1. /\ pcX' = "finish"
        /\ LockedFor(q)' <=> LockedFor(q)
        /\ q \in agreed' <=> q \in agreed
    BY <1>1, <1>2, <1>4 DEF XFinish, LockedFor, NeedsGpuLock
  <2>2. QED
    BY <1>1, <1>3, <2>1 DEF Locks, Owed, AccessLock, OwedUnlock
<1>5. CASE count[q] = 1
  <2>1. /\ ~LockedFor(q)'
        /\ IF q \in agreed /\ LockedFor(q) THEN pcX' = "unlock"
                                          ELSE pcX' = "finish"
    BY <1>1, <1>2, <1>5 DEF XFinish, LockedFor
  <2>2. QED
    BY <1>1, <1>3, <2>1 DEF Locks, Owed, AccessLock, OwedUnlock
<1>6. QED
  BY <1>1, <1>2, <1>4, <1>5

(* Each lock has its unlock: a step that takes the mutex adds a lock, one  *)
(* that gives it back ends one.                                            *)
LEMMA AtMostKept ==
    LockInv /\ [LockNext]_lockVars => HeldAtMost'
<1> SUFFICES ASSUME LockInv, [LockNext]_lockVars PROVE HeldAtMost'
  OBVIOUS
<1>0. /\ Locks \in Nat /\ Owed \in Nat /\ leaks \in Nat /\ depth \in Nat
      /\ (depth = 0) = (holder = "none")
      /\ HeldAtMost /\ (late \/ HeldAtLeast)
  BY LocksNat, Zenon DEF LockInv, LockTypes, LockTypeOK
<1>1. ASSUME NEW o \in Ops, XStart(o)
      PROVE  HeldAtMost'
  BY <1>0, <1>1, LocksFrame, Zenon DEF XStart, HeldAtMost, CallLock,
     lockMutex, lockAccess, lockCounts
<1>2. ASSUME NEW ps \in SUBSET Pixmaps, XPresent(ps)
      PROVE  HeldAtMost'
  BY <1>0, <1>2, LocksSame, Zenon DEF XPresent, HeldAtMost, CallLock,
     lockMutex, lockCounts
<1>3. CASE XPrepareNested
  BY <1>0, <1>3, LocksSame, Zenon DEF XPrepareNested, HeldAtMost, CallLock,
     lockMutex, lockCounts
<1>4. CASE XPrepare
  BY <1>0, <1>4, LocksSame, Zenon DEF XPrepare, HeldAtMost, CallLock,
     lockMutex, lockCounts
<1>5. CASE XLock
  BY <1>0, <1>5, LocksFrame, Zenon DEF XLock, HeldAtMost, CallLock, lockMutex,
     lockAccess, lockCounts
<1>6. CASE XAcquire
  BY <1>0, <1>6, LocksFrame DEF XAcquire, Acquires, HeldAtMost, CallLock,
     lockAccess, lockCounts
<1>7. ASSUME NEW ok \in BOOLEAN, XPrepareLocked(ok)
      PROVE  HeldAtMost'
  <2>1. /\ UNCHANGED <<holder, depth>> /\ CallLock = 1 /\ CallLock' = 0
        /\ leaks' = leaks \/ leaks' = leaks + 1
        /\ ok \/ leaks' = leaks + 1
    BY <1>7, Zenon DEF XPrepareLocked, CallLock
  <2>2. Owed' >= Owed /\ (ok => Owed' = Owed + 1) /\ Owed' \in Nat
    BY <1>7, LocksTaken, LocksNat, Zenon
  <2>3. Owed' + leaks' >= Owed + leaks + 1
    BY <1>0, <2>1, <2>2
  <2>4. QED
    BY <1>0, <2>1, <2>2, <2>3 DEF HeldAtMost
<1>8. CASE XSuspect
  BY <1>0, <1>8, LocksFrame, Zenon DEF XSuspect, HeldAtMost, CallLock,
     lockMutex, lockAccess, lockCounts
<1>9. CASE XReinit
  BY <1>0, <1>9, LocksFrame, Zenon DEF XReinit, Reinitialises, HeldAtMost,
     CallLock, lockAccess
<1>10. CASE XDraw
  BY <1>0, <1>10, LocksFrame, Zenon DEF XDraw, HeldAtMost, CallLock,
     lockMutex, lockAccess, lockCounts
<1>11. ASSUME NEW p \in Pixmaps, XFinish(p)
      PROVE  HeldAtMost'
  <2>1. UNCHANGED <<holder, depth, leaks>> /\ CallLock = 0
    BY <1>11, Zenon DEF XFinish, CallLock, lockCounts
  <2>2. /\ pcX' = "unlock" => CallLock' = 1
        /\ pcX' = "finish" => CallLock' = 0
    BY Zenon DEF CallLock
  <2>3. Locks' \in Nat /\ Owed' \in Nat
    BY Zenon, LocksNat
  <2>4. \/ pcX' = "unlock" /\ Locks' = Locks - 1 /\ Owed' = Owed - 1
        \/ pcX' = "finish" /\ Locks' <= Locks /\ Owed' = Owed
    BY Zenon, <1>11, LocksEnded
  <2>5. /\ Locks' + CallLock' <= Locks + CallLock
        /\ Owed' + CallLock' = Owed + CallLock
        /\ CallLock' \in Nat
    BY <1>0, <2>1, <2>2, <2>3, <2>4
  <2>6. QED
    BY <1>0, <2>1, <2>3, <2>5, Zenon DEF HeldAtMost
<1>12. CASE XUnlock
  BY <1>0, <1>12, LocksFrame DEF XUnlock, Releases, HeldAtMost, CallLock,
     lockAccess, lockCounts
<1>13. CASE XDone
  BY <1>0, <1>13, LocksFrame, Zenon DEF XDone, HeldAtMost, CallLock,
     lockMutex, lockAccess, lockCounts
<1>14. CASE RAcquire
  BY <1>0, <1>14, LocksFrame, Zenon DEF RAcquire, Acquires, HeldAtMost,
     CallLock, lockX, lockAccess, lockCounts
<1>15. CASE RReinit
  BY <1>0, <1>15, LocksFrame, Zenon DEF RReinit, Reinitialises, HeldAtMost,
     CallLock, lockX, lockAccess
<1>16. CASE RRelease
  BY <1>0, <1>16, LocksFrame, Zenon DEF RRelease, Releases, HeldAtMost,
     CallLock, lockX, lockAccess, lockCounts
<1>17. CASE RDie
  BY <1>0, <1>17, LocksFrame, Zenon DEF RDie, HeldAtMost, CallLock, lockX,
     lockAccess
<1>18. CASE UNCHANGED <<holder, depth, leaks, lockX>>
  BY <1>0, <1>18, LocksFrame, Zenon DEF HeldAtMost, CallLock, lockX
<1>19. QED
  BY Zenon, <1>1, <1>2, <1>3, <1>4, <1>5, <1>6, <1>7, <1>8, <1>9, <1>10,
     <1>11, <1>12, <1>13, <1>14, <1>15, <1>16, <1>17, <1>18, IdleFrame DEF
     LockNext, XWorks, RWorks, lockVars, lockMutex, lockCounts, RendererIdles

(* Only Reinitialises ends a lock that is in use. *)
LEMMA AtLeastKept ==
    LockInv /\ [LockNext]_lockVars => (late \/ HeldAtLeast)'
<1> SUFFICES ASSUME LockInv, [LockNext]_lockVars PROVE (late \/ HeldAtLeast)'
  OBVIOUS
<1>0. /\ Locks \in Nat /\ Owed \in Nat /\ leaks \in Nat /\ depth \in Nat
      /\ (depth = 0) = (holder = "none")
      /\ HeldAtMost /\ (late \/ HeldAtLeast)
  BY LocksNat, Zenon DEF LockInv, LockTypes, LockTypeOK
<1>1. ASSUME NEW o \in Ops, XStart(o)
      PROVE  (late \/ HeldAtLeast)'
  BY <1>0, <1>1, LocksFrame, Zenon DEF XStart, HeldAtLeast, CallLock,
     lockMutex, lockAccess, lockR, lockCounts
<1>2. ASSUME NEW ps \in SUBSET Pixmaps, XPresent(ps)
      PROVE  (late \/ HeldAtLeast)'
  BY <1>0, <1>2, LocksSame, Zenon DEF XPresent, HeldAtLeast, CallLock,
     lockMutex, lockR, lockCounts
<1>3. CASE XPrepareNested
  BY <1>0, <1>3, LocksSame, Zenon DEF XPrepareNested, HeldAtLeast, CallLock,
     lockMutex, lockR, lockCounts
<1>4. CASE XPrepare
  BY <1>0, <1>4, LocksSame, Zenon DEF XPrepare, HeldAtLeast, CallLock,
     lockMutex, lockR, lockCounts
<1>5. CASE XLock
  BY <1>0, <1>5, LocksFrame, Zenon DEF XLock, HeldAtLeast, CallLock,
     lockMutex, lockAccess, lockR, lockCounts
<1>6. CASE XAcquire
  BY <1>0, <1>6, LocksFrame DEF XAcquire, Acquires, HeldAtLeast, CallLock,
     lockAccess, lockR, lockCounts
<1>7. ASSUME NEW ok \in BOOLEAN, XPrepareLocked(ok)
      PROVE  (late \/ HeldAtLeast)'
  BY <1>0, <1>7, LocksTaken DEF XPrepareLocked, HeldAtLeast, CallLock, lockR
<1>8. CASE XSuspect
  BY <1>0, <1>8, LocksFrame, Zenon DEF XSuspect, HeldAtLeast, CallLock,
     lockMutex, lockAccess, lockR, lockCounts
<1>9. CASE XReinit
  <2>1. CASE late \/ InUse
    BY <1>9, <2>1, Zenon DEF XReinit, Reinitialises
  <2>2. CASE ~late /\ ~InUse
    <3>1. pcX = "reinit" /\ holder # "X" /\ holder # "R"
      BY <1>9, <2>2, Zenon DEF XReinit, InUse
    <3>2. Locks + CallLock = 0 /\ pcR \notin {"locked", "draw", "unlock"}
      BY <1>0, <2>2, <3>1 DEF HeldAtLeast, CallLock
    <3>3. Locks' = Locks /\ CallLock' = 0 /\ CallLock = 0
      BY <1>9, <3>1, LocksFrame, Zenon DEF XReinit, CallLock
    <3>4. holder' = "none" /\ pcR' = pcR
      BY <1>9, Zenon DEF XReinit, Reinitialises, lockR
    <3>5. QED
      BY <1>0, <3>2, <3>3, <3>4 DEF HeldAtLeast
  <2>3. QED
    BY <2>1, <2>2, Zenon
<1>10. CASE XDraw
  BY <1>0, <1>10, LocksFrame, Zenon DEF XDraw, HeldAtLeast, CallLock,
     lockMutex, lockAccess, lockR, lockCounts
<1>11. ASSUME NEW p \in Pixmaps, XFinish(p)
      PROVE  (late \/ HeldAtLeast)'
  <2>1. UNCHANGED <<holder, depth, leaks, late, pcR>> /\ CallLock = 0
    BY <1>11, Zenon DEF XFinish, CallLock, lockR, lockCounts
  <2>2. /\ pcX' = "unlock" => CallLock' = 1
        /\ pcX' = "finish" => CallLock' = 0
    BY Zenon DEF CallLock
  <2>3. Locks' \in Nat /\ Owed' \in Nat
    BY Zenon, LocksNat
  <2>4. \/ pcX' = "unlock" /\ Locks' = Locks - 1 /\ Owed' = Owed - 1
        \/ pcX' = "finish" /\ Locks' <= Locks /\ Owed' = Owed
    BY Zenon, <1>11, LocksEnded
  <2>5. PICK l \in Nat : l = Locks'
    BY Zenon, <2>3
  <2>6. \E c \in {0, 1} : c = CallLock' /\ l + c <= Locks
    <3>1. CASE CallLock' = 1 /\ l = Locks - 1
      BY <1>0, <3>1
    <3>2. CASE CallLock' = 0 /\ l <= Locks
      BY <1>0, <3>2
    <3>3. QED
      BY Zenon, <2>2, <2>4, <2>5, <3>1, <3>2
  <2>c. PICK c \in {0, 1} : c = CallLock' /\ l + c <= Locks
    BY Zenon, <2>6
  <2>7. ASSUME HeldAtLeast PROVE HeldAtLeast'
    <3>0. /\ Locks \in Nat /\ depth \in Nat /\ CallLock = 0
          /\ c \in {0, 1} /\ l + c <= Locks
      BY Zenon, <1>0, <2>1, <2>c
    <3>1. /\ l + c > 0 => holder = "X"
          /\ holder = "X" => depth >= l + c
      BY <2>7, <3>0 DEF HeldAtLeast
    <3>2. pcR \in {"locked", "draw", "unlock"} => holder = "R"
      BY Zenon, <2>7 DEF HeldAtLeast
    <3>3. QED
      BY Zenon, <2>1, <2>5, <2>c, <3>1, <3>2 DEF HeldAtLeast
  <2>8. QED
    BY Zenon, <1>0, <2>1, <2>7
<1>12. CASE XUnlock
  BY <1>0, <1>12, LocksFrame DEF XUnlock, Releases, HeldAtLeast, CallLock,
     lockAccess, lockR, lockCounts
<1>13. CASE XDone
  BY <1>0, <1>13, LocksFrame, Zenon DEF XDone, HeldAtLeast, CallLock,
     lockMutex, lockAccess, lockR, lockCounts
<1>14. CASE RAcquire
  BY <1>0, <1>14, LocksFrame, Zenon DEF RAcquire, Acquires, HeldAtLeast,
     CallLock, lockX, lockAccess, lockCounts
<1>15. CASE RDraw
  BY <1>0, <1>15, LocksFrame, Zenon DEF RDraw, HeldAtLeast, CallLock, lockX,
     lockAccess, lockCounts
<1>16. CASE RSuspect
  BY <1>0, <1>16, LocksFrame, Zenon DEF RSuspect, HeldAtLeast, CallLock,
     lockMutex, lockX, lockAccess, lockCounts
<1>17. CASE RReinit
  <2>1. CASE late \/ InUse
    BY <1>17, <2>1, Zenon DEF RReinit, Reinitialises
  <2>2. CASE ~late /\ ~InUse
    <3>1. holder = "X" => pcX = "idle"
      BY <2>2, Zenon DEF InUse
    <3>2. pcX = "idle" => Locks = 0 /\ CallLock = 0
      BY LocksNat DEF LockInv, Accesses, LockedFor, CallLock, Pixmaps
    <3>3. Locks + CallLock = 0 /\ CallLock \in Nat
      BY <1>0, <2>2, <3>1, <3>2 DEF HeldAtLeast, CallLock
    <3>4. Locks' = Locks /\ CallLock' = CallLock
      BY <1>17, LocksFrame, Zenon DEF RReinit, lockX, CallLock
    <3>5. holder' = "none" /\ pcR' = "wait"
      BY <1>17, Zenon DEF RReinit, Reinitialises
    <3>6. QED
      BY <1>0, <3>3, <3>4, <3>5 DEF HeldAtLeast
  <2>3. QED
    BY <2>1, <2>2, Zenon
<1>18. CASE RUnlock
  BY <1>0, <1>18, LocksFrame, Zenon DEF RUnlock, HeldAtLeast, CallLock, lockX,
     lockAccess, lockCounts
<1>19. CASE RRelease
  BY <1>0, <1>19, LocksFrame, Zenon DEF RRelease, Releases, HeldAtLeast,
     CallLock, lockX, lockAccess, lockCounts
<1>20. CASE RConnect
  BY <1>0, <1>20, LocksFrame, Zenon DEF RConnect, HeldAtLeast, CallLock,
     lockMutex, lockX, lockAccess, lockCounts
<1>21. CASE RLock
  BY <1>0, <1>21, LocksFrame, Zenon DEF RLock, HeldAtLeast, CallLock,
     lockMutex, lockX, lockAccess, lockCounts
<1>22. CASE RClose
  BY <1>0, <1>22, LocksFrame, Zenon DEF RClose, HeldAtLeast, CallLock,
     lockMutex, lockX, lockAccess
<1>23. CASE RUnmap
  BY <1>0, <1>23, LocksFrame, Zenon DEF RUnmap, HeldAtLeast, CallLock,
     lockMutex, lockX, lockAccess, lockCounts
<1>24. CASE RDie
  BY <1>0, <1>24, LocksFrame, Zenon DEF RDie, HeldAtLeast, CallLock, lockX,
     lockAccess
<1>25. CASE UNCHANGED lockVars
  BY <1>0, <1>25, LocksFrame, Zenon DEF HeldAtLeast, CallLock, lockVars,
     lockMutex, lockX, lockR, lockCounts
<1>26. QED
  BY Zenon, <1>1, <1>2, <1>3, <1>4, <1>5, <1>6, <1>7, <1>8, <1>9, <1>10,
     <1>11, <1>12, <1>13, <1>14, <1>15, <1>16, <1>17, <1>18, <1>19, <1>20,
     <1>21, <1>22, <1>23, <1>24, <1>25 DEF LockNext, XWorks, RWorks

(* The invariant of the lock. *)
THEOREM LockInvCorrect == LockSpec => []LockInv
<1>1. LockInv /\ [LockNext]_lockVars => LockInv'
  BY LockTypesKept, AccessesKept, AtMostKept, AtLeastKept, Zenon DEF LockInv
<1>2. QED
  BY <1>1, LockInitInv, PTL DEF LockSpec

(* The X server does not draw what the renderer may be reading or writing, *)
(* since each has the mutex, and only one at a time can.                   *)
THEOREM DrawExclusiveCorrect == LockSpec => []DrawExclusive
<1>1. ASSUME LockInv, pcX = "draw", pcR = "draw", ~late
      PROVE  /\ Writes(op, "root") => CopyWithin("root")
             /\ \A i \in 1..2 : op[i].pixmap \notin pendingX
  <2>1. ~LockedFor("root") /\ ~LockedFor("other")
    <3>1. Locks + CallLock = 0
      BY <1>1, LocksNat DEF LockInv, HeldAtLeast, CallLock
    <3>2. QED
      BY <3>1, LocksNat DEF CallLock
  <2>2. op \in Ops /\ at = 3 /\ at >= 2
    <3>1. op \in Ops /\ at = 3
      BY <1>1, Zenon DEF LockInv, Accesses
    <3>2. QED
      BY <3>1
  <2>3. \A i \in 1..2 : op[i].pixmap \in Pixmaps /\ count[op[i].pixmap] > 0
    <3>1. count[op[1].pixmap] > 0 /\ count[op[2].pixmap] > 0
      BY <1>1, <2>2, Zenon DEF LockInv, Accesses
    <3>2. QED
      BY <2>2, <3>1, OpAccess
  <2>4. \A i \in 1..2 : op[i].pixmap \notin pendingX
    BY <2>1, <2>3, Zenon DEF LockedFor, NeedsGpuLock, Pixmaps
  <2>5. slot["root"] # "DEST" \/ count["root"] = 0
    BY <1>1, <2>1 DEF LockedFor, NeedsGpuLock, LockInv, LockTypes, Pixmaps
  <2>6. ASSUME Writes(op, "root") PROVE CopyWithin("root")
    <3>1. /\ op[1].pixmap = "root" /\ op[1].index = "SRC"
          /\ op[2].pixmap = "root"
      <4>1. /\ slot[op[1].pixmap] = op[1].index
            /\ op[2].pixmap # op[1].pixmap =>
                   slot[op[2].pixmap] = op[2].index
        BY <1>1, <2>2, Zenon DEF LockInv, Accesses
      <4>2. \/ op[1].pixmap = "root" /\ op[1].index = "DEST"
            \/ op[2].pixmap = "root" /\ op[2].index = "DEST"
        BY <2>6 DEF Writes
      <4>3. ~(count[op[1].pixmap] = 0) /\ ~(count[op[2].pixmap] = 0)
        BY <2>3
      <4>4. op[1].index \in {"DEST", "SRC"}
        BY <2>2, OpAccess
      <4>5. QED
        BY <2>5, <4>1, <4>2, <4>3, <4>4, Zenon
    <3>2. QED
      BY <2>2, <3>1 DEF CopyWithin, Ops
  <2>7. QED
    BY <2>4, <2>6, Zenon
<1>2. LockInv => DrawExclusive
  BY Zenon, <1>1 DEF DrawExclusive
<1>3. QED
  BY LockInvCorrect, <1>2, PTL

(* Between two operations the X server holds the mutex only for accesses   *)
(* that the driver refused.                                                *)
THEOREM LockBalancedCorrect == LockSpec => []LockBalanced
<1>1. ASSUME LockInv, pcX = "idle", holder = "X" PROVE depth <= leaks
  <2>1. ~LockedFor("root") /\ ~LockedFor("other")
    <3>1. count["root"] = 0 /\ count["other"] = 0
      BY <1>1, Zenon DEF LockInv, Accesses, Pixmaps
    <3>2. QED
      BY <3>1 DEF LockedFor
  <2>2. Owed = 0 /\ CallLock = 0
    BY <1>1, <2>1 DEF Owed, OwedUnlock, CallLock
  <2>3. depth \in Nat /\ leaks \in Nat /\ depth <= Owed + CallLock + leaks
    BY <1>1, Zenon DEF LockInv, LockTypes, LockTypeOK, HeldAtMost
  <2>4. QED
    BY <2>2, <2>3
<1>2. LockInv => LockBalanced
  BY Zenon, <1>1 DEF LockBalanced
<1>3. QED
  BY LockInvCorrect, <1>2, PTL

-----------------------------------------------------------------------------
(* The renderer. *)

(* The renderer draws a buffer only between the moment it has found it and *)
(* the moment it takes the lock again, and the buffer is then in one of    *)
(* its lists.                                                              *)
Drawing ==
    /\ drawn # NoBuffer =>
           /\ pcV \in {"draw", "cursor"}
           /\ drawn \in buffers \union removedBuffers
    /\ pcV = "draw" => drawn # NoBuffer

(* A state is pending only while the GUI thread waits for the renderer to  *)
(* take it, and it is the one of the connection; the renderer is stopped   *)
(* after the last connection.                                              *)
StateHandover ==
    /\ stateChanged => pcU \in {"state", "hangup"}
    /\ stateChanged /\ guiOpen => pendingState
    /\ stopping => ~guiOpen /\ pcU \in {"join", "destroyed"}

(* The request for the first root pixmap is dropped only when another size *)
(* is expected, with the state in place: setViewport() renews it then.     *)
FirstRequest ==
    root = 1 /\ RequestLost /\ guiOpen => stateV /\ expected # root

(* The inductive invariant of the renderer. *)
RendInv == RendTypeOK /\ Drawing /\ StateHandover /\ FirstRequest

(* Which steps change what.  The X server has the root pixmap; *)
LEMMA RootFrame ==
    [RendNext]_rendVars =>
        /\ SetSize \/ root' = root
        /\ Redraw \/ rootTexture' = rootTexture
BY Zenon DEF RendNext, RendererSteps, Check, Sleep, Apply, Work, DrawRoot,
   DrawCursor, Release, Exit, Paint, MoveCursor, Redraw, SetSize, ConnectR,
   SetWakeupCond, XHangup, CloseConnection, Destroy, SetSurface, SetViewport,
   GuiSteps, ReceiveState, ReceiveAdd, ReceiveRemove, HandshakeEnds, Joined,
   SetSharedState, Signal, SignalFromX, rendVars, rendX, rendShared, rendGui,
   rendMonitor, rendThread, rendLists, rendScreen

(* only the renderer chooses what it draws, and others wake it at most; *)
LEMMA DrawnFrame ==
    [RendNext]_rendVars =>
        \/ RendererSteps
        \/ /\ drawn' = drawn
           /\ pcV' = pcV \/ (pcV = "asleep" /\ pcV' = "check")
BY Zenon DEF RendNext, Paint, MoveCursor, Redraw, SetSize, ConnectR,
   SetWakeupCond, XHangup, CloseConnection, Destroy, SetSurface, SetViewport,
   GuiSteps, ReceiveState, ReceiveAdd, ReceiveRemove, HandshakeEnds, Joined,
   SetSharedState, Signal, SignalFromX, rendVars, rendX, rendShared, rendGui,
   rendMonitor, rendThread, rendLists, rendScreen

(* the GUI thread and the renderer have the lists; *)
LEMMA ListsFrame ==
    [RendNext]_rendVars =>
        \/ Apply \/ Release \/ Exit \/ HandshakeEnds
        \/ \E b \in Roots : ReceiveAdd(b) \/ ReceiveRemove(b)
        \/ UNCHANGED rendLists
BY Zenon DEF RendNext, RendererSteps, Check, Sleep, Work, DrawRoot,
   DrawCursor, Paint, MoveCursor, Redraw, SetSize, ConnectR, SetWakeupCond,
   XHangup, CloseConnection, Destroy, SetSurface, SetViewport, GuiSteps,
   ReceiveState, ReceiveAdd, ReceiveRemove, HandshakeEnds, Joined,
   SetSharedState, Signal, SignalFromX, rendVars, rendX, rendShared, rendGui,
   rendMonitor, rendThread, rendLists, rendScreen

(* and hand the state over; *)
LEMMA HandoverFrame ==
    [RendNext]_rendVars =>
        \/ ConnectR \/ ReceiveState \/ CloseConnection \/ HandshakeEnds
        \/ Destroy \/ Joined \/ Apply \/ \E w \in BOOLEAN : SetSurface(w)
        \/ UNCHANGED <<stateChanged, pendingState, guiOpen, pcU, stopping>>
BY Zenon DEF RendNext, RendererSteps, Check, Sleep, Work, DrawRoot,
   DrawCursor, Release, Exit, Paint, MoveCursor, Redraw, SetSize, ConnectR,
   SetWakeupCond, XHangup, CloseConnection, Destroy, SetSurface, SetViewport,
   GuiSteps, ReceiveState, ReceiveAdd, ReceiveRemove, HandshakeEnds, Joined,
   SetSharedState, Signal, SignalFromX, rendVars, rendX, rendShared, rendGui,
   rendMonitor, rendThread, rendLists, rendScreen

(* a request comes and goes with these. *)
LEMMA RequestFrame ==
    [RendNext]_rendVars =>
        \/ Paint \/ Redraw \/ SetSize \/ ConnectR \/ CloseConnection
        \/ Apply \/ Work \/ DrawRoot \/ Exit
        \/ \E w \in BOOLEAN : SetSurface(w)
        \/ \E b \in Roots : SetViewport(b)
        \/ UNCHANGED <<root, dirty, damage, drawRequested, guiOpen, stateV,
                       expected>>
BY Zenon DEF RendNext, RendererSteps, Check, Sleep, DrawCursor, Release,
   Paint, MoveCursor, Redraw, SetSize, ConnectR, SetWakeupCond, XHangup,
   CloseConnection, Destroy, SetSurface, SetViewport, GuiSteps, ReceiveState,
   ReceiveAdd, ReceiveRemove, HandshakeEnds, Joined, SetSharedState, Signal,
   SignalFromX, rendVars, rendX, rendShared, rendGui, rendMonitor,
   rendThread, rendLists, rendScreen

(* It holds at the beginning. *)
LEMMA RendInitInv == RendInit => RendInv
<1> SUFFICES ASSUME RendInit PROVE RendInv
  OBVIOUS
<1>1. RendTypeOK
  BY RootsAssumption DEF RendInit, RendTypeOK, Roots, NoBuffer
<1>2. Drawing /\ StateHandover /\ FirstRequest
  BY Zenon DEF RendInit, Drawing, StateHandover, FirstRequest
<1>3. QED
  BY Zenon, <1>1, <1>2 DEF RendInv

(* Every step keeps the types: no buffer is that of a later root pixmap. *)
LEMMA RendTypesKept == RendInv /\ [RendNext]_rendVars => RendTypeOK'
<1> SUFFICES ASSUME RendInv, [RendNext]_rendVars PROVE RendTypeOK'
  OBVIOUS
<1> DEFINE Buffers == addedBuffers \union buffers \union removedBuffers
<1>1. /\ root \in Roots /\ rootTexture \in 0 .. root /\ drawn \in 0 .. root
      /\ Buffers \subseteq Roots
  BY Zenon DEF RendInv, RendTypeOK
<1>2. root' \in Roots /\ root <= root'
  <2>1. root' = root \/ (root < MaxRoots /\ root' = root + 1)
    BY Zenon, RootFrame DEF SetSize
  <2>2. QED
    BY <1>1, <2>1, RootsAssumption DEF Roots
<1>3. rootTexture' = rootTexture \/ rootTexture' = root
  BY Zenon, RootFrame DEF Redraw
<1>4. rootTexture' \in 0 .. root'
  BY <1>1, <1>2, <1>3 DEF Roots
<1>5. drawn' = drawn \/ drawn' = rootTexture \/ drawn' = 0
  BY Zenon, DrawnFrame DEF RendererSteps, Check, Sleep, Apply, Work,
     DrawRoot, DrawCursor, Release, Exit, NoBuffer
<1>6. drawn' \in 0 .. root'
  BY <1>1, <1>2, <1>5 DEF Roots
<1>7. Buffers' \subseteq Roots
  <2>1. CASE Apply
    BY Zenon, <1>1, <2>1 DEF Apply
  <2>2. CASE Release
    BY Zenon, <1>1, <2>2 DEF Release
  <2>3. CASE Exit
    BY Zenon, <1>1, <2>3 DEF Exit
  <2>4. CASE HandshakeEnds
    BY Zenon, <1>1, <2>4 DEF HandshakeEnds, RemoveAllBuffers, rendLists
  <2>5. ASSUME NEW b \in Roots, ReceiveAdd(b) PROVE Buffers' \subseteq Roots
    BY Zenon, <1>1, <2>5 DEF ReceiveAdd
  <2>6. ASSUME NEW b \in Roots, ReceiveRemove(b)
        PROVE  Buffers' \subseteq Roots
    BY Zenon, <1>1, <2>6 DEF ReceiveRemove, RemoveBuffer
  <2>7. CASE UNCHANGED rendLists
    BY Zenon, <1>1, <2>7 DEF rendLists
  <2>8. QED
    BY Zenon, <2>1, <2>2, <2>3, <2>4, <2>5, <2>6, <2>7, ListsFrame
<1>8. QED
  BY Zenon, <1>2, <1>4, <1>6, <1>7 DEF RendTypeOK

(* Removed buffers stay in a list until the drawing is over. *)
LEMMA DrawingKept == RendInv /\ [RendNext]_rendVars => Drawing'
<1> SUFFICES ASSUME RendInv, [RendNext]_rendVars PROVE Drawing'
  OBVIOUS
<1>1. Drawing /\ 0 \notin buffers \union removedBuffers
  BY DEF RendInv, RendTypeOK, Roots
<1> DEFINE Held == buffers \union removedBuffers
<1>2. pcV \in {"draw", "cursor"} => Held \subseteq Held'
  <2> SUFFICES ASSUME pcV \in {"draw", "cursor"} PROVE Held \subseteq Held'
    OBVIOUS
  <2>1. ~Apply /\ ~Release /\ ~Exit
    BY Zenon DEF Apply, Release, Exit
  <2>2. CASE HandshakeEnds
    BY Zenon, <2>2 DEF HandshakeEnds, RemoveAllBuffers, rendLists
  <2>3. ASSUME NEW b \in Roots, ReceiveAdd(b) PROVE Held \subseteq Held'
    BY Zenon, <2>3 DEF ReceiveAdd
  <2>4. ASSUME NEW b \in Roots, ReceiveRemove(b) PROVE Held \subseteq Held'
    BY Zenon, <2>4 DEF ReceiveRemove, RemoveBuffer
  <2>5. CASE UNCHANGED rendLists
    BY Zenon, <2>5 DEF rendLists
  <2>6. QED
    BY Zenon, <2>1, <2>2, <2>3, <2>4, <2>5, ListsFrame
<1>3. CASE /\ drawn' = drawn
           /\ pcV' = pcV \/ (pcV = "asleep" /\ pcV' = "check")
  BY Zenon, <1>1, <1>2, <1>3 DEF Drawing
<1>4. CASE Work
  BY Zenon, <1>1, <1>4 DEF Drawing, Work, rendLists, NoBuffer
<1>5. CASE DrawRoot
  BY Zenon, <1>1, <1>5 DEF Drawing, DrawRoot, rendLists
<1>6. CASE DrawCursor
  BY Zenon, <1>6 DEF Drawing, DrawCursor
<1>7. CASE Check \/ Sleep \/ Apply \/ Release \/ Exit
  BY Zenon, <1>1, <1>7 DEF Drawing, Check, Sleep, Apply, Release, Exit
<1>8. QED
  BY Zenon, <1>3, <1>4, <1>5, <1>6, <1>7, DrawnFrame DEF RendererSteps

(* The handshakes of the GUI thread keep StateHandover. *)
LEMMA HandoverKept == RendInv /\ [RendNext]_rendVars => StateHandover'
<1> SUFFICES ASSUME StateHandover, [RendNext]_rendVars PROVE StateHandover'
  BY Zenon DEF RendInv
<1> USE DEF StateHandover
<1>1. CASE ConnectR
  BY Zenon, <1>1 DEF ConnectR, rendMonitor
<1>2. CASE ReceiveState
  BY Zenon, <1>2 DEF ReceiveState, SetSharedState
<1>3. CASE CloseConnection
  BY Zenon, <1>3 DEF CloseConnection, SetSharedState
<1>4. CASE HandshakeEnds
  BY Zenon, <1>4 DEF HandshakeEnds, rendMonitor
<1>5. CASE Destroy
  BY Zenon, <1>5 DEF Destroy
<1>6. CASE Joined
  BY Zenon, <1>6 DEF Joined, rendMonitor
<1>7. CASE Apply
  BY Zenon, <1>7 DEF Apply, rendGui
<1>8. ASSUME NEW w \in BOOLEAN, SetSurface(w) PROVE StateHandover'
  BY Zenon, <1>8 DEF SetSurface
<1>9. CASE UNCHANGED <<stateChanged, pendingState, guiOpen, pcU, stopping>>
  BY Zenon, <1>9
<1>10. QED
  BY Zenon, <1>1, <1>2, <1>3, <1>4, <1>5, <1>6, <1>7, <1>8, <1>9,
     HandoverFrame

(* The steps that clear a request, or let it be shown, keep FirstRequest. *)
LEMMA FirstRequestKept == RendInv /\ [RendNext]_rendVars => FirstRequest'
<1> SUFFICES ASSUME RendInv, [RendNext]_rendVars,
                    root' = 1, RequestLost', guiOpen'
             PROVE  stateV' /\ expected' # root'
  BY Zenon DEF FirstRequest
<1>1. root = 1
  <2>1. root' = root \/ root' = root + 1
    BY Zenon, RootFrame DEF SetSize
  <2>2. root \in Roots
    BY Zenon DEF RendInv, RendTypeOK
  <2>3. QED
    BY <2>1, <2>2 DEF Roots
<1>2. FirstRequest /\ StateHandover
  BY Zenon DEF RendInv
<1>3. rootTexture \in buffers \union removedBuffers => rootTexture = 1
  BY <1>1 DEF RendInv, RendTypeOK, Roots
<1>4. pcV = "draw" => drawn = 1
  BY <1>1 DEF RendInv, RendTypeOK, Drawing, NoBuffer
<1> USE <1>1 DEF RequestLost, FirstRequest
<1>5. ~Paint
  BY Zenon DEF Paint
<1>6. CASE Redraw
  BY Zenon, <1>2, <1>6 DEF Redraw, rendGui, rendMonitor, rendScreen
<1>7. ~SetSize
  BY Zenon DEF SetSize
<1>8. ~ConnectR
  BY Zenon DEF ConnectR
<1>9. ~CloseConnection
  BY Zenon DEF CloseConnection
<1>10. CASE Apply
  BY Zenon, <1>2, <1>10 DEF Apply, StateHandover, rendX, rendGui, rendScreen
<1>11. CASE Work
  BY Zenon, <1>2, <1>3, <1>11 DEF Work, rendX, rendGui, rendMonitor
<1>12. ~DrawRoot
  BY Zenon, <1>4 DEF DrawRoot
<1>13. ~Exit
  BY Zenon, <1>2 DEF Exit, StateHandover, rendGui
<1>14. ASSUME NEW w \in BOOLEAN, SetSurface(w) PROVE stateV' /\ expected' # 1
  BY <1>2, <1>14 DEF SetSurface, NoBuffer, rendX, rendShared, rendScreen
<1>15. ASSUME NEW b \in Roots, SetViewport(b) PROVE FALSE
  BY Zenon, <1>2, <1>15 DEF SetViewport, rendX, rendGui, rendScreen
<1>16. CASE UNCHANGED <<root, dirty, damage, drawRequested, guiOpen, stateV,
                        expected>>
  BY Zenon, <1>2, <1>16
<1>17. QED
  BY Zenon, <1>5, <1>6, <1>7, <1>8, <1>9, <1>10, <1>11, <1>12, <1>13, <1>14,
     <1>15, <1>16, RequestFrame

(* The invariant of the renderer. *)
THEOREM RendInvCorrect == RendSpec => []RendInv
<1>1. RendInv /\ [RendNext]_rendVars => RendInv'
  BY Zenon, RendTypesKept, DrawingKept, HandoverKept, FirstRequestKept
     DEF RendInv
<1>2. QED
  BY <1>1, RendInitInv, PTL DEF RendSpec

(* removeBuffer() and removeAllBuffers() never take away what              *)
(* redrawLocked() draws.                                                   *)
THEOREM BufferHeldCorrect == RendSpec => []BufferHeld
<1>1. RendInv => BufferHeld
  BY Zenon DEF RendInv, Drawing, BufferHeld
<1>2. QED
  BY <1>1, RendInvCorrect, PTL

(* redrawLocked() never clears a request for the first root pixmap that it *)
(* does not fulfil, while that could be shown.                             *)
THEOREM RequestKeptCorrect == RendSpec => []RequestKept
<1>1. ASSUME RendInv, Showable, RequestLost PROVE root > 1
  <2>1. root # 1
    BY Zenon, <1>1 DEF RendInv, FirstRequest, Showable
  <2>2. QED
    BY <1>1, <2>1 DEF RendInv, RendTypeOK, Roots
<1>2. RendInv => RequestKept
  BY Zenon, <1>1 DEF RequestKept
<1>3. QED
  BY <1>2, RendInvCorrect, PTL

-----------------------------------------------------------------------------
(* The clipboard. *)

(* Announcements in a queue, after and before its i-th message. *)
Announced(q) == InFlight(q, "announce")
AnnouncedAfter(q, i) == \E j \in i + 1 .. Len(q) : Type(q[j]) = "announce"
AnnouncedBefore(q, i) == \E j \in 1 .. i - 1 : Type(q[j]) = "announce"

(* The texts that are not out of date, or about to be announced so. *)
Current == IF unannounced THEN Nat ELSE {clip}

(* What the cache has is current, or an announcement is on its way, *)
CacheFresh(w, x, cur, o, d) ==
    o = "server" /\ d # NoText => d \in cur \/ Announced(w) \/ Announced(x)

(* and so is every text on its way to the cache, unless the server is not  *)
(* the owner when the text comes: the announcement that makes it the owner *)
(* clears the cache.                                                       *)
WorksFresh(w, x, cur, o) ==
    \A i \in 1 .. Len(w) : Type(w[i]) = "data" =>
        \/ Text(w[i]) \in cur \/ AnnouncedAfter(w, i) \/ Announced(x)
        \/ o # "server" /\ ~AnnouncedBefore(w, i)

(* The same of the texts that have not been read yet. *)
SocketFresh(w, x, cur, o) ==
    \A i \in 1 .. Len(x) : Type(x[i]) = "data" =>
        \/ Text(x[i]) \in cur \/ AnnouncedAfter(x, i)
        \/ o # "server" /\ ~Announced(w) /\ ~AnnouncedBefore(x, i)

(* All three. *)
AllFresh(w, x, cur, o, d) ==
    /\ CacheFresh(w, x, cur, o, d)
    /\ WorksFresh(w, x, cur, o) /\ SocketFresh(w, x, cur, o)

(* The inductive invariant of the clipboard. *)
ClipInv ==
    /\ ClipTypeOK
    /\ crossed \/ AllFresh(works, toX, Current, owner, cachedData)

(* What Append and Tail do to a queue, *)
LEMMA AppendFacts ==
    ASSUME NEW q \in Seq(Messages), NEW m \in Messages
    PROVE  /\ Append(q, m) \in Seq(Messages)
           /\ Len(Append(q, m)) = Len(q) + 1 /\ Len(q) \in Nat
           /\ \A i \in 1 .. Len(q) : Append(q, m)[i] = q[i]
           /\ Append(q, m)[Len(q) + 1] = m
OBVIOUS

(* element by element, *)
LEMMA TailFacts ==
    ASSUME NEW q \in Seq(Messages), q # <<>>
    PROVE  /\ Tail(q) \in Seq(Messages) /\ Head(q) \in Messages
           /\ Head(q) = q[1]
           /\ Len(q) \in Nat \ {0} /\ Len(Tail(q)) = Len(q) - 1
           /\ \A i \in 1 .. Len(q) - 1 : Tail(q)[i] = q[i + 1]
OBVIOUS

(* and to its announcements. *)
LEMMA AnnouncedAppend ==
    ASSUME NEW q \in Seq(Messages), NEW m \in Messages
    PROVE  /\ Announced(Append(q, m)) <=>
                  Announced(q) \/ Type(m) = "announce"
           /\ \A i \in 1 .. Len(q) :
                  /\ AnnouncedAfter(Append(q, m), i) <=>
                         AnnouncedAfter(q, i) \/ Type(m) = "announce"
                  /\ AnnouncedBefore(Append(q, m), i) <=>
                         AnnouncedBefore(q, i)
           /\ AnnouncedBefore(Append(q, m), Len(q) + 1) <=> Announced(q)
<1> DEFINE r == Append(q, m)
<1>1. /\ Len(r) = Len(q) + 1 /\ Len(q) \in Nat
      /\ \A i \in 1 .. Len(q) : r[i] = q[i]
      /\ r[Len(q) + 1] = m
  BY AppendFacts, Zenon
<1> HIDE DEF r
<1>2. Announced(r) <=> Announced(q) \/ Type(m) = "announce"
  BY <1>1 DEF Announced, InFlight
<1>3. ASSUME NEW i \in 1 .. Len(q)
      PROVE  AnnouncedAfter(r, i) <=>
                 AnnouncedAfter(q, i) \/ Type(m) = "announce"
  BY <1>1 DEF AnnouncedAfter
<1>4. ASSUME NEW i \in 1 .. Len(q)
      PROVE  AnnouncedBefore(r, i) <=> AnnouncedBefore(q, i)
  BY <1>1 DEF AnnouncedBefore
<1>5. AnnouncedBefore(r, Len(q) + 1) <=> Announced(q)
  BY <1>1 DEF AnnouncedBefore, Announced, InFlight
<1>6. QED
  BY <1>2, <1>3, <1>4, <1>5, Zenon DEF r

(* The first message goes. *)
LEMMA AnnouncedTail ==
    ASSUME NEW q \in Seq(Messages), q # <<>>
    PROVE  /\ Announced(q) <=>
                  Type(Head(q)) = "announce" \/ Announced(Tail(q))
           /\ AnnouncedAfter(q, 1) <=> Announced(Tail(q))
           /\ ~AnnouncedBefore(q, 1)
           /\ \A i \in 1 .. Len(q) - 1 :
                  /\ AnnouncedAfter(q, i + 1) <=> AnnouncedAfter(Tail(q), i)
                  /\ AnnouncedBefore(q, i + 1) <=>
                         \/ Type(Head(q)) = "announce"
                         \/ AnnouncedBefore(Tail(q), i)
<1> DEFINE r == Tail(q)
           h == Head(q)
<1>1. /\ Len(q) \in Nat \ {0} /\ Len(r) = Len(q) - 1 /\ h = q[1]
      /\ \A i \in 1 .. Len(q) - 1 : r[i] = q[i + 1]
  BY TailFacts, Zenon
<1> HIDE DEF r, h
<1>2. \A j \in 2 .. Len(q) : j - 1 \in 1 .. Len(q) - 1 /\ q[j] = r[j - 1]
  BY <1>1
<1>3. Announced(q) <=> Type(h) = "announce" \/ Announced(r)
  BY <1>1, <1>2 DEF Announced, InFlight
<1>4. AnnouncedAfter(q, 1) <=> Announced(r)
  BY <1>1, <1>2 DEF AnnouncedAfter, Announced, InFlight
<1>5. ~AnnouncedBefore(q, 1)
  BY DEF AnnouncedBefore
<1>6. ASSUME NEW i \in 1 .. Len(q) - 1
      PROVE  AnnouncedAfter(q, i + 1) <=> AnnouncedAfter(r, i)
  BY <1>1, <1>2 DEF AnnouncedAfter
<1>7. ASSUME NEW i \in 1 .. Len(q) - 1
      PROVE  AnnouncedBefore(q, i + 1) <=>
                 Type(h) = "announce" \/ AnnouncedBefore(r, i)
  <2>1. ASSUME NEW j \in 1 .. i, Type(q[j]) = "announce"
        PROVE  Type(h) = "announce" \/ AnnouncedBefore(r, i)
    <3>1. CASE j = 1
      BY <1>1, <2>1, <3>1, Zenon
    <3>2. CASE j # 1
      BY <1>1, <1>2, <2>1, <3>2 DEF AnnouncedBefore
    <3>3. QED
      BY <3>1, <3>2, Zenon
  <2>2. ASSUME Type(h) = "announce" PROVE AnnouncedBefore(q, i + 1)
    BY <1>1, <2>2 DEF AnnouncedBefore
  <2>3. ASSUME NEW j \in 1 .. i - 1, Type(r[j]) = "announce"
        PROVE  AnnouncedBefore(q, i + 1)
    <3>1. q[j + 1] = r[j] /\ j + 1 \in 1 .. (i + 1) - 1
      BY <1>1
    <3>2. QED
      BY <2>3, <3>1, Zenon DEF AnnouncedBefore
  <2>4. AnnouncedBefore(q, i + 1) => \E j \in 1 .. i : Type(q[j]) = "announce"
    BY DEF AnnouncedBefore
  <2>5. QED
    BY <2>1, <2>2, <2>3, <2>4, Zenon DEF AnnouncedBefore
<1>8. QED
  BY <1>3, <1>4, <1>5, <1>6, <1>7, Zenon DEF r, h

(* How the queues may change.  A connection is cut; *)
LEMMA FreshCut ==
    ASSUME NEW w \in Seq(Messages), NEW x \in Seq(Messages), NEW cur, NEW o,
           NEW d, AllFresh(w, x, cur, o, d),
           ~Announced(x)
    PROVE  AllFresh(w, <<>>, cur, o, d)
<1>1. ~Announced(<<>>)
  BY DEF Announced, InFlight
<1>2. QED
  BY <1>1 DEF AllFresh, CacheFresh, WorksFresh, SocketFresh

(* the activity sends a text that is current, or enables the clipboard; *)
LEMMA FreshSend ==
    ASSUME NEW w \in Seq(Messages), NEW x \in Seq(Messages), NEW cur, NEW o,
           NEW d, AllFresh(w, x, cur, o, d),
           NEW m \in Messages, Type(m) # "announce",
           Type(m) = "data" => Text(m) \in cur
    PROVE  AllFresh(w, Append(x, m), cur, o, d)
<1> DEFINE y == Append(x, m)
<1>1. /\ Len(y) = Len(x) + 1 /\ Len(x) \in Nat
      /\ \A i \in 1 .. Len(x) : y[i] = x[i]
      /\ y[Len(x) + 1] = m
  BY AppendFacts, Zenon
<1>2. /\ Announced(y) <=> Announced(x)
      /\ \A i \in 1 .. Len(x) :
             /\ AnnouncedAfter(y, i) <=> AnnouncedAfter(x, i)
             /\ AnnouncedBefore(y, i) <=> AnnouncedBefore(x, i)
  BY AnnouncedAppend, Zenon
<1> HIDE DEF y
<1>3. CacheFresh(w, y, cur, o, d) /\ WorksFresh(w, y, cur, o)
  BY <1>2, Zenon DEF AllFresh, CacheFresh, WorksFresh
<1>4. SocketFresh(w, y, cur, o)
  BY <1>1, <1>2 DEF AllFresh, SocketFresh
<1>5. QED
  BY <1>3, <1>4, Zenon DEF AllFresh, y

(* or announces a change, whatever is current then; *)
LEMMA FreshAnnounce ==
    ASSUME NEW w \in Seq(Messages), NEW x \in Seq(Messages), NEW cur, NEW o,
           NEW d, AllFresh(w, x, cur, o, d),
           NEW m \in Messages, Type(m) = "announce", NEW new
    PROVE  AllFresh(w, Append(x, m), new, o, d)
<1> DEFINE y == Append(x, m)
<1>1. /\ Len(y) = Len(x) + 1 /\ Len(x) \in Nat
      /\ y[Len(x) + 1] = m
  BY AppendFacts, Zenon
<1>2. Announced(y) /\ \A i \in 1 .. Len(x) : AnnouncedAfter(y, i)
  BY AnnouncedAppend, Zenon
<1> HIDE DEF y
<1>3. CacheFresh(w, y, new, o, d) /\ WorksFresh(w, y, new, o)
  BY <1>2, Zenon DEF CacheFresh, WorksFresh
<1>4. SocketFresh(w, y, new, o)
  BY <1>1, <1>2 DEF SocketFresh
<1>5. QED
  BY <1>3, <1>4, Zenon DEF AllFresh, y

(* the input thread handles the message that enables the clipboard, *)
LEMMA FreshEnable ==
    ASSUME NEW w \in Seq(Messages), NEW x \in Seq(Messages), NEW cur, NEW o,
           NEW d, AllFresh(w, x, cur, o, d),
           x # <<>>, Type(Head(x)) = "enable"
    PROVE  AllFresh(w, Tail(x), cur, o, d)
<1> DEFINE y == Tail(x)
<1>1. /\ Len(x) \in Nat \ {0} /\ Len(y) = Len(x) - 1
      /\ \A i \in 1 .. Len(x) - 1 : y[i] = x[i + 1]
  BY TailFacts, Zenon
<1>2. /\ Announced(x) <=> Announced(y)
      /\ \A i \in 1 .. Len(x) - 1 :
             /\ AnnouncedAfter(x, i + 1) <=> AnnouncedAfter(y, i)
             /\ AnnouncedBefore(x, i + 1) <=> AnnouncedBefore(y, i)
  BY AnnouncedTail, Zenon
<1> HIDE DEF y
<1>3. CacheFresh(w, y, cur, o, d) /\ WorksFresh(w, y, cur, o)
  BY <1>2, Zenon DEF AllFresh, CacheFresh, WorksFresh
<1>4. ASSUME NEW i \in 1 .. Len(y), Type(y[i]) = "data"
      PROVE  \/ Text(y[i]) \in cur \/ AnnouncedAfter(y, i)
             \/ o # "server" /\ ~Announced(w) /\ ~AnnouncedBefore(y, i)
  <2>1. i + 1 \in 1 .. Len(x) /\ x[i + 1] = y[i] /\ i \in 1 .. Len(x) - 1
    BY <1>1
  <2>2. QED
    BY <1>2, <1>4, <2>1, Zenon DEF AllFresh, SocketFresh
<1>5. QED
  BY <1>3, <1>4, Zenon DEF AllFresh, SocketFresh, y

(* or queues a work procedure for another; *)
LEMMA FreshQueue ==
    ASSUME NEW w \in Seq(Messages), NEW x \in Seq(Messages), NEW cur, NEW o,
           NEW d, AllFresh(w, x, cur, o, d),
           x # <<>>
    PROVE  AllFresh(Append(w, Head(x)), Tail(x), cur, o, d)
<1> DEFINE y == Tail(x)
           m == Head(x)
           v == Append(w, m)
<1>1. /\ Len(x) \in Nat \ {0} /\ Len(y) = Len(x) - 1 /\ m = x[1]
      /\ \A i \in 1 .. Len(x) - 1 : y[i] = x[i + 1]
      /\ m \in Messages
  BY TailFacts, Zenon
<1>2. /\ Announced(x) <=> Type(m) = "announce" \/ Announced(y)
      /\ AnnouncedAfter(x, 1) <=> Announced(y)
      /\ ~AnnouncedBefore(x, 1)
      /\ \A i \in 1 .. Len(x) - 1 :
             /\ AnnouncedAfter(x, i + 1) <=> AnnouncedAfter(y, i)
             /\ AnnouncedBefore(x, i + 1) <=>
                    Type(m) = "announce" \/ AnnouncedBefore(y, i)
  BY AnnouncedTail, Zenon
<1>3. /\ Len(v) = Len(w) + 1 /\ Len(w) \in Nat
      /\ \A i \in 1 .. Len(w) : v[i] = w[i]
      /\ v[Len(w) + 1] = m
  BY <1>1, AppendFacts, Zenon
<1>4. /\ Announced(v) <=> Announced(w) \/ Type(m) = "announce"
      /\ \A i \in 1 .. Len(w) :
             /\ AnnouncedAfter(v, i) <=>
                    AnnouncedAfter(w, i) \/ Type(m) = "announce"
             /\ AnnouncedBefore(v, i) <=> AnnouncedBefore(w, i)
      /\ AnnouncedBefore(v, Len(w) + 1) <=> Announced(w)
  BY <1>1, AnnouncedAppend, Zenon
<1> HIDE DEF y, m, v
<1>5. CacheFresh(v, y, cur, o, d)
  BY <1>2, <1>4, Zenon DEF AllFresh, CacheFresh
<1>6. ASSUME NEW i \in 1 .. Len(v), Type(v[i]) = "data"
      PROVE  \/ Text(v[i]) \in cur \/ AnnouncedAfter(v, i) \/ Announced(y)
             \/ o # "server" /\ ~AnnouncedBefore(v, i)
  <2>1. CASE i \in 1 .. Len(w)
    <3>1. v[i] = w[i]
      BY <1>3, <2>1, Zenon
    <3>2. \/ Text(w[i]) \in cur \/ AnnouncedAfter(w, i) \/ Announced(x)
          \/ o # "server" /\ ~AnnouncedBefore(w, i)
      BY <1>6, <2>1, <3>1, Zenon DEF AllFresh, WorksFresh
    <3>3. QED
      BY <1>2, <1>4, <2>1, <3>1, <3>2, Zenon
  <2>2. CASE i = Len(w) + 1
    <3>0. 1 \in 1 .. Len(x)
      <4>1. Len(x) \in Nat \ {0}
        BY <1>1, Zenon
      <4>2. QED
        BY <4>1
    <3>1. v[i] = x[1] /\ 1 \in 1 .. Len(x)
      BY <1>1, <1>3, <2>2, <3>0, Zenon
    <3>2. \/ Text(x[1]) \in cur \/ AnnouncedAfter(x, 1)
          \/ o # "server" /\ ~Announced(w)
      BY <1>6, <3>1, Zenon DEF AllFresh, SocketFresh
    <3>3. QED
      BY <1>2, <1>4, <2>2, <3>1, <3>2, Zenon
  <2>3. i \in 1 .. Len(w) \/ i = Len(w) + 1
    <3>1. Len(v) = Len(w) + 1 /\ Len(w) \in Nat
      BY <1>3, Zenon
    <3>2. QED
      BY <3>1
  <2>4. QED
    BY <2>1, <2>2, <2>3, Zenon
<1>7. ASSUME NEW i \in 1 .. Len(y), Type(y[i]) = "data"
      PROVE  \/ Text(y[i]) \in cur \/ AnnouncedAfter(y, i)
             \/ o # "server" /\ ~Announced(v) /\ ~AnnouncedBefore(y, i)
  <2>1. i + 1 \in 1 .. Len(x) /\ x[i + 1] = y[i] /\ i \in 1 .. Len(x) - 1
    BY <1>1
  <2>2. QED
    BY <1>2, <1>4, <1>7, <2>1, Zenon DEF AllFresh, SocketFresh
<1>8. QED
  BY <1>5, <1>6, <1>7, Zenon DEF AllFresh, WorksFresh, SocketFresh, v, y, m

(* the main thread runs one, of an announcement *)
LEMMA FreshOwn ==
    ASSUME NEW w \in Seq(Messages), NEW x \in Seq(Messages), NEW cur, NEW o,
           NEW d, AllFresh(w, x, cur, o, d),
           w # <<>>, Type(Head(w)) = "announce"
    PROVE  AllFresh(Tail(w), x, cur, "server", NoText)
<1> DEFINE v == Tail(w)
<1>1. /\ Len(w) \in Nat \ {0} /\ Len(v) = Len(w) - 1
      /\ \A i \in 1 .. Len(w) - 1 : v[i] = w[i + 1]
  BY TailFacts, Zenon
<1>2. /\ Announced(w)
      /\ \A i \in 1 .. Len(w) - 1 :
             /\ AnnouncedAfter(w, i + 1) <=> AnnouncedAfter(v, i)
             /\ AnnouncedBefore(w, i + 1)
  BY AnnouncedTail, Zenon
<1> HIDE DEF v
<1>3. CacheFresh(v, x, cur, "server", NoText)
  BY Zenon DEF CacheFresh
<1>4. ASSUME NEW i \in 1 .. Len(v), Type(v[i]) = "data"
      PROVE  Text(v[i]) \in cur \/ AnnouncedAfter(v, i) \/ Announced(x)
  <2>1. i + 1 \in 1 .. Len(w) /\ w[i + 1] = v[i] /\ i \in 1 .. Len(w) - 1
    BY <1>1
  <2>2. QED
    BY <1>2, <1>4, <2>1, Zenon DEF AllFresh, WorksFresh
<1>5. SocketFresh(v, x, cur, "server")
  BY <1>2, Zenon DEF AllFresh, SocketFresh
<1>6. QED
  BY <1>3, <1>4, <1>5, Zenon DEF AllFresh, WorksFresh, v

(* or of a text; *)
LEMMA FreshCache ==
    ASSUME NEW w \in Seq(Messages), NEW x \in Seq(Messages), NEW cur, NEW o,
           NEW d, AllFresh(w, x, cur, o, d),
           w # <<>>, Type(Head(w)) = "data"
    PROVE  AllFresh(Tail(w), x, cur, o, Text(Head(w)))
<1> DEFINE v == Tail(w)
           m == Head(w)
<1>1. /\ Len(w) \in Nat \ {0} /\ Len(v) = Len(w) - 1 /\ m = w[1]
      /\ \A i \in 1 .. Len(w) - 1 : v[i] = w[i + 1]
  BY TailFacts, Zenon
<1>2. /\ Announced(w) <=> Announced(v)
      /\ AnnouncedAfter(w, 1) <=> Announced(v)
      /\ \A i \in 1 .. Len(w) - 1 :
             /\ AnnouncedAfter(w, i + 1) <=> AnnouncedAfter(v, i)
             /\ AnnouncedBefore(w, i + 1) <=> AnnouncedBefore(v, i)
  BY AnnouncedTail, Zenon
<1>3. Type(m) = "data"
  OBVIOUS
<1> HIDE DEF v, m
<1>4. CacheFresh(v, x, cur, o, Text(m))
  BY <1>1, <1>2, <1>3 DEF AllFresh, WorksFresh, CacheFresh
<1>5. ASSUME NEW i \in 1 .. Len(v), Type(v[i]) = "data"
      PROVE  \/ Text(v[i]) \in cur \/ AnnouncedAfter(v, i) \/ Announced(x)
             \/ o # "server" /\ ~AnnouncedBefore(v, i)
  <2>1. i + 1 \in 1 .. Len(w) /\ w[i + 1] = v[i] /\ i \in 1 .. Len(w) - 1
    BY <1>1
  <2>2. QED
    BY <1>2, <1>5, <2>1, Zenon DEF AllFresh, WorksFresh
<1>6. SocketFresh(v, x, cur, o)
  BY <1>2, Zenon DEF AllFresh, SocketFresh
<1>7. QED
  BY <1>4, <1>5, <1>6, Zenon DEF AllFresh, WorksFresh, v, m

(* an X client becomes the owner; *)
LEMMA FreshLose ==
    ASSUME NEW w \in Seq(Messages), NEW x \in Seq(Messages), NEW cur, NEW o,
           NEW d, AllFresh(w, x, cur, o, d),
           NEW p, p # "server"
    PROVE  AllFresh(w, x, cur, p, d)
BY Zenon DEF AllFresh, CacheFresh, WorksFresh, SocketFresh

(* Android's clipboard is set by X, with nothing announced; *)
LEMMA FreshSet ==
    ASSUME NEW w \in Seq(Messages), NEW x \in Seq(Messages), NEW cur, NEW o,
           NEW d, o # "server", ~Announced(w), ~Announced(x)
    PROVE  AllFresh(w, x, cur, o, d)
<1>1. ASSUME NEW q \in Seq(Messages), ~Announced(q), NEW i \in 1 .. Len(q)
      PROVE  ~AnnouncedBefore(q, i)
  <2>1. Len(q) \in Nat
    OBVIOUS
  <2>2. QED
    BY <1>1, <2>1 DEF Announced, InFlight, AnnouncedBefore
<1>2. QED
  BY <1>1, Zenon DEF AllFresh, CacheFresh, WorksFresh, SocketFresh

(* or by an app, and is not announced yet. *)
LEMMA FreshCopy ==
    ASSUME NEW w \in Seq(Messages), NEW x \in Seq(Messages), NEW o,
           NEW d \in Nat
    PROVE  AllFresh(w, x, Nat, o, d)
<1>1. ASSUME NEW q \in Seq(Messages), NEW i \in 1 .. Len(q)
      PROVE  Text(q[i]) \in Nat
  <2>1. q[i] \in Messages
    OBVIOUS
  <2>2. QED
    BY <2>1, Zenon DEF Messages, Text
<1>2. QED
  BY <1>1, Zenon DEF AllFresh, CacheFresh, WorksFresh, SocketFresh

-----------------------------------------------------------------------------
(* Messages, their types and texts. *)
LEMMA MessageFacts ==
    /\ NoText \in Nat
    /\ \A t \in {"enable", "announce", "request", "data"}, n \in Nat :
           /\ ClipMsg(t, n) \in Messages
           /\ Type(ClipMsg(t, n)) = t /\ Text(ClipMsg(t, n)) = n
    /\ \A m \in Messages : Text(m) \in Nat
BY Zenon DEF NoText, Messages, ClipMsg, Type, Text

(* Steps that change neither the queues nor who owns what. *)
Elsewhere ==
    \/ Later \/ SendTargets \/ SendText
    \/ \E c \in Requestors : ConvertSelection(c)
    \/ UNCHANGED clipVars

(* Their frame. *)
LEMMA ElsewhereFrame ==
    Elsewhere =>
        /\ UNCHANGED <<texts, clip, unannounced, connC, toX, works,
                       clipboardEnabled, cachedData, owner, xText, crossed>>
BY Zenon DEF Elsewhere, Later, SendTargets, SendText, ConvertSelection,
   clipVars, clipAndroid, clipServer

(* An announcement that is lost stays so. *)
LEMMA CrossedKept == [ClipNext]_clipVars => (crossed => crossed')
BY Zenon DEF ClipNext, ClipDelivers, ConnectC, Cut, AndroidCopy, Later,
   Announce, RequestClipboard, SetClipboardText, HandleEnable, QueueWork,
   HandleAnnounce, HandleData, ConvertSelection, SetSelectionOwner,
   SendTargets, SendText, clipVars

(* The invariant holds at the beginning. *)
LEMMA ClipInitInv == ClipInit => ClipInv
<1> SUFFICES ASSUME ClipInit PROVE ClipInv
  OBVIOUS
<1>1. ClipTypeOK
  BY DEF ClipInit, ClipTypeOK, NoText
<1>2. AllFresh(works, toX, Current, owner, cachedData)
  BY DEF ClipInit, AllFresh, CacheFresh, WorksFresh, SocketFresh
<1>3. QED
  BY Zenon, <1>1, <1>2 DEF ClipInv

(* Every step keeps the types. *)
LEMMA ClipTypesKept == ClipTypeOK /\ [ClipNext]_clipVars => ClipTypeOK'
<1> SUFFICES ASSUME ClipTypeOK, [ClipNext]_clipVars PROVE ClipTypeOK'
  OBVIOUS
<1>1. /\ texts + 1 \in Nat
      /\ \A m \in Messages : \A q \in Seq(Messages) :
             Append(q, m) \in Seq(Messages)
      /\ \A m \in Messages : <<m>> \in Seq(Messages)
      /\ <<>> \in Seq(Messages)
      /\ \A q \in Seq(Messages) : q # <<>> =>
             Tail(q) \in Seq(Messages) /\ Head(q) \in Messages
  BY DEF ClipTypeOK
<1> USE MessageFacts, <1>1 DEF ClipTypeOK
<1>2. CASE ConnectC
  BY Zenon, <1>2 DEF ConnectC, clipAndroid, clipServer
<1>3. CASE Cut
  BY Zenon, <1>3 DEF Cut, clipAndroid
<1>4. CASE AndroidCopy
  BY Zenon, <1>4 DEF AndroidCopy, clipServer
<1>5. CASE Announce
  BY Zenon, <1>5 DEF Announce, clipServer
<1>6. CASE RequestClipboard
  BY Zenon, <1>6 DEF RequestClipboard, clipAndroid, clipServer
<1>7. CASE SetClipboardText
  BY Zenon, <1>7 DEF SetClipboardText, clipServer
<1>8. CASE HandleEnable
  BY Zenon, <1>8 DEF HandleEnable, clipAndroid
<1>9. CASE QueueWork
  BY Zenon, <1>9 DEF QueueWork, clipAndroid
<1>10. CASE HandleAnnounce
  BY Zenon, <1>10 DEF HandleAnnounce, clipAndroid
<1>11. CASE HandleData
  BY Zenon, <1>11 DEF HandleData, clipAndroid
<1>12. ASSUME NEW c \in Requestors, ConvertSelection(c) PROVE ClipTypeOK'
  BY Zenon, <1>12 DEF ConvertSelection, clipAndroid
<1>13. CASE SetSelectionOwner
  BY Zenon, <1>13 DEF SetSelectionOwner, clipAndroid
<1>14. CASE SendText
  BY Zenon, <1>14 DEF SendText, clipAndroid
<1>15. CASE Later
  BY Zenon, <1>15 DEF Later, clipServer
<1>16. CASE SendTargets
  BY Zenon, <1>16 DEF SendTargets, clipAndroid
<1>17. CASE UNCHANGED clipVars
  BY Zenon, <1>17 DEF clipVars, clipAndroid, clipServer
<1>18. QED
  BY Zenon, <1>2, <1>3, <1>4, <1>5, <1>6, <1>7, <1>8, <1>9, <1>10, <1>11,
     <1>12, <1>13, <1>14, <1>15, <1>16, <1>17 DEF ClipNext, ClipDelivers

(* Every step keeps AllFresh, or crosses. *)
LEMMA FreshKept ==
    ASSUME ClipInv, [ClipNext]_clipVars, ~crossed'
    PROVE  AllFresh(works, toX, Current, owner, cachedData)'
<1> DEFINE Goal == AllFresh(works', toX', Current', owner', cachedData')
<1> SUFFICES Goal
  BY Zenon
<1>1. AllFresh(works, toX, Current, owner, cachedData)
  BY Zenon, CrossedKept DEF ClipInv
<1>2. /\ works \in Seq(Messages) /\ toX \in Seq(Messages)
      /\ clip \in Nat /\ cachedData \in Nat
      /\ toX # <<>> => connC
  BY Zenon DEF ClipInv, ClipTypeOK
<1>3. clip' = clip /\ unannounced' = unannounced => Current' = Current
  BY DEF Current
<1>4. clip \in Current
  BY Zenon, <1>2 DEF Current
<1> HIDE DEF Goal
<1>5. CASE ConnectC
  <2>1. /\ toX = <<>>
        /\ UNCHANGED <<works, clip, unannounced, owner, cachedData>>
    BY Zenon, <1>2, <1>5 DEF ConnectC, clipAndroid, clipServer
  <2>2. toX' = Append(toX, ClipMsg("enable", NoText))
    <3>1. toX' = <<ClipMsg("enable", NoText)>>
      BY Zenon, <1>5 DEF ConnectC
    <3>2. QED
      BY <2>1, <3>1
  <2>3. /\ ClipMsg("enable", NoText) \in Messages
        /\ Type(ClipMsg("enable", NoText)) = "enable"
    BY Zenon, MessageFacts
  <2>4. AllFresh(works, Append(toX, ClipMsg("enable", NoText)), Current,
                 owner, cachedData)
    BY <1>1, <1>2, <2>3, FreshSend, Zenon
  <2>5. QED
    BY Zenon, <1>3, <2>1, <2>2, <2>4 DEF Goal
<1>6. CASE Cut
  BY Zenon, <1>1, <1>2, <1>3, <1>6, FreshCut
     DEF Goal, Cut, Announced, clipAndroid
<1>7. CASE AndroidCopy
  <2>1. Current' = Nat
    BY Zenon, <1>7 DEF AndroidCopy, Current
  <2>2. QED
    BY Zenon, <1>2, <1>7, <2>1, FreshCopy DEF Goal, AndroidCopy, clipServer
<1>8. CASE Announce
  <2>1. /\ toX' = Append(toX, ClipMsg("announce", NoText))
        /\ UNCHANGED <<works, owner, cachedData>>
    BY Zenon, <1>8 DEF Announce, clipServer
  <2>2. /\ ClipMsg("announce", NoText) \in Messages
        /\ Type(ClipMsg("announce", NoText)) = "announce"
    BY Zenon, MessageFacts
  <2>3. QED
    BY Zenon, <1>1, <1>2, <2>1, <2>2, FreshAnnounce DEF Goal
<1>9. CASE RequestClipboard
  <2>1. /\ toX' = Append(toX, ClipMsg("data", clip))
        /\ UNCHANGED <<works, clip, unannounced, owner, cachedData>>
    BY Zenon, <1>9 DEF RequestClipboard, clipAndroid, clipServer
  <2>2. /\ ClipMsg("data", clip) \in Messages
        /\ Type(ClipMsg("data", clip)) = "data"
        /\ Text(ClipMsg("data", clip)) = clip
    BY Zenon, <1>2, MessageFacts
  <2>3. AllFresh(works, Append(toX, ClipMsg("data", clip)), Current,
                 owner, cachedData)
    BY <1>1, <1>2, <1>4, <2>2, FreshSend, Zenon
  <2>4. QED
    BY Zenon, <1>3, <2>1, <2>3 DEF Goal
<1>10. CASE SetClipboardText
  BY Zenon, <1>2, <1>10, FreshSet
     DEF Goal, SetClipboardText, Announced, clipServer
<1>11. CASE HandleEnable
  BY Zenon, <1>1, <1>2, <1>3, <1>11, FreshEnable
     DEF Goal, HandleEnable, clipAndroid
<1>12. CASE QueueWork
  BY Zenon, <1>1, <1>2, <1>3, <1>12, FreshQueue
     DEF Goal, QueueWork, clipAndroid
<1>13. CASE HandleAnnounce
  BY Zenon, <1>1, <1>2, <1>3, <1>13, FreshOwn
     DEF Goal, HandleAnnounce, clipAndroid
<1>14. CASE HandleData
  BY Zenon, <1>1, <1>2, <1>3, <1>14, FreshCache
     DEF Goal, HandleData, clipAndroid
<1>15. CASE SetSelectionOwner
  <2>1. "client" # "server"
    OBVIOUS
  <2>2. QED
    BY Zenon, <1>1, <1>2, <1>3, <1>15, <2>1, FreshLose
       DEF Goal, SetSelectionOwner, clipAndroid
<1>16. CASE Elsewhere
  BY Zenon, <1>1, <1>3, <1>16, ElsewhereFrame DEF Goal
<1>17. QED
  BY Zenon, <1>5, <1>6, <1>7, <1>8, <1>9, <1>10, <1>11, <1>12, <1>13, <1>14,
     <1>15, <1>16 DEF ClipNext, ClipDelivers, Elsewhere

(* The invariant of the clipboard. *)
THEOREM ClipInvCorrect == ClipSpec => []ClipInv
<1>1. ClipInv /\ [ClipNext]_clipVars => ClipInv'
  BY Zenon, ClipTypesKept, FreshKept DEF ClipInv
<1>2. QED
  BY <1>1, ClipInitInv, PTL DEF ClipSpec

(* A paste in X gives what Android's clipboard has, once all messages and  *)
(* work procedures are handled, whatever their order, unless an            *)
(* announcement was lost or the two sides have copied at the same time.    *)
THEOREM SameTextCorrect == ClipSpec => []SameText
<1>1. ClipInv => SameText
  BY Zenon DEF ClipInv, AllFresh, CacheFresh, Current, SameText, Settled,
     Announced
<1>2. QED
  BY <1>1, ClipInvCorrect, PTL
=============================================================================
