------------------------------- MODULE Lorie -------------------------------
(***************************************************************************)
(* The X server's shared memory, lock, copies, renderer and clipboard,     *)
(* side by side.  Their models share no variable, so a behaviour that      *)
(* interleaves them shows nothing that those of one part do not: the part  *)
(* is chosen at the beginning, and only it takes steps.                    *)
(***************************************************************************)
EXTENDS LorieShm, LorieLock, LorieGpuCopy, LorieRenderer, LorieClipboard

VARIABLE part

Parts == {"shm", "lock", "gpu", "rend", "clip"}

lorieVars == <<part, shmVars, lockVars, gpuVars, rendVars, clipVars>>

OnlyShm ==
    part = "shm" /\ UNCHANGED <<part, lockVars, gpuVars, rendVars, clipVars>>
OnlyLock ==
    part = "lock" /\ UNCHANGED <<part, shmVars, gpuVars, rendVars, clipVars>>
OnlyGpu ==
    part = "gpu" /\ UNCHANGED <<part, shmVars, lockVars, rendVars, clipVars>>
OnlyRend ==
    part = "rend" /\ UNCHANGED <<part, shmVars, lockVars, gpuVars, clipVars>>
OnlyClip ==
    part = "clip" /\ UNCHANGED <<part, shmVars, lockVars, gpuVars, rendVars>>

LorieInit ==
    /\ part \in Parts
    /\ ShmInit /\ LockInit /\ GpuInit /\ RendInit /\ ClipInit

LorieNext ==
    \/ OnlyShm /\ ShmNext
    \/ OnlyLock /\ LockNext
    \/ OnlyGpu /\ GpuNext
    \/ OnlyRend /\ RendNext
    \/ OnlyClip /\ ClipNext

-----------------------------------------------------------------------------
(* Fairness.  Threads that can go on do so: calls of the shared memory     *)
(* that have begun; the two users of the lock, also when the 33 msec of a  *)
(* wait are over; the X server, whose vblanks, frames and work procedures  *)
(* come again and again; the renderer; both ends of the clipboard's        *)
(* socket.                                                                 *)
LorieFairness ==
    /\ \A p \in ShmProcs : WF_shmVars(part = "shm" /\ ShmWorks(p))
    /\ WF_lockVars(part = "lock" /\ XWorks)
    /\ WF_lockVars(part = "lock" /\ RWorks)
    /\ WF_gpuVars(part = "gpu" /\ GpuX)
    /\ WF_gpuVars(part = "gpu" /\ GpuR)
    /\ WF_rendVars(part = "rend" /\ RendererSteps)
    /\ WF_rendVars(part = "rend" /\ Redraw)
    /\ WF_rendVars(part = "rend" /\ SetWakeupCond)
    /\ WF_clipVars(part = "clip" /\ ClipDelivers)

LorieSpec == LorieInit /\ [][LorieNext]_lorieVars /\ LorieFairness

(* A thread that asks for a mutex that is given back again and again gets  *)
(* it in the end: the listening thread of LorieShm, the two users of the   *)
(* lock, and the GUI thread, which competes with the renderer.             *)
TableMutex ==
    \A p \in ShmProcs : SF_shmVars(part = "shm" /\ ShmServed(p))
XGetsMutex == SF_lockVars(part = "lock" /\ XAcquire)
RGetsMutex == SF_lockVars(part = "lock" /\ RAcquire)
StateLock == SF_rendVars(part = "rend" /\ GuiSteps)

-----------------------------------------------------------------------------
(* shmget() and shmat() return, unless processes wait for each other.      *)
CallsReturn == TableMutex => ShmCallsReturn

(* Those who ask for the lock get it: a drawing operation of the X server  *)
(* also after the renderer's death, unless the X server is misled about    *)
(* the holder, and the renderer whatever the X server has left locked.     *)
LockGranted == (XGetsMutex => XProceeds) /\ (RGetsMutex => RProceeds)

(* What the X server draws and the cursor are shown, though its signals to *)
(* the renderer may be lost.                                               *)
FramesShown == StateLock => FrameShown /\ CursorShown

(* The GUI thread's calls that wait for the renderer return. *)
HandshakesReturn == StateLock => HandshakeReturns
=============================================================================
