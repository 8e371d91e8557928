--------------------------- MODULE LorieRenderer ---------------------------
(***************************************************************************)
(* The renderer thread of the activity (renderer.cpp, threadLoop), the     *)
(* GUI thread that hands it the shared state, windows and buffers          *)
(* (renderer.cpp and activity.cpp), and the X server that asks it for      *)
(* frames (InitOutput.c, cmdentrypoint.cpp).                               *)
(*                                                                         *)
(* The renderer waits on stateCond with stateLock.  The GUI thread signals *)
(* with the lock, except in addBuffer(); the X server, another process,    *)
(* signals without it, so that a signal of its own can fall between the    *)
(* renderer's last look and its sleep.                                     *)
(*                                                                         *)
(* The k-th root pixmap has buffer k; the size of the root pixmap changes  *)
(* with its buffer.  The ring of GPU copies is the subject of LorieGpuCopy,*)
(* the lock on the root window that of LorieLock.                          *)
(***************************************************************************)
EXTENDS Naturals, Sequences

CONSTANTS
    MaxRoots,                 \* bound: root pixmaps, one after the other
    MaxChanges                \* bound: resizes, windows and reconnections

ASSUME RootsAssumption == MaxRoots \in Nat \ {0}

VARIABLES
    (* the X server *)
    root, damage, connR, sent, condKnown,
    (* the shared state *)
    drawRequested, cursorMoved, surfaceUp, waitForNextFrame, rootTexture,
    (* the socket to the activity and the GUI thread *)
    channel, guiOpen, pcU,
    (* the renderer's monitor *)
    stateChanged, pendingState, windowChanged, pendingWin, expected,
    viewportChanged, stopping,
    (* the renderer thread *)
    pcV, stateV, win, waitingForBuffers, lastRequested, drawn,
    addedBuffers, buffers, removedBuffers,   \* its lists of buffers
    (* what is on the screen *)
    dirty,                    \* not what the root pixmap has
    cursorDirty, cursorSeen,  \* nor the cursor where it is; seen by the frame
    changes

rendX == <<root, damage, connR, sent, condKnown>>
rendShared == <<drawRequested, cursorMoved, surfaceUp, waitForNextFrame,
                rootTexture>>
rendGui == <<channel, guiOpen, pcU>>
rendMonitor == <<stateChanged, pendingState, windowChanged, pendingWin,
                 expected, viewportChanged, stopping>>
rendThread == <<pcV, stateV, win, waitingForBuffers, lastRequested, drawn>>
rendLists == <<addedBuffers, buffers, removedBuffers>>
rendScreen == <<dirty, cursorDirty, cursorSeen>>
rendVars == <<rendX, rendShared, rendGui, rendMonitor, rendThread, rendLists,
              rendScreen, changes>>

Roots == 1 .. MaxRoots
NoBuffer == 0
StateMsg == [type |-> "state", buffer |-> NoBuffer]
AddMsg(b) == [type |-> "add", buffer |-> b]
RemoveMsg(b) == [type |-> "remove", buffer |-> b]

RendInit ==
    /\ root = 1 /\ damage = TRUE /\ connR = FALSE /\ sent = {}
    /\ condKnown = FALSE
    /\ drawRequested = FALSE /\ cursorMoved = FALSE /\ surfaceUp = FALSE
    /\ waitForNextFrame = FALSE /\ rootTexture = NoBuffer
    /\ channel = <<>> /\ guiOpen = FALSE /\ pcU = "idle"
    /\ stateChanged = FALSE /\ pendingState = FALSE
    /\ windowChanged = FALSE /\ pendingWin = FALSE
    /\ expected = NoBuffer /\ viewportChanged = FALSE /\ stopping = FALSE
    /\ pcV = "check" /\ stateV = FALSE /\ win = FALSE
    /\ waitingForBuffers = FALSE /\ lastRequested = NoBuffer
    /\ drawn = NoBuffer
    /\ addedBuffers = {} /\ buffers = {} /\ removedBuffers = {}
    /\ dirty = TRUE /\ cursorDirty = TRUE /\ cursorSeen = FALSE
    /\ changes = 0

(* pthread_cond_signal(stateCond) *)
Signal == pcV' = IF pcV = "asleep" THEN "check" ELSE pcV

(* The X server signals the condition variable it was given. *)
SignalFromX == pcV' = IF pcV = "asleep" /\ condKnown THEN "check" ELSE pcV

(* The X server reported drawing or cursor changes. *)
DrawWanted == drawRequested \/ cursorMoved

(* The renderer holds stateLock. *)
Locked == pcV \in {"check", "doze", "apply"}

-----------------------------------------------------------------------------
(* The X server. *)

Paint ==
    /\ damage' = TRUE /\ dirty' = TRUE
    /\ UNCHANGED <<root, connR, sent, condKnown, rendShared, rendGui,
                   rendMonitor, rendThread, rendLists, cursorDirty,
                   cursorSeen, changes>>

(* lorieMoveCursor() *)
MoveCursor ==
    /\ cursorMoved' = TRUE
    /\ cursorDirty' = TRUE /\ cursorSeen' = FALSE
    /\ SignalFromX
    /\ UNCHANGED <<rendX, drawRequested, surfaceUp, waitForNextFrame,
                   rootTexture, rendGui, rendMonitor, stateV, win,
                   waitingForBuffers, lastRequested, drawn, rendLists, dirty,
                   changes>>

(* Mutant of Redraw: it signals damage only. *)
RedrawDamage ==
    LET alive == connR /\ surfaceUp
    IN  /\ waitForNextFrame' = FALSE
        /\ IF alive
           THEN /\ damage' = FALSE
                /\ drawRequested' = (drawRequested \/ damage)
                /\ rootTexture' = root
           ELSE UNCHANGED <<damage, drawRequested, rootTexture>>
        /\ IF alive /\ damage THEN SignalFromX ELSE UNCHANGED pcV
        /\ UNCHANGED <<root, connR, sent, condKnown, cursorMoved, surfaceUp,
                       rendGui, rendMonitor, stateV, win, waitingForBuffers,
                       lastRequested, drawn, rendLists, rendScreen, changes>>

(* lorieRedraw(), once a frame *)
Redraw ==
    LET alive == connR /\ surfaceUp
        ask == drawRequested \/ damage \/ cursorMoved
    IN  /\ waitForNextFrame' = FALSE
        /\ IF alive
           THEN /\ damage' = FALSE
                /\ drawRequested' = (drawRequested \/ damage)
           ELSE UNCHANGED <<damage, drawRequested>>
        /\ IF alive /\ ask
           THEN rootTexture' = root /\ SignalFromX
           ELSE UNCHANGED <<rootTexture, pcV>>
        /\ UNCHANGED <<root, connR, sent, condKnown, cursorMoved, surfaceUp,
                       rendGui, rendMonitor, stateV, win, waitingForBuffers,
                       lastRequested, drawn, rendLists, rendScreen, changes>>

(* lorieRRScreenSetSize(): the old root pixmap is unregistered, the new    *)
(* one is registered and damaged by the copy of the old one's content.     *)
SetSize ==
    /\ root < MaxRoots /\ changes < MaxChanges
    /\ root' = root + 1 /\ changes' = changes + 1
    /\ channel' = channel
           \o (IF connR /\ root \in sent THEN <<RemoveMsg(root)>> ELSE <<>>)
           \o (IF connR THEN <<AddMsg(root + 1)>> ELSE <<>>)
    /\ sent' = IF connR THEN {root + 1} ELSE sent
    /\ damage' = TRUE /\ dirty' = TRUE
    /\ cursorMoved' = TRUE
    /\ UNCHANGED <<connR, condKnown, drawRequested, surfaceUp,
                   waitForNextFrame, rootTexture, guiOpen, pcU, rendMonitor,
                   rendThread, rendLists, cursorDirty, cursorSeen>>

(* getXConnection()'s work procedure, and the activity's connect(fd) *)
ConnectR ==
    /\ ~connR /\ ~guiOpen /\ pcU = "idle"
    /\ connR' = TRUE /\ guiOpen' = TRUE
    /\ drawRequested' = TRUE /\ cursorMoved' = TRUE
    /\ channel' = <<StateMsg, AddMsg(root)>>
    /\ sent' = {root}
    /\ UNCHANGED <<root, damage, condKnown, surfaceUp, waitForNextFrame,
                   rootTexture, pcU, rendMonitor, rendThread, rendLists,
                   rendScreen, changes>>

(* lorieSetRendererWakeupCondWorkProc() *)
SetWakeupCond ==
    /\ connR /\ ~condKnown
    /\ condKnown' = TRUE
    /\ Signal
    /\ UNCHANGED <<root, damage, connR, sent, rendShared, rendGui,
                   rendMonitor, stateV, win, waitingForBuffers, lastRequested,
                   drawn, rendLists, rendScreen, changes>>

(* handleLorieEvents(): the activity has closed the connection. *)
XHangup ==
    /\ connR /\ ~guiOpen
    /\ connR' = FALSE /\ sent' = {}
    /\ UNCHANGED <<root, damage, condKnown, rendShared, rendGui, rendMonitor,
                   rendThread, rendLists, rendScreen, changes>>

-----------------------------------------------------------------------------
(* The GUI thread. *)

(* Mutant of SetSharedState: no signal. *)
SetSharedStateSilent(s) ==
    /\ ~Locked
    /\ pendingState' = s /\ stateChanged' = TRUE
    /\ UNCHANGED <<windowChanged, pendingWin, expected, viewportChanged,
                   stopping, rendThread>>

(* setSharedState(s), up to its wait *)
SetSharedState(s) ==
    /\ ~Locked
    /\ pendingState' = s /\ stateChanged' = TRUE
    /\ Signal
    /\ UNCHANGED <<windowChanged, pendingWin, expected, viewportChanged,
                   stopping, stateV, win, waitingForBuffers, lastRequested,
                   drawn>>

(* xcallback(): the next event *)
ReceiveState ==
    /\ pcU = "idle" /\ guiOpen /\ channel # <<>> /\ Head(channel) = StateMsg
    /\ channel' = Tail(channel)
    /\ pcU' = "state"
    /\ SetSharedState(TRUE)
    /\ UNCHANGED <<rendX, rendShared, guiOpen, rendLists, rendScreen,
                   changes>>

(* addBuffer() *)
ReceiveAdd(b) ==
    /\ pcU = "idle" /\ guiOpen /\ channel # <<>> /\ Head(channel) = AddMsg(b)
    /\ channel' = Tail(channel)
    /\ addedBuffers' = addedBuffers \union {b}
    /\ Signal
    /\ UNCHANGED <<rendX, rendShared, guiOpen, pcU, rendMonitor, stateV, win,
                   waitingForBuffers, lastRequested, drawn, buffers,
                   removedBuffers, rendScreen, changes>>

(* Mutant of RemoveBuffer: released here, whoever draws it. *)
RemoveBufferNow(b) ==
    /\ addedBuffers' = addedBuffers \ {b} /\ buffers' = buffers \ {b}
    /\ UNCHANGED removedBuffers

(* removeBuffer() *)
RemoveBuffer(b) ==
    IF b \in addedBuffers
    THEN /\ addedBuffers' = addedBuffers \ {b}
         /\ UNCHANGED <<buffers, removedBuffers>>
    ELSE /\ buffers' = buffers \ {b}
         /\ removedBuffers' = removedBuffers \union (buffers \intersect {b})
         /\ UNCHANGED addedBuffers

ReceiveRemove(b) ==
    /\ pcU = "idle" /\ guiOpen
    /\ channel # <<>> /\ Head(channel) = RemoveMsg(b)
    /\ channel' = Tail(channel)
    /\ RemoveBuffer(b)
    /\ UNCHANGED <<rendX, rendShared, guiOpen, pcU, rendMonitor, rendThread,
                   rendScreen, changes>>

(* removeAllBuffers() *)
RemoveAllBuffers ==
    /\ addedBuffers' = {} /\ buffers' = {}
    /\ removedBuffers' = removedBuffers \union buffers

(* connect(): the old connection is closed, the renderer told to forget. *)
CloseConnection ==
    /\ pcU = "idle" /\ guiOpen /\ changes < MaxChanges
    /\ changes' = changes + 1
    /\ guiOpen' = FALSE /\ channel' = <<>>
    /\ pcU' = "hangup"
    /\ SetSharedState(FALSE)
    /\ UNCHANGED <<rendX, rendShared, rendLists, rendScreen>>

(* setWindow(w), up to its wait *)
SetSurface(w) ==
    /\ pcU = "idle" /\ ~Locked /\ changes < MaxChanges
    /\ changes' = changes + 1
    /\ pendingWin' = w /\ windowChanged' = TRUE
    /\ expected' = NoBuffer
    /\ Signal
    /\ pcU' = "window"
    /\ UNCHANGED <<rendX, rendShared, channel, guiOpen, stateChanged,
                   pendingState, viewportChanged, stopping, stateV, win,
                   waitingForBuffers, lastRequested, drawn, rendLists,
                   rendScreen>>

(* setViewport(), for the size of the b-th root pixmap *)
SetViewport(b) ==
    /\ pcU = "idle" /\ ~Locked
    /\ expected' = b /\ viewportChanged' = TRUE
    /\ drawRequested' = (drawRequested \/ stateV)
    /\ Signal
    /\ UNCHANGED <<rendX, cursorMoved, surfaceUp, waitForNextFrame,
                   rootTexture, rendGui, stateChanged, pendingState,
                   windowChanged, pendingWin, stopping, stateV, win,
                   waitingForBuffers, lastRequested, drawn, rendLists,
                   rendScreen, changes>>

(* The waits of setSharedState() and setWindow() end. *)
HandshakeEnds ==
    /\ \/ pcU \in {"state", "hangup"} /\ ~stateChanged
       \/ pcU = "window" /\ ~windowChanged
    /\ ~Locked
    /\ pcU' = "idle"
    /\ IF pcU = "hangup" THEN RemoveAllBuffers ELSE UNCHANGED rendLists
    /\ UNCHANGED <<rendX, rendShared, channel, guiOpen, rendMonitor,
                   rendThread, rendScreen, changes>>

(* destroy(): the thread is told to stop, and joined. *)
Destroy ==
    /\ pcU = "idle" /\ ~guiOpen /\ ~Locked /\ ~stopping
    /\ stopping' = TRUE
    /\ Signal
    /\ pcU' = "join"
    /\ UNCHANGED <<rendX, rendShared, channel, guiOpen, stateChanged,
                   pendingState, windowChanged, pendingWin, expected,
                   viewportChanged, stateV, win, waitingForBuffers,
                   lastRequested, drawn, rendLists, rendScreen, changes>>

Joined ==
    /\ pcU = "join" /\ pcV = "gone"
    /\ pcU' = "destroyed"
    /\ UNCHANGED <<rendX, rendShared, channel, guiOpen, rendMonitor,
                   rendThread, rendLists, rendScreen, changes>>

-----------------------------------------------------------------------------
(* The renderer thread. *)

(* shouldWait() and the test of stopping *)
Check ==
    LET buffersChanged == addedBuffers \union removedBuffers # {}
        work == stateChanged \/ windowChanged \/ buffersChanged
        waits1 == waitingForBuffers /\ ~viewportChanged
        waits2 == waits1 /\ ~(stateV /\ lastRequested # rootTexture)
        draw == /\ stateV /\ surfaceUp /\ ~waitForNextFrame /\ ~waits2
                /\ DrawWanted
    IN  /\ pcV = "check" /\ ~stopping
        /\ viewportChanged' = FALSE
        /\ waitingForBuffers' = IF work THEN waits1 ELSE waits2
        /\ lastRequested' = IF stateV /\ ~work THEN rootTexture
                            ELSE lastRequested
        /\ pcV' = IF work \/ draw THEN "apply" ELSE "doze"
        /\ UNCHANGED <<rendX, rendShared, rendGui, stateChanged, pendingState,
                       windowChanged, pendingWin, expected, stopping, stateV,
                       win, drawn, rendLists, rendScreen, changes>>

(* pthread_cond_wait(): asleep, and the lock released, at once *)
Sleep ==
    /\ pcV = "doze"
    /\ pcV' = "asleep"
    /\ UNCHANGED <<rendX, rendShared, rendGui, rendMonitor, stateV, win,
                   waitingForBuffers, lastRequested, drawn, rendLists,
                   rendScreen, changes>>

(* A new state, a new window (refreshContext()) and new buffers, with the  *)
(* lock.                                                                   *)
Apply ==
    LET s == IF stateChanged THEN pendingState ELSE stateV
        w == IF windowChanged THEN pendingWin ELSE win
    IN  /\ pcV = "apply"
        /\ stateV' = s /\ win' = w
        /\ stateChanged' = FALSE /\ pendingState' = FALSE
        /\ windowChanged' = FALSE /\ pendingWin' = FALSE
        /\ surfaceUp' = IF s /\ (stateChanged \/ windowChanged) THEN w
                        ELSE surfaceUp
        /\ IF s /\ windowChanged /\ w
           THEN drawRequested' = TRUE /\ cursorMoved' = TRUE
           ELSE UNCHANGED <<drawRequested, cursorMoved>>
        /\ addedBuffers' = {} /\ buffers' = buffers \union addedBuffers
        /\ waitingForBuffers' = (/\ waitingForBuffers /\ ~stateChanged
                                 /\ addedBuffers = {})
        /\ pcV' = "work"
        /\ UNCHANGED <<rendX, waitForNextFrame, rootTexture, rendGui,
                       expected, viewportChanged, stopping, lastRequested,
                       drawn, removedBuffers, rendScreen, changes>>

(* Whether to redraw; redrawLocked() up to the lock on the root window *)
Work ==
    LET b == rootTexture
        draw == /\ stateV /\ surfaceUp /\ ~waitForNextFrame
                /\ DrawWanted
        found == b \in buffers \union removedBuffers
        misfit == draw /\ found /\ expected # b
    IN  /\ pcV = "work"
        /\ drawRequested' = (drawRequested /\ ~misfit)
        /\ waitingForBuffers' = (waitingForBuffers \/ misfit
                                                   \/ (draw /\ ~found))
        /\ IF draw /\ found /\ ~misfit
           THEN pcV' = "draw" /\ drawn' = b /\ cursorSeen' = TRUE
           ELSE pcV' = "release" /\ UNCHANGED <<drawn, cursorSeen>>
        /\ UNCHANGED <<rendX, cursorMoved, surfaceUp, waitForNextFrame,
                       rootTexture, rendGui, rendMonitor, stateV, win,
                       lastRequested, rendLists, dirty, cursorDirty, changes>>

(* The root window, with the lock on it *)
DrawRoot ==
    /\ pcV = "draw"
    /\ drawRequested' = FALSE
    /\ dirty' = (dirty /\ drawn # root)
    /\ pcV' = "cursor"
    /\ UNCHANGED <<rendX, cursorMoved, surfaceUp, waitForNextFrame,
                   rootTexture, rendGui, rendMonitor, stateV, win,
                   waitingForBuffers, lastRequested, drawn, rendLists,
                   cursorDirty, cursorSeen, changes>>

(* Mutant of DrawCursor: the request is cleared after the drawing. *)
DrawCursorLate ==
    /\ pcV = "cursor"
    /\ drawRequested' = FALSE /\ cursorMoved' = FALSE
    /\ cursorDirty' = (cursorDirty /\ ~cursorSeen)
    /\ waitForNextFrame' = TRUE
    /\ drawn' = NoBuffer
    /\ cursorSeen' = FALSE
    /\ pcV' = "release"
    /\ UNCHANGED <<rendX, surfaceUp, rootTexture, rendGui, rendMonitor,
                   stateV, win, waitingForBuffers, lastRequested, rendLists,
                   dirty, changes>>

(* The cursor, where it was before the root window was drawn *)
DrawCursor ==
    /\ pcV = "cursor"
    /\ cursorMoved' = FALSE
    /\ cursorDirty' = (cursorDirty /\ ~cursorSeen)
    /\ waitForNextFrame' = TRUE
    /\ drawn' = NoBuffer
    /\ cursorSeen' = FALSE
    /\ pcV' = "release"
    /\ UNCHANGED <<rendX, drawRequested, surfaceUp, rootTexture, rendGui,
                   rendMonitor, stateV, win, waitingForBuffers, lastRequested,
                   rendLists, dirty, changes>>

(* Buffers that were removed are released, and the lock taken. *)
Release ==
    /\ pcV = "release"
    /\ removedBuffers' = {}
    /\ pcV' = "check"
    /\ UNCHANGED <<rendX, rendShared, rendGui, rendMonitor, stateV, win,
                   waitingForBuffers, lastRequested, drawn, addedBuffers,
                   buffers, rendScreen, changes>>

(* The loop ends: every buffer is released. *)
Exit ==
    /\ pcV = "check" /\ stopping
    /\ addedBuffers' = {} /\ buffers' = {} /\ removedBuffers' = {}
    /\ stateV' = FALSE
    /\ pcV' = "gone"
    /\ UNCHANGED <<rendX, rendShared, rendGui, rendMonitor, win,
                   waitingForBuffers, lastRequested, drawn, rendScreen,
                   changes>>

-----------------------------------------------------------------------------
RendererSteps ==
    \/ Check \/ Sleep \/ Apply \/ Work \/ DrawRoot \/ DrawCursor \/ Release
    \/ Exit

(* The GUI thread reads its socket and returns from its calls. *)
GuiSteps ==
    \/ ReceiveState \/ HandshakeEnds \/ Joined
    \/ \E b \in Roots : ReceiveAdd(b) \/ ReceiveRemove(b)

RendNext ==
    \/ Paint \/ MoveCursor \/ Redraw \/ SetSize
    \/ ConnectR \/ SetWakeupCond \/ XHangup
    \/ CloseConnection \/ Destroy
    \/ \E w \in BOOLEAN : SetSurface(w)
    \/ \E b \in Roots : SetViewport(b)
    \/ GuiSteps \/ RendererSteps

RendSpec == RendInit /\ [][RendNext]_rendVars

-----------------------------------------------------------------------------
(* Properties. *)

(* Every variable has the values its declaration says. *)
RendTypeOK ==
    /\ root \in Roots /\ rootTexture \in 0 .. root /\ drawn \in 0 .. root
    /\ addedBuffers \union buffers \union removedBuffers \subseteq Roots

(* The buffer the renderer draws is not released, though the GUI thread    *)
(* can remove it at any time.                                              *)
BufferHeld == drawn # NoBuffer => drawn \in buffers \union removedBuffers

(* The root window can be shown: there is a connection, a window, and the  *)
(* size that is expected.                                                  *)
Showable == connR /\ guiOpen /\ pcU = "idle" /\ win /\ expected = root

(* The screen is out of date, and no one knows. *)
RequestLost == dirty /\ ~damage /\ ~drawRequested

(* A request to draw is cleared only by drawing what was requested, unless *)
(* the root pixmap was replaced: redrawLocked() looks the buffer up first  *)
(* and clears drawRequested later, and the request for the new pixmap may  *)
(* fall between the two.                                                   *)
RequestKept == Showable /\ RequestLost => root > 1

(* What the X server draws is shown, in spite of its signals that fall     *)
(* between the renderer's last look and its sleep.                         *)
FrameShown == []<>(~dirty \/ ~Showable \/ RequestLost)

(* The cursor moved between the moment its place was noted and the moment  *)
(* cursor.moved was cleared, in the same frame.                            *)
CursorMissed == cursorDirty /\ ~cursorMoved

(* The cursor is shown where it is, unless it was missed. *)
CursorShown == []<>(~cursorDirty \/ ~Showable \/ CursorMissed)

(* setSharedState(), setWindow() and destroy() return. *)
HandshakeReturns == []<>(pcU \in {"idle", "destroyed"})
=============================================================================
