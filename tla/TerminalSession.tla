-------------------------- MODULE TerminalSession --------------------------
(***************************************************************************)
(* com.termux.terminal.TerminalSession and jni/termux.c: one session, that *)
(* is a shell behind a pseudo-terminal, the threads that read, write and   *)
(* wait for it, and Android's main thread, which owns everything else.     *)
(*                                                                         *)
(* The two ByteQueues appear as the channels they implement (ByteChannel). *)
(* Bytes are counted: the kernel's buffers and the threads' arrays hold a  *)
(* number of bytes of a stream whose order the channels keep.  The kernel, *)
(* the shell and the other processes on its terminal are the environment.  *)
(***************************************************************************)
EXTENDS Integers, Sequences

CONSTANTS
    P2TSize, T2PSize,         \* capacities of the two queues
    ReadSize,                 \* length of the reader's array
    PtySize,                  \* what the kernel buffers in each direction
    MaxOutput, MaxInput       \* bounds: bytes written by the shell, by main

(* The reader tells the main thread after it has put all it has read into  *)
(* the queue, which therefore must not be shorter than its array.          *)
ASSUME SizesAssumption ==
    /\ {P2TSize, T2PSize, ReadSize, PtySize} \subseteq Nat \ {0}
    /\ ReadSize <= P2TSize
ASSUME BoundsAssumption == {MaxOutput, MaxInput} \subseteq Nat

Pid == 1                      \* the shell's process id
Statuses == {<<"code", 1>>, <<"signal", 9>>}

VARIABLES
    mShellPid, mShellExitStatus,
    fd,                       \* what the number mTerminalFileDescriptor names
    p2tQueue, p2tSent, screen, p2tOpen,         \* mProcessToTerminalIOQueue
    t2pQueue, t2pSent, forwarded, t2pOpen,      \* mTerminalToProcessIOQueue
    pcR, readerHas,           \* TermSessionInputReader
    pcW, writerHas,           \* TermSessionOutputWriter
    pcM, msg, rest,           \* main: where, its message, bytes to write
    mq,                       \* messages of mMainThreadHandler
    completed,                \* onSessionFinished has been called
    shell, status,            \* the process; how it ended
    exitCode,                 \* the waiter's processExitCode, sent to main
    slaveOpen,                \* does some process have the terminal open?
    ptyOut, ptyIn,            \* the kernel's buffers
    produced, consumed,       \* bytes written and read behind the terminal
    stray                     \* what a call got at by mistake

P2T == INSTANCE ByteChannel WITH Size <- P2TSize, queue <- p2tQueue,
            sent <- p2tSent, received <- screen, open <- p2tOpen
T2P == INSTANCE ByteChannel WITH Size <- T2PSize, queue <- t2pQueue,
            sent <- t2pSent, received <- forwarded, open <- t2pOpen

p2t == <<p2tQueue, p2tSent, screen, p2tOpen>>
t2p == <<t2pQueue, t2pSent, forwarded, t2pOpen>>
reader == <<pcR, readerHas>>
writer == <<pcW, writerHas>>
main == <<pcM, msg, rest, completed>>
record == <<mShellPid, mShellExitStatus>>
pty == <<slaveOpen, ptyOut, ptyIn, produced, consumed>>
process == <<shell, status, exitCode>>
vars == <<record, fd, p2t, t2p, reader, writer, main, mq, process,
          pty, stray>>

MinOf(a, b) == IF a <= b THEN a ELSE b

Init ==
    /\ mShellPid = 0 /\ mShellExitStatus = 0
    /\ fd = "none"
    /\ P2T!Init /\ T2P!Init
    /\ pcR = "none" /\ readerHas = 0
    /\ pcW = "none" /\ writerHas = 0
    /\ pcM = "idle" /\ msg = "none" /\ rest = 0
    /\ completed = FALSE
    /\ mq = <<>>
    /\ shell = "none" /\ status = <<"code", 0>> /\ exitCode = 0
    /\ slaveOpen = FALSE /\ ptyOut = 0 /\ ptyIn = 0
    /\ produced = 0 /\ consumed = 0
    /\ stray = "nothing"

-----------------------------------------------------------------------------
(* The processes behind the terminal, and the rest of the application.     *)

Output(n) ==
    /\ slaveOpen
    /\ ptyOut + n <= PtySize /\ produced + n <= MaxOutput
    /\ ptyOut' = ptyOut + n
    /\ produced' = produced + n
    /\ UNCHANGED <<record, fd, p2t, t2p, reader, writer, main, mq,
                   process, slaveOpen, ptyIn, consumed, stray>>

Input ==
    /\ slaveOpen /\ ptyIn > 0
    /\ ptyIn' = 0
    /\ consumed' = consumed + ptyIn
    /\ UNCHANGED <<record, fd, p2t, t2p, reader, writer, main, mq,
                   process, slaveOpen, ptyOut, produced, stray>>

(* The shell ends; a process it left behind may keep the terminal open. *)
ShellExit(s) ==
    /\ shell = "running"
    /\ shell' = "exited" /\ status' = s
    /\ slaveOpen' \in BOOLEAN
    /\ UNCHANGED <<record, fd, p2t, t2p, reader, writer, main, mq,
                   exitCode, ptyOut, ptyIn, produced, consumed, stray>>

LastProcessExit ==
    /\ slaveOpen /\ shell \in {"exited", "reaped"}
    /\ slaveOpen' = FALSE
    /\ UNCHANGED <<record, fd, p2t, t2p, reader, writer, main, mq,
                   process, ptyOut, ptyIn, produced, consumed, stray>>

(* Some other code of the process opens a file and gets the free number. *)
DescriptorReused ==
    /\ fd = "closed"
    /\ fd' = "other"
    /\ UNCHANGED <<record, p2t, t2p, reader, writer, main, mq,
                   process, pty, stray>>

-----------------------------------------------------------------------------
(* The reader thread.  A read(2) that has started keeps the file it was    *)
(* started on, whatever happens to the descriptor.                         *)

ReaderCall ==
    /\ pcR = "call"
    /\ \/ fd = "mine" /\ pcR' = "reading" /\ UNCHANGED readerHas
       \/ fd = "closed" /\ pcR' = "done" /\ UNCHANGED readerHas
       \/ fd = "other" /\ pcR' = "put" /\ readerHas' = 1
    /\ UNCHANGED <<record, fd, p2t, t2p, writer, main, mq, process,
                   pty, stray>>

(* Mutant of ReaderRead: what does not fit into the queue is dropped. *)
ReaderReadCut ==
    /\ pcR = "reading" /\ ptyOut > 0
    /\ LET n == MinOf(ptyOut, ReadSize) IN
        /\ readerHas' = MinOf(n, P2TSize - Len(p2tQueue))
        /\ ptyOut' = ptyOut - n
    /\ pcR' = "put"
    /\ UNCHANGED <<record, fd, p2t, t2p, writer, main, mq, process,
                   slaveOpen, ptyIn, produced, consumed, stray>>

ReaderRead ==
    /\ pcR = "reading" /\ ptyOut > 0
    /\ readerHas' = MinOf(ptyOut, ReadSize)
    /\ ptyOut' = ptyOut - readerHas'
    /\ pcR' = "put"
    /\ UNCHANGED <<record, fd, p2t, t2p, writer, main, mq, process,
                   slaveOpen, ptyIn, produced, consumed, stray>>

(* EIO: nobody is left on the other side, and all has been read. *)
ReaderEnd ==
    /\ pcR = "reading" /\ ptyOut = 0 /\ ~slaveOpen
    /\ pcR' = "done"
    /\ UNCHANGED <<record, fd, p2t, t2p, readerHas, writer, main, mq,
                   process, pty, stray>>

ReaderPut ==
    /\ pcR = "put" /\ p2tOpen /\ readerHas > 0 /\ Len(p2tQueue) < P2TSize
    /\ LET n == MinOf(readerHas, P2TSize - Len(p2tQueue)) IN
        /\ P2T!Put(n)
        /\ readerHas' = readerHas - n
    /\ UNCHANGED <<record, fd, t2p, pcR, writer, main, mq, process, pty,
                   stray>>

(* Mutant of ReaderSent: the main thread is not told. *)
ReaderSentSilent ==
    /\ pcR = "put" /\ readerHas = 0
    /\ pcR' = "call"
    /\ UNCHANGED <<record, fd, p2t, t2p, readerHas, writer, main, mq,
                   process, pty, stray>>

ReaderSent ==
    /\ pcR = "put" /\ readerHas = 0
    /\ mq' = Append(mq, "input")
    /\ pcR' = "call"
    /\ UNCHANGED <<record, fd, p2t, t2p, readerHas, writer, main,
                   process, pty, stray>>

(* write() returned false. *)
ReaderStop ==
    /\ pcR = "put" /\ readerHas > 0 /\ ~p2tOpen
    /\ pcR' = "done"
    /\ UNCHANGED <<record, fd, p2t, t2p, readerHas, writer, main, mq,
                   process, pty, stray>>

Reader == ReaderCall \/ ReaderRead \/ ReaderEnd \/ ReaderPut \/ ReaderSent
          \/ ReaderStop

-----------------------------------------------------------------------------
(* The writer thread.                                                      *)

WriterGet ==
    /\ pcW = "get" /\ t2pOpen /\ Len(t2pQueue) > 0
    /\ T2P!Get(Len(t2pQueue))
    /\ writerHas' = Len(t2pQueue)
    /\ pcW' = "call"
    /\ UNCHANGED <<record, fd, p2t, reader, main, mq, process, pty,
                   stray>>

(* read() returned -1. *)
WriterStop ==
    /\ pcW = "get" /\ ~t2pOpen
    /\ pcW' = "done"
    /\ UNCHANGED <<record, fd, p2t, t2p, reader, writerHas, main, mq,
                   process, pty, stray>>

WriterCall ==
    /\ pcW = "call"
    /\ \/ fd = "mine" /\ pcW' = "writing" /\ UNCHANGED writerHas
       \/ fd = "closed" /\ pcW' = "done" /\ UNCHANGED writerHas
       \/ fd = "other" /\ pcW' = "get" /\ writerHas' = 0
    /\ UNCHANGED <<record, fd, p2t, t2p, reader, main, mq, process,
                   pty, stray>>

(* Mutant of WriterWrite: one partial write(2) is taken for the whole. *)
WriterWriteOnce ==
    /\ pcW = "writing" /\ slaveOpen /\ ptyIn < PtySize
    /\ ptyIn' = ptyIn + MinOf(writerHas, PtySize - ptyIn)
    /\ writerHas' = 0 /\ pcW' = "get"
    /\ UNCHANGED <<record, fd, p2t, t2p, reader, main, mq, process,
                   slaveOpen, ptyOut, produced, consumed, stray>>

WriterWrite ==
    /\ pcW = "writing" /\ slaveOpen /\ ptyIn < PtySize
    /\ LET n == MinOf(writerHas, PtySize - ptyIn) IN
        /\ ptyIn' = ptyIn + n
        /\ writerHas' = writerHas - n
        /\ pcW' = IF n = writerHas THEN "get" ELSE "writing"
    /\ UNCHANGED <<record, fd, p2t, t2p, reader, main, mq, process,
                   slaveOpen, ptyOut, produced, consumed, stray>>

(* EIO: the IOException ends the thread; the queue stays open. *)
WriterEnd ==
    /\ pcW = "writing" /\ ~slaveOpen
    /\ pcW' = "done"
    /\ UNCHANGED <<record, fd, p2t, t2p, reader, writerHas, main, mq,
                   process, pty, stray>>

Writer == WriterGet \/ WriterStop \/ WriterCall \/ WriterWrite \/ WriterEnd

-----------------------------------------------------------------------------
(* The waiter thread: waitpid() returns and the main thread is told.       *)

(* Mutant of Waiter: told before the process has been waited for. *)
WaiterEarly ==
    /\ shell = "running" /\ "exit" \notin {mq[i] : i \in 1..Len(mq)}
    /\ mq' = Append(mq, "exit")
    /\ UNCHANGED <<record, fd, p2t, t2p, reader, writer, main,
                   process, pty, stray>>

(* JNI.waitFor(): the exit code, or the negated signal. *)
WaitFor(s) == IF s[1] = "code" THEN s[2] ELSE -s[2]

(* Mutant of Waiter: the main thread is not told. *)
WaiterSilent ==
    /\ shell = "exited"
    /\ shell' = "reaped"
    /\ exitCode' = WaitFor(status)
    /\ UNCHANGED <<record, fd, p2t, t2p, reader, writer, main, mq, status, pty,
                   stray>>

Waiter ==
    /\ shell = "exited"
    /\ shell' = "reaped"
    /\ exitCode' = WaitFor(status)
    /\ mq' = Append(mq, "exit")
    /\ UNCHANGED <<record, fd, p2t, t2p, reader, writer, main,
                   status, pty, stray>>

-----------------------------------------------------------------------------
(* The main thread.                                                        *)

(* updateSize() for the first time: initializeEmulator(). *)
Start ==
    /\ pcM = "idle" /\ fd = "none"
    /\ fd' = "mine" /\ mShellPid' = Pid
    /\ shell' = "running" /\ slaveOpen' = TRUE
    /\ pcR' = "call" /\ pcW' = "get"
    /\ UNCHANGED <<mShellExitStatus, p2t, t2p, readerHas, writerHas,
                   main, mq, status, exitCode, ptyOut, ptyIn, produced,
                   consumed, stray>>

(* updateSize() later on: setPtyWindowSize() on the descriptor's number. *)
Resize ==
    /\ pcM = "idle" /\ fd # "none"
    /\ stray' = IF fd = "other" THEN "file" ELSE stray
    /\ UNCHANGED <<record, fd, p2t, t2p, reader, writer, main, mq, process,
                   pty>>

Write(n) ==
    /\ pcM = "idle" /\ mShellPid > 0 /\ t2pSent + n <= MaxInput
    /\ pcM' = "write" /\ rest' = n
    /\ UNCHANGED <<record, fd, p2t, t2p, reader, writer, msg,
                   completed, mq, process, pty, stray>>

WritePut ==
    /\ pcM = "write" /\ t2pOpen /\ rest > 0 /\ Len(t2pQueue) < T2PSize
    /\ LET n == MinOf(rest, T2PSize - Len(t2pQueue)) IN
        /\ T2P!Put(n)
        /\ rest' = rest - n
    /\ UNCHANGED <<record, fd, p2t, reader, writer, pcM, msg, completed,
                   mq, process, pty, stray>>

(* handleMessage() goes on with cleanupResources() after MSG_PROCESS_EXITED *)
Resume(m) ==
    IF m = "exit" THEN pcM' = "cleanup" /\ msg' = m
                  ELSE pcM' = "idle" /\ msg' = "none"

WriteReturn ==
    /\ pcM = "write" /\ rest = 0
    /\ Resume(msg)
    /\ UNCHANGED <<record, fd, p2t, t2p, reader, writer, rest,
                   completed, mq, process, pty, stray>>

(* Take a message, append what the queue holds; the emulator may answer.   *)
HandleMessage ==
    /\ pcM = "idle" /\ mq # <<>>
    /\ mq' = Tail(mq)
    /\ \/ /\ p2tOpen /\ Len(p2tQueue) > 0
          /\ P2T!Get(Len(p2tQueue))
          /\ \/ Resume(Head(mq)) /\ UNCHANGED rest
             \/ /\ mShellPid > 0 /\ t2pSent < MaxInput
                /\ pcM' = "write" /\ msg' = Head(mq) /\ rest' = 1
       \/ /\ ~(p2tOpen /\ Len(p2tQueue) > 0)
          /\ Resume(Head(mq))
          /\ UNCHANGED <<p2t, rest>>
    /\ UNCHANGED <<record, fd, t2p, reader, writer, completed,
                   process, pty, stray>>

(* Mutant of Cleanup: the queue to the process is left open. *)
CleanupT2POpen ==
    /\ pcM = "cleanup"
    /\ mShellPid' = -1 /\ mShellExitStatus' = exitCode
    /\ pcM' = "closeP2T"
    /\ UNCHANGED <<fd, p2t, t2p, reader, writer, msg, rest, completed,
                   mq, process, pty, stray>>

Cleanup ==
    /\ pcM = "cleanup"
    /\ mShellPid' = -1 /\ mShellExitStatus' = exitCode
    /\ T2P!Close
    /\ pcM' = "closeP2T"
    /\ UNCHANGED <<fd, p2t, reader, writer, msg, rest, completed,
                   mq, process, pty, stray>>

(* Mutant of CleanupP2T: the queue is left open. *)
CleanupP2TOpen ==
    /\ pcM = "closeP2T"
    /\ pcM' = "closeFd"
    /\ UNCHANGED <<record, fd, p2t, t2p, reader, writer, msg, rest,
                   completed, mq, process, pty, stray>>

CleanupP2T ==
    /\ pcM = "closeP2T"
    /\ P2T!Close
    /\ pcM' = "closeFd"
    /\ UNCHANGED <<record, fd, t2p, reader, writer, msg, rest, completed,
                   mq, process, pty, stray>>

(* JNI.close(), the "[Process completed" line and onSessionFinished(). *)
CleanupFd ==
    /\ pcM = "closeFd"
    /\ fd' = "closed"
    /\ completed' = TRUE
    /\ pcM' = "idle" /\ msg' = "none"
    /\ UNCHANGED <<record, p2t, t2p, reader, writer, rest,
                   mq, process, pty, stray>>

(* finishIfRunning(): SIGKILL to mShellPid.  kill(0, ...) signals the      *)
(* caller's process group, and so ends the application; a pid that has     *)
(* been waited for may be anyone's.                                        *)
FinishIfRunning ==
    /\ pcM = "idle" /\ mShellPid # -1
    /\ \/ /\ shell = "running"
          /\ shell' = "exited" /\ status' = <<"signal", 9>>
          /\ slaveOpen' \in BOOLEAN
          /\ UNCHANGED <<pcM, stray>>
       \/ /\ mShellPid = 0
          /\ stray' = "group" /\ pcM' = "dead"
          /\ UNCHANGED <<shell, status, slaveOpen>>
       \/ /\ shell = "reaped"
          /\ stray' = "pid"
          /\ UNCHANGED <<shell, status, slaveOpen, pcM>>
    /\ UNCHANGED <<record, fd, p2t, t2p, reader, writer, msg, rest, completed,
                   mq, exitCode, ptyOut, ptyIn, produced, consumed>>

Handler == WritePut \/ WriteReturn \/ HandleMessage \/ Cleanup \/ CleanupP2T
           \/ CleanupFd

Next ==
    \/ Reader \/ Writer \/ Waiter
    \/ Handler \/ Start \/ Resize \/ FinishIfRunning
    \/ \E n \in 1..MaxInput : Write(n)
    \/ \E n \in 1..PtySize : Output(n)
    \/ \E s \in Statuses : ShellExit(s)
    \/ Input \/ LastProcessExit \/ DescriptorReused

Spec == Init /\ [][Next]_vars

(* The threads run; Android's looper handles what is in its queue.  What   *)
(* the user, the shell and other processes do is not assumed to happen.    *)
Fairness == WF_vars(Reader) /\ WF_vars(Writer) /\ WF_vars(Waiter)
            /\ WF_vars(Handler)

FairSpec == Spec /\ Fairness

(* The same, with processes that read their input and leave in the end.    *)
ReadingSpec == FairSpec /\ WF_vars(Input) /\ WF_vars(LastProcessExit)

-----------------------------------------------------------------------------
(* Every variable has the values its declaration says. *)
TypeOK ==
    /\ mShellPid \in {0, Pid, -1} /\ mShellExitStatus \in Int
    /\ fd \in {"none", "mine", "closed", "other"}
    /\ p2tQueue \in Seq(Nat) /\ Len(p2tQueue) <= P2TSize
    /\ t2pQueue \in Seq(Nat) /\ Len(t2pQueue) <= T2PSize
    /\ p2tSent \in Nat /\ t2pSent \in Nat
    /\ screen \in Seq(Nat) /\ forwarded \in Seq(Nat)
    /\ p2tOpen \in BOOLEAN /\ t2pOpen \in BOOLEAN
    /\ pcR \in {"none", "call", "reading", "put", "done"}
    /\ pcW \in {"none", "get", "call", "writing", "done"}
    /\ pcM \in {"idle", "write", "cleanup", "closeP2T", "closeFd", "dead"}
    /\ readerHas \in 0..ReadSize /\ writerHas \in 0..T2PSize
    /\ msg \in {"none", "input", "exit"} /\ rest \in 0..MaxInput
    /\ mq \in Seq({"input", "exit"})
    /\ completed \in BOOLEAN
    /\ shell \in {"none", "running", "exited", "reaped"}
    /\ status \in Statuses \union {<<"code", 0>>} /\ exitCode \in Int
    /\ slaveOpen \in BOOLEAN
    /\ ptyOut \in 0..PtySize /\ ptyIn \in 0..PtySize
    /\ produced \in Nat /\ consumed \in Nat
    /\ stray \in {"nothing", "group", "pid", "file"}

(* mShellExitStatus is "only valid if mShellPid is -1": once the pid says  *)
(* so, the process has been waited for and the field tells how it ended.   *)
ExitRecorded ==
    mShellPid = -1 => /\ shell = "reaped"
                      /\ mShellExitStatus = WaitFor(status)

(* Until cleanupResources() closes the queue no byte of output is lost, at *)
(* whatever point of the reader's loop the shell or the main thread is.    *)
OutputConserved ==
    p2tOpen =>
        produced = Len(screen) + Len(p2tQueue) + readerHas + ptyOut

(* What write() accepted reaches the terminal's readers, while there are.  *)
InputConserved ==
    slaveOpen /\ t2pOpen =>
        t2pSent = consumed + ptyIn + writerHas + Len(t2pQueue)

(* After the "[Process completed" line no output is appended to the        *)
(* screen, though messages and bytes may still be on their way.            *)
ScreenFrozen == [][completed => UNCHANGED screen]_vars

(* The main thread sits in write(): the queue is full, and its reader has  *)
(* ended with an IOException or nobody reads the terminal.                 *)
Stuck ==
    /\ pcM = "write" /\ Len(t2pQueue) = T2PSize
    /\ \/ pcW = "done"
       \/ pcW = "writing" /\ slaveOpen /\ ptyIn = PtySize

(* Output gets to the screen, or the session is cleaned up first, or the   *)
(* main thread is stuck in write() for good.                               *)
OutputShown ==
    \/ \A k \in 1..MaxOutput :
          produced >= k ~> (Len(screen) >= k \/ ~p2tOpen)
    \/ <>[]Stuck

(* The end of the shell is noticed, unless the main thread is stuck.       *)
ExitNoticedUnlessStuck ==
    (shell = "exited" ~> completed) \/ <>[]Stuck

(* With nobody left on the terminal both I/O threads of a finished session *)
(* end, also when they meet a closed or reused descriptor on the way.      *)
ThreadsStopAlone ==
    (completed /\ ~slaveOpen) ~> (pcR = "done" /\ pcW = "done")

-----------------------------------------------------------------------------
(* What the comments of TerminalSession.java say and its code does not do. *)

(* "Finish this terminal session by sending SIGKILL to the shell": no      *)
(* other process is signalled by finishIfRunning().                        *)
KillsOnlyTheShell == stray \notin {"group", "pid"}

(* mTerminalFileDescriptor is "the file descriptor referencing the master  *)
(* half of a pseudo-terminal pair": neither updateSize() nor the threads   *)
(* use its number for another file.                                        *)
DescriptorIsPty ==
    [][Resize \/ ReaderCall \/ WriterCall => fd # "other"]_vars

(* mShellPid is "0 if not started and -1 if finished running": the end of  *)
(* the shell gets into the field.                                          *)
ExitNoticed == shell = "exited" ~> mShellPid = -1
=============================================================================
