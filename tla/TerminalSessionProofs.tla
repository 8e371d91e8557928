----------------------- MODULE TerminalSessionProofs -----------------------
(***************************************************************************)
(* Proofs about TerminalSession, for queues, arrays and kernel buffers of  *)
(* any size and any amount of input and output: the bytes of both          *)
(* directions are conserved, the exit status is that of the process, and   *)
(* the screen of a completed session is final.                             *)
(*                                                                         *)
(* The inductive invariant IInv adds to the properties what makes them     *)
(* survive a step: where the threads have empty hands, that nothing has    *)
(* happened before Start, who may speak of the end of the shell, and that  *)
(* the queues are closed before the descriptor is given up.                *)
(***************************************************************************)
EXTENDS TerminalSession, TLAPS

(* The I/O threads have empty hands where they fetch the next bytes. *)
EmptyHanded ==
    /\ pcR \in {"none", "call", "reading"} => readerHas = 0
    /\ pcW \in {"none", "get"} => writerHas = 0

(* Before updateSize() has started the shell nothing has happened. *)
Fresh ==
    fd = "none" =>
        /\ mShellPid = 0 /\ shell = "none" /\ pcR = "none" /\ pcW = "none"
        /\ pcM \in {"idle", "dead"} /\ mq = <<>>
        /\ t2pSent = 0 /\ consumed = 0 /\ ptyIn = 0 /\ Len(t2pQueue) = 0

(* Whoever speaks of the end of the shell speaks of one that was waited    *)
(* for, and the shell has the terminal open until it ends.                 *)
Ended ==
    /\ \A i \in 1 .. Len(mq) : mq[i] = "exit" => shell = "reaped"
    /\ msg = "exit" \/ mShellPid = -1 => shell = "reaped"
    /\ pcM \in {"cleanup", "closeP2T", "closeFd"} => msg = "exit"
    /\ shell = "reaped" => exitCode = WaitFor(status)
    /\ mShellPid = -1 => mShellExitStatus = exitCode
    /\ shell = "running" => slaveOpen

(* cleanupResources() closes the queues before it gives the descriptor up. *)
Closed ==
    /\ pcM \in {"closeP2T", "closeFd"} => ~t2pOpen
    /\ pcM = "closeFd" => ~p2tOpen
    /\ fd \in {"closed", "other"} => ~t2pOpen /\ ~p2tOpen
    /\ completed => ~p2tOpen

(* Where everyone is, *)
Control == EmptyHanded /\ Fresh /\ Ended /\ Closed

(* and with that where every byte is. *)
IInv == TypeOK /\ Control /\ OutputConserved /\ InputConserved

-----------------------------------------------------------------------------
(* The channels. *)

(* A segment of the stream at the end of a queue. *)
LEMMA AppendSegment ==
    ASSUME NEW q \in Seq(Nat), NEW s \in Nat, NEW n \in Nat
    PROVE  /\ q \o [i \in 1..n |-> s + i] \in Seq(Nat)
           /\ Len(q \o [i \in 1..n |-> s + i]) = Len(q) + n
<1> DEFINE g == [i \in 1..n |-> s + i]
<1>1. g \in Seq(Nat) /\ Len(g) = n
  OBVIOUS
<1> HIDE DEF g
<1>2. q \o g \in Seq(Nat) /\ Len(q \o g) = Len(q) + n
  BY <1>1
<1> QED
  BY <1>2, Zenon DEF g

(* A queue that is emptied into what was received. *)
LEMMA TakeAll ==
    ASSUME NEW q \in Seq(Nat), NEW r \in Seq(Nat)
    PROVE  /\ r \o SubSeq(q, 1, Len(q)) \in Seq(Nat)
           /\ Len(r \o SubSeq(q, 1, Len(q))) = Len(r) + Len(q)
           /\ SubSeq(q, Len(q) + 1, Len(q)) \in Seq(Nat)
           /\ Len(SubSeq(q, Len(q) + 1, Len(q))) = 0
<1> DEFINE all == SubSeq(q, 1, Len(q))
           none == SubSeq(q, Len(q) + 1, Len(q))
<1>1. all \in Seq(Nat) /\ Len(all) = Len(q)
  BY SMTT(30)
<1>2. none \in Seq(Nat) /\ Len(none) = 0
  BY SMTT(30)
<1> HIDE DEF all, none
<1>3. r \o all \in Seq(Nat) /\ Len(r \o all) = Len(r) + Len(q)
  BY <1>1, SMTT(30)
<1>4. QED
  BY <1>2, <1>3, Zenon DEF all, none

(* What ByteQueue.write() does to the queue of the output. *)
LEMMA P2TPut ==
    ASSUME p2tQueue \in Seq(Nat), p2tSent \in Nat, NEW n \in Nat, P2T!Put(n)
    PROVE  /\ p2tQueue' \in Seq(Nat) /\ Len(p2tQueue') = Len(p2tQueue) + n
           /\ Len(p2tQueue') <= P2TSize /\ p2tSent' = p2tSent + n
           /\ p2tOpen /\ p2tOpen' = p2tOpen /\ screen' = screen
BY AppendSegment, Zenon DEF P2T!Put, P2T!Segment

(* What ByteQueue.read() of all its bytes does to it. *)
LEMMA P2TGet ==
    ASSUME p2tQueue \in Seq(Nat), screen \in Seq(Nat), P2T!Get(Len(p2tQueue))
    PROVE  /\ p2tQueue' \in Seq(Nat) /\ Len(p2tQueue') = 0
           /\ screen' \in Seq(Nat)
           /\ Len(screen') = Len(screen) + Len(p2tQueue)
           /\ p2tOpen /\ p2tOpen' = p2tOpen /\ p2tSent' = p2tSent
BY TakeAll, Zenon DEF P2T!Get

(* The same for the queue of the input. *)
LEMMA T2PPut ==
    ASSUME t2pQueue \in Seq(Nat), t2pSent \in Nat, NEW n \in Nat, T2P!Put(n)
    PROVE  /\ t2pQueue' \in Seq(Nat) /\ Len(t2pQueue') = Len(t2pQueue) + n
           /\ Len(t2pQueue') <= T2PSize /\ t2pSent' = t2pSent + n
           /\ t2pOpen /\ t2pOpen' = t2pOpen /\ forwarded' = forwarded
BY AppendSegment, Zenon DEF T2P!Put, T2P!Segment

(* The writer thread takes all that the queue of the input has. *)
LEMMA T2PGet ==
    ASSUME t2pQueue \in Seq(Nat), forwarded \in Seq(Nat),
           T2P!Get(Len(t2pQueue))
    PROVE  /\ t2pQueue' \in Seq(Nat) /\ Len(t2pQueue') = 0
           /\ forwarded' \in Seq(Nat)
           /\ Len(forwarded') = Len(forwarded) + Len(t2pQueue)
           /\ t2pOpen /\ t2pOpen' = t2pOpen /\ t2pSent' = t2pSent
BY TakeAll, Zenon DEF T2P!Get

-----------------------------------------------------------------------------
(* What the steps leave alone. *)

(* Only the reader and the main thread touch the queue of the output, *)
LEMMA P2TFrame ==
    [Next]_vars => ReaderPut \/ HandleMessage \/ CleanupP2T \/ UNCHANGED p2t
BY Zenon DEF Next, Reader, Writer, Handler, vars, Output, Input, ShellExit,
    LastProcessExit, DescriptorReused, ReaderCall, ReaderRead, ReaderEnd,
    ReaderSent, ReaderStop, WriterGet, WriterStop, WriterCall, WriterWrite,
    WriterEnd, Waiter, Start, Resize, Write, WritePut, WriteReturn, Cleanup,
    CleanupFd, FinishIfRunning

(* and only the writer and the main thread that of the input. *)
LEMMA T2PFrame ==
    [Next]_vars => WriterGet \/ WritePut \/ Cleanup \/ UNCHANGED t2p
BY Zenon DEF Next, Reader, Writer, Handler, vars, Output, Input, ShellExit,
    LastProcessExit, DescriptorReused, ReaderCall, ReaderRead, ReaderEnd,
    ReaderPut, ReaderSent, ReaderStop, WriterStop, WriterCall, WriterWrite,
    WriterEnd, Waiter, Start, Resize, Write, WriteReturn, HandleMessage,
    CleanupP2T, CleanupFd, FinishIfRunning

(* The reader is started once; else it moves by itself. *)
LEMMA ReaderFrame == [Next]_vars => Reader \/ Start \/ UNCHANGED reader
BY Zenon DEF Next, Writer, Handler, vars, Output, Input, ShellExit,
    LastProcessExit, DescriptorReused, WriterGet, WriterStop, WriterCall,
    WriterWrite, WriterEnd, Waiter, Resize, Write, WritePut, WriteReturn,
    HandleMessage, Cleanup, CleanupP2T, CleanupFd, FinishIfRunning

(* So does the writer. *)
LEMMA WriterFrame == [Next]_vars => Writer \/ Start \/ UNCHANGED writer
BY Zenon DEF Next, Reader, Handler, vars, Output, Input, ShellExit,
    LastProcessExit, DescriptorReused, ReaderCall, ReaderRead, ReaderEnd,
    ReaderPut, ReaderSent, ReaderStop, Waiter, Resize, Write, WritePut,
    WriteReturn, HandleMessage, Cleanup, CleanupP2T, CleanupFd,
    FinishIfRunning

(* The main thread's own steps. *)
LEMMA MainFrame ==
    [Next]_vars => \/ WritePut \/ WriteReturn \/ HandleMessage \/ Cleanup
                   \/ CleanupP2T \/ CleanupFd \/ FinishIfRunning
                   \/ (\E n \in 1..MaxInput : Write(n))
                   \/ UNCHANGED main
BY Zenon DEF Next, Reader, Writer, Handler, vars, Output, Input, ShellExit,
    LastProcessExit, DescriptorReused, ReaderCall, ReaderRead, ReaderEnd,
    ReaderPut, ReaderSent, ReaderStop, WriterGet, WriterStop, WriterCall,
    WriterWrite, WriterEnd, Waiter, Start, Resize

(* mShellPid and mShellExitStatus are set by the start and the cleanup. *)
LEMMA RecordFrame ==
    [Next]_vars => Start \/ Cleanup \/ UNCHANGED record
BY Zenon DEF Next, Reader, Writer, Handler, vars, Output, Input, ShellExit,
    LastProcessExit, DescriptorReused, ReaderCall, ReaderRead, ReaderEnd,
    ReaderPut, ReaderSent, ReaderStop, WriterGet, WriterStop, WriterCall,
    WriterWrite, WriterEnd, Waiter, Resize, Write, WritePut, WriteReturn,
    HandleMessage, CleanupP2T, CleanupFd, FinishIfRunning

(* What happens to the number of the descriptor. *)
LEMMA FdFrame ==
    [Next]_vars => Start \/ CleanupFd \/ DescriptorReused \/ UNCHANGED fd
BY Zenon DEF Next, Reader, Writer, Handler, vars, Output, Input, ShellExit,
    LastProcessExit, ReaderCall, ReaderRead, ReaderEnd,
    ReaderPut, ReaderSent, ReaderStop, WriterGet, WriterStop, WriterCall,
    WriterWrite, WriterEnd, Waiter, Resize, Write, WritePut, WriteReturn,
    HandleMessage, Cleanup, CleanupP2T, FinishIfRunning

(* Who sends messages, and who takes them. *)
LEMMA MqFrame ==
    [Next]_vars => ReaderSent \/ Waiter \/ HandleMessage \/ UNCHANGED mq
BY Zenon DEF Next, Reader, Writer, Handler, vars, Output, Input, ShellExit,
    LastProcessExit, DescriptorReused, ReaderCall, ReaderRead, ReaderEnd,
    ReaderPut, ReaderStop, WriterGet, WriterStop, WriterCall,
    WriterWrite, WriterEnd, Start, Resize, Write, WritePut, WriteReturn,
    Cleanup, CleanupP2T, CleanupFd, FinishIfRunning

(* What starts, ends and waits for the shell. *)
LEMMA ProcessFrame ==
    [Next]_vars => \/ (\E s \in Statuses : ShellExit(s))
                   \/ Waiter \/ Start \/ FinishIfRunning \/ UNCHANGED process
BY Zenon DEF Next, Reader, Writer, Handler, vars, Output, Input,
    LastProcessExit, DescriptorReused, ReaderCall, ReaderRead, ReaderEnd,
    ReaderPut, ReaderSent, ReaderStop, WriterGet, WriterStop, WriterCall,
    WriterWrite, WriterEnd, Resize, Write, WritePut, WriteReturn,
    HandleMessage, Cleanup, CleanupP2T, CleanupFd

(* What touches the pseudo-terminal. *)
LEMMA PtyFrame ==
    [Next]_vars => \/ (\E n \in 1..PtySize : Output(n))
                   \/ Input \/ (\E s \in Statuses : ShellExit(s))
                   \/ LastProcessExit \/ ReaderRead \/ WriterWrite \/ Start
                   \/ FinishIfRunning \/ UNCHANGED pty
BY Zenon DEF Next, Reader, Writer, Handler, vars, DescriptorReused,
    ReaderCall, ReaderEnd, ReaderPut, ReaderSent, ReaderStop, WriterGet,
    WriterStop, WriterCall, WriterEnd, Waiter, Resize, Write, WritePut,
    WriteReturn, HandleMessage, Cleanup, CleanupP2T, CleanupFd

-----------------------------------------------------------------------------
(* Type correctness, part by part. *)

ChannelTypes ==
    /\ p2tQueue \in Seq(Nat) /\ Len(p2tQueue) <= P2TSize
    /\ t2pQueue \in Seq(Nat) /\ Len(t2pQueue) <= T2PSize
    /\ p2tSent \in Nat /\ t2pSent \in Nat
    /\ screen \in Seq(Nat) /\ forwarded \in Seq(Nat)
    /\ p2tOpen \in BOOLEAN /\ t2pOpen \in BOOLEAN

ThreadTypes ==
    /\ pcR \in {"none", "call", "reading", "put", "done"}
    /\ pcW \in {"none", "get", "call", "writing", "done"}
    /\ readerHas \in 0..ReadSize /\ writerHas \in 0..T2PSize

MainTypes ==
    /\ pcM \in {"idle", "write", "cleanup", "closeP2T", "closeFd", "dead"}
    /\ msg \in {"none", "input", "exit"} /\ rest \in 0..MaxInput
    /\ completed \in BOOLEAN
    /\ mq \in Seq({"input", "exit"})

RecordTypes ==
    /\ mShellPid \in {0, Pid, -1} /\ mShellExitStatus \in Int
    /\ fd \in {"none", "mine", "closed", "other"}
    /\ stray \in {"nothing", "group", "pid", "file"}

ProcessTypes ==
    /\ shell \in {"none", "running", "exited", "reaped"}
    /\ status \in Statuses \union {<<"code", 0>>} /\ exitCode \in Int
    /\ slaveOpen \in BOOLEAN

PtyTypes ==
    /\ ptyOut \in 0..PtySize /\ ptyIn \in 0..PtySize
    /\ produced \in Nat /\ consumed \in Nat

(* TypeOK is the conjunction of its parts. *)
LEMMA TypeParts ==
    TypeOK <=> /\ ChannelTypes /\ ThreadTypes /\ MainTypes
               /\ RecordTypes /\ ProcessTypes /\ PtyTypes
BY Zenon DEF TypeOK, ChannelTypes, ThreadTypes, MainTypes, RecordTypes,
    ProcessTypes, PtyTypes

(* The assumptions on the constants, one by one. *)
LEMMA SizesAreNat ==
    /\ P2TSize \in Nat \ {0} /\ T2PSize \in Nat \ {0}
    /\ ReadSize \in Nat \ {0} /\ PtySize \in Nat \ {0}
    /\ MaxOutput \in Nat /\ MaxInput \in Nat
BY SizesAssumption, BoundsAssumption, Zenon

(* The queues never hold more than they have room for. *)
LEMMA ChannelStep ==
    ASSUME ChannelTypes, ThreadTypes, MainTypes, [Next]_vars
    PROVE  ChannelTypes'
<1> USE SizesAreNat DEF ChannelTypes
<1>1. /\ p2tQueue' \in Seq(Nat) /\ Len(p2tQueue') <= P2TSize
      /\ p2tSent' \in Nat /\ screen' \in Seq(Nat) /\ p2tOpen' \in BOOLEAN
  <2>1. CASE ReaderPut
    <3>1. PICK n \in Nat : P2T!Put(n)
      BY <2>1 DEF ReaderPut, ThreadTypes, MinOf
    <3>2. QED
      BY <3>1, P2TPut
  <2>2. CASE HandleMessage
    BY <2>2, P2TGet DEF HandleMessage, p2t
  <2>3. CASE CleanupP2T
    BY <2>3, Zenon DEF CleanupP2T, P2T!Close
  <2>4. CASE UNCHANGED p2t
    BY <2>4, Zenon DEF p2t
  <2>5. QED
    BY <2>1, <2>2, <2>3, <2>4, P2TFrame, Zenon
<1>2. /\ t2pQueue' \in Seq(Nat) /\ Len(t2pQueue') <= T2PSize
      /\ t2pSent' \in Nat /\ forwarded' \in Seq(Nat) /\ t2pOpen' \in BOOLEAN
  <2>1. CASE WritePut
    <3>1. PICK n \in Nat : T2P!Put(n)
      BY <2>1 DEF WritePut, MainTypes, MinOf
    <3>2. QED
      BY <3>1, T2PPut
  <2>2. CASE WriterGet
    BY <2>2, T2PGet DEF WriterGet
  <2>3. CASE Cleanup
    BY <2>3, Zenon DEF Cleanup, T2P!Close
  <2>4. CASE UNCHANGED t2p
    BY <2>4, Zenon DEF t2p
  <2>5. QED
    BY <2>1, <2>2, <2>3, <2>4, T2PFrame, Zenon
<1>3. QED
  BY <1>1, <1>2, Zenon

(* The reader never has more than its array holds. *)
LEMMA ReaderTypeStep ==
    ASSUME ChannelTypes, ThreadTypes, PtyTypes, [Next]_vars
    PROVE  /\ pcR' \in {"none", "call", "reading", "put", "done"}
           /\ readerHas' \in 0..ReadSize
<1> USE SizesAreNat DEF ThreadTypes
<1>1. CASE ReaderCall
  BY <1>1 DEF ReaderCall
<1>2. CASE ReaderRead
  BY <1>2 DEF ReaderRead, MinOf, PtyTypes
<1>3. CASE ReaderEnd
  BY <1>3, Zenon DEF ReaderEnd
<1>4. CASE ReaderPut
  BY <1>4 DEF ReaderPut, MinOf, ChannelTypes
<1>5. CASE ReaderSent
  BY <1>5, Zenon DEF ReaderSent
<1>6. CASE ReaderStop
  BY <1>6, Zenon DEF ReaderStop
<1>7. CASE Start
  BY <1>7, Zenon DEF Start
<1>8. CASE UNCHANGED reader
  BY <1>8, Zenon DEF reader
<1>9. QED
  BY <1>1, <1>2, <1>3, <1>4, <1>5, <1>6, <1>7, <1>8, ReaderFrame, Zenon
     DEF Reader

(* The writer never has more than its queue held. *)
LEMMA WriterTypeStep ==
    ASSUME ChannelTypes, ThreadTypes, PtyTypes, [Next]_vars
    PROVE  /\ pcW' \in {"none", "get", "call", "writing", "done"}
           /\ writerHas' \in 0..T2PSize
<1> USE SizesAreNat DEF ThreadTypes
<1>1. CASE WriterGet
  BY <1>1 DEF WriterGet, ChannelTypes
<1>2. CASE WriterStop
  BY <1>2, Zenon DEF WriterStop
<1>3. CASE WriterCall
  BY <1>3 DEF WriterCall
<1>4. CASE WriterWrite
  BY <1>4 DEF WriterWrite, MinOf, PtyTypes
<1>5. CASE WriterEnd
  BY <1>5, Zenon DEF WriterEnd
<1>6. CASE Start
  BY <1>6, Zenon DEF Start
<1>7. CASE UNCHANGED writer
  BY <1>7, Zenon DEF writer
<1>8. QED
  BY <1>1, <1>2, <1>3, <1>4, <1>5, <1>6, <1>7, WriterFrame, Zenon DEF Writer

(* The main thread's variables and its messages. *)
LEMMA MainTypeStep ==
    ASSUME ChannelTypes, MainTypes, RecordTypes, [Next]_vars
    PROVE  MainTypes'
<1> USE SizesAreNat
<1>1. mq' \in Seq({"input", "exit"})
  <2>1. CASE ReaderSent
    BY <2>1 DEF ReaderSent, MainTypes
  <2>2. CASE Waiter
    BY <2>2 DEF Waiter, MainTypes
  <2>3. CASE HandleMessage
    BY <2>3 DEF HandleMessage, MainTypes
  <2>4. CASE UNCHANGED mq
    BY <2>4, Zenon DEF MainTypes
  <2>5. QED
    BY <2>1, <2>2, <2>3, <2>4, MqFrame, Zenon
<1> DEFINE Main ==
        /\ pcM \in {"idle", "write", "cleanup", "closeP2T", "closeFd", "dead"}
        /\ msg \in {"none", "input", "exit"} /\ rest \in 0..MaxInput
        /\ completed \in BOOLEAN
<1>2. Main
  BY Zenon DEF MainTypes
<1>3. Main'
  <2>1. CASE WritePut
    BY <2>1, <1>2 DEF WritePut, MinOf, ChannelTypes
  <2>2. CASE WriteReturn
    BY <2>2, <1>2, Zenon DEF WriteReturn, Resume
  <2>3. CASE HandleMessage
    <3>1. Head(mq) \in {"input", "exit"}
      BY <2>3 DEF HandleMessage, MainTypes
    <3>2. MaxInput >= 1 \/ rest' = rest
      BY <2>3 DEF HandleMessage, ChannelTypes
    <3>3. QED
      BY <2>3, <1>2, <3>1, <3>2 DEF HandleMessage, Resume
  <2>4. CASE Cleanup
    BY <2>4, <1>2, Zenon DEF Cleanup
  <2>5. CASE CleanupP2T
    BY <2>5, <1>2, Zenon DEF CleanupP2T
  <2>6. CASE CleanupFd
    BY <2>6, <1>2, Zenon DEF CleanupFd
  <2>7. CASE FinishIfRunning
    BY <2>7, <1>2, Zenon DEF FinishIfRunning
  <2>8. CASE \E n \in 1..MaxInput : Write(n)
    BY <2>8, <1>2 DEF Write
  <2>9. CASE UNCHANGED main
    BY <2>9, <1>2, Zenon DEF main
  <2>10. QED
    BY <2>1, <2>2, <2>3, <2>4, <2>5, <2>6, <2>7, <2>8, <2>9, MainFrame, Zenon
<1>4. QED
  BY <1>1, <1>3, Zenon DEF MainTypes

(* Only updateSize() and finishIfRunning() can get at something else. *)
LEMMA StrayFrame ==
    [Next]_vars => Resize \/ FinishIfRunning \/ UNCHANGED stray
BY Zenon DEF Next, Reader, Writer, Handler, vars, Output, Input, ShellExit,
    LastProcessExit, DescriptorReused, ReaderCall, ReaderRead, ReaderEnd,
    ReaderPut, ReaderSent, ReaderStop, WriterGet, WriterStop, WriterCall,
    WriterWrite, WriterEnd, Waiter, Start, Write, WritePut, WriteReturn,
    HandleMessage, Cleanup, CleanupP2T, CleanupFd

(* The fields of the session. *)
LEMMA RecordTypeStep ==
    ASSUME RecordTypes, ProcessTypes, [Next]_vars
    PROVE  RecordTypes'
<1>1. mShellPid' \in {0, Pid, -1} /\ mShellExitStatus' \in Int
  <2>1. CASE Start
    BY <2>1, Zenon DEF Start, RecordTypes
  <2>2. CASE Cleanup
    BY <2>2, Zenon DEF Cleanup, RecordTypes, ProcessTypes
  <2>3. CASE UNCHANGED record
    BY <2>3, Zenon DEF record, RecordTypes
  <2>4. QED
    BY <2>1, <2>2, <2>3, RecordFrame, Zenon
<1>2. fd' \in {"none", "mine", "closed", "other"}
  BY FdFrame, Zenon DEF Start, CleanupFd, DescriptorReused, RecordTypes
<1>3. stray' \in {"nothing", "group", "pid", "file"}
  BY StrayFrame, Zenon DEF Resize, FinishIfRunning, RecordTypes
<1>4. QED
  BY <1>1, <1>2, <1>3, Zenon DEF RecordTypes

(* JNI.waitFor() returns a number. *)
LEMMA WaitForInt ==
    \A s \in Statuses \union {<<"code", 0>>} : WaitFor(s) \in Int
BY DEF WaitFor, Statuses

(* The process. *)
LEMMA ProcessTypeStep ==
    ASSUME ProcessTypes, [Next]_vars
    PROVE  ProcessTypes'
<1>1. /\ shell' \in {"none", "running", "exited", "reaped"}
      /\ status' \in Statuses \union {<<"code", 0>>} /\ exitCode' \in Int
  <2>1. CASE \E s \in Statuses : ShellExit(s)
    BY <2>1, Zenon DEF ShellExit, ProcessTypes
  <2>2. CASE Waiter
    BY <2>2, WaitForInt, Zenon DEF Waiter, ProcessTypes
  <2>3. CASE Start
    BY <2>3, Zenon DEF Start, ProcessTypes
  <2>4. CASE FinishIfRunning
    BY <2>4, Zenon DEF FinishIfRunning, ProcessTypes, process, Statuses
  <2>5. CASE UNCHANGED process
    BY <2>5, Zenon DEF process, ProcessTypes
  <2>6. QED
    BY <2>1, <2>2, <2>3, <2>4, <2>5, ProcessFrame, Zenon
<1>2. slaveOpen' \in BOOLEAN
  <2>1. CASE UNCHANGED pty
    BY <2>1, Zenon DEF pty, ProcessTypes
  <2>2. QED
    BY <2>1, PtyFrame, Zenon DEF ProcessTypes, Output, Input, ShellExit,
        LastProcessExit, ReaderRead, WriterWrite, Start, FinishIfRunning
<1>3. QED
  BY <1>1, <1>2, Zenon DEF ProcessTypes

(* The kernel's buffers never hold more than they have room for. *)
LEMMA PtyTypeStep ==
    ASSUME PtyTypes, ThreadTypes, [Next]_vars
    PROVE  PtyTypes'
<1> USE SizesAreNat DEF PtyTypes
<1>1. CASE \E n \in 1..PtySize : Output(n)
  BY <1>1 DEF Output
<1>2. CASE Input
  BY <1>2 DEF Input
<1>3. CASE ReaderRead
  BY <1>3 DEF ReaderRead, MinOf
<1>4. CASE WriterWrite
  BY <1>4 DEF WriterWrite, MinOf, ThreadTypes
<1>5. CASE UNCHANGED pty
  BY <1>5, Zenon DEF pty
<1>6. CASE LastProcessExit \/ Start \/ FinishIfRunning
             \/ \E s \in Statuses : ShellExit(s)
  BY <1>6, Zenon DEF LastProcessExit, Start, FinishIfRunning, ShellExit
<1>7. QED
  BY <1>1, <1>2, <1>3, <1>4, <1>5, <1>6, PtyFrame, Zenon

(* Type correctness is preserved by every step. *)
LEMMA TypeStep == TypeOK /\ [Next]_vars => TypeOK'
<1> SUFFICES ASSUME TypeOK, [Next]_vars PROVE TypeOK'
  OBVIOUS
<1>1. /\ ChannelTypes /\ ThreadTypes /\ MainTypes
      /\ RecordTypes /\ ProcessTypes /\ PtyTypes
  BY TypeParts, Zenon
<1>2. ThreadTypes'
  BY <1>1, ReaderTypeStep, WriterTypeStep, Zenon DEF ThreadTypes
<1>3. /\ ChannelTypes' /\ MainTypes' /\ RecordTypes' /\ ProcessTypes'
      /\ PtyTypes'
  BY <1>1, ChannelStep, MainTypeStep, RecordTypeStep, ProcessTypeStep,
     PtyTypeStep, Zenon
<1>4. QED
  BY <1>2, <1>3, Zenon DEF TypeOK, ChannelTypes, ThreadTypes, MainTypes,
     RecordTypes, ProcessTypes, PtyTypes

-----------------------------------------------------------------------------
(* The invariant. *)

(* A thread that fetches bytes has handed on the last ones. *)
LEMMA EmptyHandedStep ==
    ASSUME TypeOK, EmptyHanded, Fresh, [Next]_vars
    PROVE  EmptyHanded'
<1>1. pcR' \in {"none", "call", "reading"} => readerHas' = 0
  <2>1. CASE ReaderCall
    BY <2>1, Zenon DEF ReaderCall, EmptyHanded
  <2>2. CASE ReaderRead
    BY <2>2, Zenon DEF ReaderRead
  <2>3. CASE ReaderEnd
    BY <2>3, Zenon DEF ReaderEnd
  <2>4. CASE ReaderPut
    BY <2>4, Zenon DEF ReaderPut
  <2>5. CASE ReaderSent
    BY <2>5, Zenon DEF ReaderSent
  <2>6. CASE ReaderStop
    BY <2>6, Zenon DEF ReaderStop
  <2>7. CASE Start
    BY <2>7, Zenon DEF Start, EmptyHanded, Fresh
  <2>8. CASE UNCHANGED reader
    BY <2>8, Zenon DEF reader, EmptyHanded
  <2>9. QED
    BY <2>1, <2>2, <2>3, <2>4, <2>5, <2>6, <2>7, <2>8, ReaderFrame, Zenon
       DEF Reader
<1>2. pcW' \in {"none", "get"} => writerHas' = 0
  <2>1. CASE WriterGet
    BY <2>1, Zenon DEF WriterGet
  <2>2. CASE WriterStop
    BY <2>2, Zenon DEF WriterStop
  <2>3. CASE WriterCall
    BY <2>3, Zenon DEF WriterCall
  <2>4. CASE WriterWrite
    <3>1. writerHas \in Nat /\ ptyIn \in Nat /\ PtySize \in Nat
      BY SizesAreNat DEF TypeOK
    <3>2. QED
      BY <2>4, <3>1 DEF WriterWrite
  <2>5. CASE WriterEnd
    BY <2>5, Zenon DEF WriterEnd
  <2>6. CASE Start
    BY <2>6, Zenon DEF Start, EmptyHanded, Fresh
  <2>7. CASE UNCHANGED writer
    BY <2>7, Zenon DEF writer, EmptyHanded
  <2>8. QED
    BY <2>1, <2>2, <2>3, <2>4, <2>5, <2>6, <2>7, WriterFrame, Zenon DEF Writer
<1>3. QED
  BY <1>1, <1>2, Zenon DEF EmptyHanded

(* Nothing but Start and what cannot do harm is possible before Start. *)
LEMMA FreshStep ==
    ASSUME TypeOK, Fresh, [Next]_vars
    PROVE  Fresh'
<1> SUFFICES ASSUME fd' = "none"
             PROVE  /\ mShellPid' = 0 /\ shell' = "none" /\ pcR' = "none"
                    /\ pcW' = "none"
                    /\ pcM' \in {"idle", "dead"} /\ mq' = <<>>
                    /\ t2pSent' = 0 /\ consumed' = 0 /\ ptyIn' = 0
                    /\ Len(t2pQueue') = 0
  BY Zenon DEF Fresh
<1>1. fd = "none" /\ ~Start
  BY FdFrame, Zenon DEF Start, CleanupFd, DescriptorReused
<1>2. /\ mShellPid = 0 /\ shell = "none" /\ pcR = "none" /\ pcW = "none"
      /\ pcM \in {"idle", "dead"} /\ mq = <<>>
      /\ t2pSent = 0 /\ consumed = 0 /\ ptyIn = 0 /\ Len(t2pQueue) = 0
  BY <1>1, Zenon DEF Fresh
<1>3. /\ ~Reader /\ ~Writer /\ ~Waiter
      /\ ~\E s \in Statuses : ShellExit(s)
  BY <1>2, Zenon DEF Reader, ReaderCall, ReaderRead, ReaderEnd, ReaderPut,
     ReaderSent, ReaderStop, Writer, WriterGet, WriterStop, WriterCall,
     WriterWrite, WriterEnd, Waiter, ShellExit
<1>4. /\ ~WritePut /\ ~WriteReturn /\ ~HandleMessage /\ ~Cleanup
      /\ ~CleanupP2T /\ ~CleanupFd
  BY <1>2, Zenon DEF WritePut, WriteReturn, HandleMessage, Cleanup, CleanupP2T,
     CleanupFd
<1>5. ~(\E n \in 1..MaxInput : Write(n)) /\ ~Input
  BY <1>2 DEF Write, Input
<1>6. mShellPid' = 0 /\ pcR' = "none" /\ pcW' = "none" /\ mq' = <<>>
  <2>1. UNCHANGED <<record, reader, writer, mq>>
    BY <1>1, <1>3, <1>4, RecordFrame, ReaderFrame, WriterFrame, MqFrame,
       Zenon DEF Reader
  <2>2. QED
    BY <2>1, <1>2, Zenon DEF record, reader, writer
<1>7. t2pSent' = 0 /\ Len(t2pQueue') = 0
  <2>1. UNCHANGED t2p
    BY <1>3, <1>4, T2PFrame, Zenon DEF Writer
  <2>2. QED
    BY <2>1, <1>2, Zenon DEF t2p
<1>8. CASE FinishIfRunning
  BY <1>8, <1>2, <1>6, <1>7, Zenon DEF FinishIfRunning
<1>9. CASE ~FinishIfRunning
  <2>1. UNCHANGED <<process, main>>
    BY <1>9, <1>1, <1>3, <1>4, <1>5, ProcessFrame, MainFrame, Zenon
  <2>2. consumed' = 0 /\ ptyIn' = 0
    <3>1. CASE \E n \in 1..PtySize : Output(n)
      BY <3>1, <1>2, Zenon DEF Output
    <3>2. CASE LastProcessExit
      BY <3>2, <1>2, Zenon DEF LastProcessExit
    <3>3. CASE UNCHANGED pty
      BY <3>3, <1>2, Zenon DEF pty
    <3>4. QED
      BY <3>1, <3>2, <3>3, <1>1, <1>3, <1>5, <1>9, PtyFrame, Zenon
         DEF Reader, Writer
  <2>3. QED
    BY <2>1, <2>2, <1>2, <1>6, <1>7, Zenon DEF process, main
<1>10. QED
  BY <1>8, <1>9, Zenon

(* A closed queue stays closed, and both are before the descriptor is. *)
LEMMA ClosedStep ==
    ASSUME TypeOK, Closed, [Next]_vars
    PROVE  Closed'
<1>1. /\ p2tOpen' => p2tOpen
      /\ t2pOpen' => t2pOpen
  <2>1. p2tOpen' => p2tOpen
    BY P2TFrame, Zenon DEF ReaderPut, HandleMessage, CleanupP2T, P2T!Put,
       P2T!Get, P2T!Close, p2t
  <2>2. t2pOpen' => t2pOpen
    BY T2PFrame, Zenon DEF WriterGet, WritePut, Cleanup, T2P!Put, T2P!Get,
       T2P!Close, t2p
  <2>3. QED
    BY <2>1, <2>2, Zenon
<1>2. /\ pcM' \in {"closeP2T", "closeFd"} => ~t2pOpen'
      /\ pcM' = "closeFd" => ~p2tOpen'
      /\ completed' => ~p2tOpen'
  <2>1. CASE WritePut
    BY <2>1, <1>1, Zenon DEF WritePut, Closed
  <2>2. CASE WriteReturn
    BY <2>2, <1>1, Zenon DEF WriteReturn, Resume, Closed
  <2>3. CASE HandleMessage
    BY <2>3, <1>1, Zenon DEF HandleMessage, Resume, Closed
  <2>4. CASE Cleanup
    BY <2>4, <1>1, Zenon DEF Cleanup, T2P!Close, Closed
  <2>5. CASE CleanupP2T
    BY <2>5, <1>1, Zenon DEF CleanupP2T, P2T!Close, Closed
  <2>6. CASE CleanupFd
    BY <2>6, <1>1, Zenon DEF CleanupFd, Closed
  <2>7. CASE FinishIfRunning
    BY <2>7, <1>1, Zenon DEF FinishIfRunning, Closed
  <2>8. CASE \E n \in 1..MaxInput : Write(n)
    BY <2>8, <1>1 DEF Write, Closed
  <2>9. CASE UNCHANGED main
    BY <2>9, <1>1, Zenon DEF main, Closed
  <2>10. QED
    BY <2>1, <2>2, <2>3, <2>4, <2>5, <2>6, <2>7, <2>8, <2>9, MainFrame, Zenon
<1>3. fd' \in {"closed", "other"} => ~t2pOpen' /\ ~p2tOpen'
  BY <1>1, FdFrame, Zenon DEF Start, CleanupFd, DescriptorReused, Closed
<1>4. QED
  BY <1>2, <1>3, Zenon DEF Closed

(* The end of the shell is final: no step changes what was recorded. *)
LEMMA EndedStep ==
    ASSUME TypeOK, Fresh, Ended, [Next]_vars
    PROVE  Ended'
<1>1. /\ shell = "reaped" => /\ shell' = "reaped"
                            /\ UNCHANGED <<status, exitCode>>
      /\ shell' = "reaped" => exitCode' = WaitFor(status')
  <2>1. CASE \E s \in Statuses : ShellExit(s)
    BY <2>1, Zenon DEF ShellExit
  <2>2. CASE Waiter
    BY <2>2, Zenon DEF Waiter
  <2>3. CASE Start
    BY <2>3, Zenon DEF Start, Fresh
  <2>4. CASE FinishIfRunning
    BY <2>4, Zenon DEF FinishIfRunning, Ended
  <2>5. CASE UNCHANGED process
    BY <2>5, Zenon DEF process, Ended
  <2>6. QED
    BY <2>1, <2>2, <2>3, <2>4, <2>5, ProcessFrame, Zenon
<1>2. \A i \in 1 .. Len(mq') : mq'[i] = "exit" => shell' = "reaped"
  <2>1. CASE ReaderSent
    <3>1. mq \in Seq({"input", "exit"}) /\ mq' = Append(mq, "input")
      BY <2>1, Zenon DEF ReaderSent, TypeOK
    <3>2. \A i \in 1 .. Len(mq') : \/ i \in 1 .. Len(mq) /\ mq'[i] = mq[i]
                                   \/ mq'[i] = "input"
      BY <3>1
    <3>3. QED
      BY <3>2, <1>1, Zenon DEF Ended
  <2>2. CASE Waiter
    BY <2>2, Zenon DEF Waiter
  <2>3. CASE HandleMessage
    <3>1. mq \in Seq({"input", "exit"}) /\ mq # <<>> /\ mq' = Tail(mq)
      BY <2>3, Zenon DEF HandleMessage, TypeOK
    <3>2. \A i \in 1 .. Len(mq') : i + 1 \in 1 .. Len(mq) /\ mq'[i] = mq[i + 1]
      BY <3>1
    <3>3. QED
      BY <3>2, <1>1, Zenon DEF Ended
  <2>4. CASE UNCHANGED mq
    BY <2>4, <1>1, Zenon DEF Ended
  <2>5. QED
    BY <2>1, <2>2, <2>3, <2>4, MqFrame, Zenon
<1>3. /\ msg' = "exit" => shell' = "reaped"
      /\ pcM' \in {"cleanup", "closeP2T", "closeFd"} => msg' = "exit"
  <2>1. CASE WritePut
    BY <2>1, <1>1, Zenon DEF WritePut, Ended
  <2>2. CASE WriteReturn
    BY <2>2, <1>1, Zenon DEF WriteReturn, Resume, Ended
  <2>3. CASE HandleMessage
    <3>1. Head(mq) = "exit" => shell = "reaped"
      BY <2>3 DEF HandleMessage, Ended, TypeOK
    <3>2. QED
      BY <2>3, <3>1, <1>1, Zenon DEF HandleMessage, Resume, Ended
  <2>4. CASE Cleanup
    BY <2>4, <1>1, Zenon DEF Cleanup, Ended
  <2>5. CASE CleanupP2T
    BY <2>5, <1>1, Zenon DEF CleanupP2T, Ended
  <2>6. CASE CleanupFd
    BY <2>6, <1>1, Zenon DEF CleanupFd, Ended
  <2>7. CASE FinishIfRunning
    BY <2>7, <1>1, Zenon DEF FinishIfRunning, Ended
  <2>8. CASE \E n \in 1..MaxInput : Write(n)
    BY <2>8, <1>1, Zenon DEF Write, Ended
  <2>9. CASE UNCHANGED main
    BY <2>9, <1>1, Zenon DEF main, Ended
  <2>10. QED
    BY <2>1, <2>2, <2>3, <2>4, <2>5, <2>6, <2>7, <2>8, <2>9, MainFrame, Zenon
<1>4. mShellPid' = -1 => shell' = "reaped" /\ mShellExitStatus' = exitCode'
  <2>1. CASE Start
    BY <2>1 DEF Start, Pid
  <2>2. CASE Cleanup
    BY <2>2, <1>1, Zenon DEF Cleanup, Ended
  <2>3. CASE UNCHANGED record
    BY <2>3, <1>1, Zenon DEF record, Ended
  <2>4. QED
    BY <2>1, <2>2, <2>3, RecordFrame, Zenon
<1>5. shell' = "running" => slaveOpen'
  <2>1. CASE Start
    BY <2>1, Zenon DEF Start
  <2>2. CASE ~Start /\ shell' = "running"
    <3>1. shell = "running" /\ slaveOpen
      BY <2>2, ProcessFrame, Zenon DEF ShellExit, Waiter, FinishIfRunning,
         process, Ended
    <3>2. CASE UNCHANGED pty
      BY <3>1, <3>2, Zenon DEF pty
    <3>3. QED
      BY <2>2, <3>1, <3>2, PtyFrame, Zenon DEF Output, Input, ShellExit,
         LastProcessExit, ReaderRead, WriterWrite, FinishIfRunning
  <2>3. QED
    BY <2>1, <2>2, Zenon
<1>6. QED
  BY <1>1, <1>2, <1>3, <1>4, <1>5, Zenon DEF Ended

(* Output: the kernel's buffer, the reader's hands, the queue and the      *)
(* screen together.                                                        *)
LEMMA OutputStep ==
    ASSUME TypeOK, EmptyHanded, Closed, OutputConserved, [Next]_vars
    PROVE  OutputConserved'
<1> SUFFICES ASSUME p2tOpen'
             PROVE  produced' = Len(screen') + Len(p2tQueue') + readerHas'
                                + ptyOut'
  BY Zenon DEF OutputConserved
<1>1. p2tOpen
  BY P2TFrame, Zenon DEF ReaderPut, HandleMessage, CleanupP2T, P2T!Put,
     P2T!Get, P2T!Close, p2t
<1>2. produced = Len(screen) + Len(p2tQueue) + readerHas + ptyOut
  BY <1>1, Zenon DEF OutputConserved
<1>3. /\ p2tQueue \in Seq(Nat) /\ screen \in Seq(Nat) /\ p2tSent \in Nat
      /\ readerHas \in Nat /\ ptyOut \in Nat /\ produced \in Nat
      /\ ReadSize \in Nat /\ P2TSize \in Nat
  BY SizesAreNat DEF TypeOK
<1>4. Len(p2tQueue) \in Nat /\ Len(screen) \in Nat
  BY <1>3
<1>5. CASE ReaderPut
  <2>1. PICK n \in Nat : P2T!Put(n) /\ readerHas' = readerHas - n
    BY <1>3, <1>4, <1>5 DEF ReaderPut, MinOf
  <2>2. ptyOut' = ptyOut /\ produced' = produced
    BY <1>5, Zenon DEF ReaderPut, pty
  <2>3. /\ Len(p2tQueue') = Len(p2tQueue) + n /\ screen' = screen
    BY <1>3, <2>1, P2TPut, Zenon
  <2>4. QED
    BY <1>2, <1>3, <1>4, <2>1, <2>2, <2>3
<1>6. CASE HandleMessage
  <2>1. ptyOut' = ptyOut /\ produced' = produced /\ readerHas' = readerHas
    BY <1>6, Zenon DEF HandleMessage, pty, reader
  <2>2. P2T!Get(Len(p2tQueue)) \/ UNCHANGED p2t
    BY <1>6, Zenon DEF HandleMessage
  <2>3. Len(screen') + Len(p2tQueue') = Len(screen) + Len(p2tQueue)
    <3>1. CASE P2T!Get(Len(p2tQueue))
      BY <1>3, <1>4, <3>1, P2TGet
    <3>2. CASE UNCHANGED p2t
      BY <3>2, Zenon DEF p2t
    <3>3. QED
      BY <2>2, <3>1, <3>2, Zenon
  <2>4. Len(p2tQueue') \in Nat /\ Len(screen') \in Nat
    <3>1. CASE P2T!Get(Len(p2tQueue))
      BY <1>3, <1>4, <3>1, P2TGet
    <3>2. CASE UNCHANGED p2t
      BY <1>4, <3>2, Zenon DEF p2t
    <3>3. QED
      BY <2>2, <3>1, <3>2, Zenon
  <2>5. QED
    BY <1>2, <1>3, <1>4, <2>1, <2>3, <2>4, Zenon
<1>7. CASE UNCHANGED p2t
  <2>1. UNCHANGED <<p2tQueue, screen>>
    BY <1>7, Zenon DEF p2t
  <2>2. CASE ReaderRead
    <3>1. readerHas = 0
      BY <2>2, Zenon DEF ReaderRead, EmptyHanded
    <3>2. ptyOut' = ptyOut - readerHas' /\ produced' = produced
      BY <2>2, Zenon DEF ReaderRead
    <3>3. readerHas' \in Nat
      BY <2>2, <1>3, Zenon DEF ReaderRead, MinOf
    <3>4. QED
      BY <1>2, <1>3, <1>4, <2>1, <3>1, <3>2, <3>3
  <2>3. CASE \E n \in 1..PtySize : Output(n)
    <3>1. PICK n \in 1..PtySize : Output(n)
      BY <2>3, Zenon
    <3>2. ptyOut' = ptyOut + n /\ produced' = produced + n
      BY <3>1, Zenon DEF Output
    <3>3. readerHas' = readerHas
      BY <3>1, Zenon DEF Output, reader
    <3>4. QED
      BY <1>2, <1>3, <1>4, <2>1, <3>2, <3>3
  <2>4. CASE ReaderCall
    <3>1. fd # "other"
      BY <1>1, Zenon DEF Closed
    <3>2. UNCHANGED <<readerHas, ptyOut, produced>>
      BY <2>4, <3>1, Zenon DEF ReaderCall, pty
    <3>3. QED
      BY <1>2, <2>1, <3>2, Zenon
  <2>5. CASE ~(ReaderRead \/ ReaderCall \/ ReaderPut)
             /\ ~\E n \in 1..PtySize : Output(n)
    <3>1. readerHas' = readerHas
      <4>1. CASE ReaderEnd \/ ReaderSent \/ ReaderStop \/ Start
        BY <4>1, Zenon DEF ReaderEnd, ReaderSent, ReaderStop, Start
      <4>2. CASE UNCHANGED reader
        BY <4>2, Zenon DEF reader
      <4>3. QED
        BY <2>5, <4>1, <4>2, ReaderFrame, Zenon DEF Reader
    <3>2. UNCHANGED <<ptyOut, produced>>
      <4>1. CASE Input \/ LastProcessExit \/ WriterWrite \/ Start
        BY <4>1, Zenon DEF Input, LastProcessExit, WriterWrite, Start
      <4>2. CASE FinishIfRunning \/ \E s \in Statuses : ShellExit(s)
        BY <4>2, Zenon DEF FinishIfRunning, ShellExit
      <4>3. CASE UNCHANGED pty
        BY <4>3, Zenon DEF pty
      <4>4. QED
        BY <2>5, <4>1, <4>2, <4>3, PtyFrame, Zenon
    <3>3. QED
      BY <1>2, <2>1, <3>1, <3>2, Zenon
  <2>6. CASE ReaderPut
    BY <1>5, <2>6, Zenon
  <2>7. QED
    BY <2>2, <2>3, <2>4, <2>5, <2>6, Zenon
<1>8. ~CleanupP2T
  BY Zenon DEF CleanupP2T, P2T!Close
<1>9. QED
  BY <1>5, <1>6, <1>7, <1>8, P2TFrame, Zenon

(* Input: the queue, the writer's hands, the kernel's buffer and what has  *)
(* been read behind the terminal together.                                 *)
LEMMA InputStep ==
    ASSUME TypeOK, EmptyHanded, Fresh, Ended, Closed, InputConserved,
           [Next]_vars
    PROVE  InputConserved'
<1> SUFFICES ASSUME slaveOpen', t2pOpen'
             PROVE  t2pSent' = consumed' + ptyIn' + writerHas'
                               + Len(t2pQueue')
  BY Zenon DEF InputConserved
<1>1. t2pOpen
  BY T2PFrame, Zenon DEF WriterGet, WritePut, Cleanup, T2P!Put, T2P!Get,
     T2P!Close, t2p
<1>2. /\ t2pQueue \in Seq(Nat) /\ forwarded \in Seq(Nat) /\ t2pSent \in Nat
      /\ writerHas \in Nat /\ ptyIn \in Nat /\ consumed \in Nat
      /\ rest \in Nat /\ PtySize \in Nat /\ T2PSize \in Nat
  BY SizesAreNat DEF TypeOK
<1>3. Len(t2pQueue) \in Nat
  BY <1>2
<1>4. CASE Start
  <2>1. t2pSent = 0 /\ consumed = 0 /\ ptyIn = 0 /\ writerHas = 0
        /\ Len(t2pQueue) = 0
    BY <1>4, Zenon DEF Start, Fresh, EmptyHanded
  <2>2. UNCHANGED <<t2pSent, consumed, ptyIn, writerHas, t2pQueue>>
    BY <1>4, Zenon DEF Start, t2p
  <2>3. QED
    BY <2>1, <2>2
<1>5. ASSUME ~Start
      PROVE  t2pSent = consumed + ptyIn + writerHas + Len(t2pQueue)
  <2>1. slaveOpen
    <3>1. CASE UNCHANGED pty
      BY <3>1, Zenon DEF pty
    <3>2. QED
      BY <1>5, <3>1, PtyFrame, Zenon DEF Output, Input, ShellExit,
         LastProcessExit, ReaderRead, WriterWrite, FinishIfRunning, Ended
  <2>2. QED
    BY <1>1, <2>1, Zenon DEF InputConserved
<1>6. CASE WritePut
  <2>1. PICK n \in Nat : T2P!Put(n)
    BY <1>2, <1>3, <1>6 DEF WritePut, MinOf
  <2>2. UNCHANGED <<consumed, ptyIn, writerHas>> /\ pcM = "write"
    BY <1>6, Zenon DEF WritePut, writer, pty
  <2>3. /\ Len(t2pQueue') = Len(t2pQueue) + n /\ t2pSent' = t2pSent + n
    BY <1>2, <2>1, T2PPut, Zenon
  <2>4. ~Start
    BY <2>2, Zenon DEF Start
  <2>5. QED
    BY <1>2, <1>3, <1>5, <2>2, <2>3, <2>4
<1>7. CASE WriterGet
  <2>1. UNCHANGED <<consumed, ptyIn>> /\ writerHas' = Len(t2pQueue)
        /\ writerHas = 0
    BY <1>7, Zenon DEF WriterGet, pty, EmptyHanded
  <2>2. T2P!Get(Len(t2pQueue)) /\ pcW' = "call"
    BY <1>7, Zenon DEF WriterGet
  <2>3. Len(t2pQueue') = 0 /\ t2pSent' = t2pSent
    BY <1>2, <2>2, T2PGet, Zenon
  <2>4. ~Start
    BY <2>2, Zenon DEF Start
  <2>5. QED
    BY <1>2, <1>3, <1>5, <2>1, <2>3, <2>4
<1>8. CASE UNCHANGED t2p /\ ~Start
  <2>1. UNCHANGED <<t2pQueue, t2pSent>>
    BY <1>8, Zenon DEF t2p
  <2>2. t2pSent = consumed + ptyIn + writerHas + Len(t2pQueue)
    BY <1>5, <1>8, Zenon
  <2>3. CASE WriterWrite
    <3>1. PICK n \in Nat : ptyIn' = ptyIn + n /\ writerHas' = writerHas - n
      BY <1>2, <2>3 DEF WriterWrite, MinOf
    <3>2. consumed' = consumed
      BY <2>3, Zenon DEF WriterWrite
    <3>3. QED
      BY <1>2, <1>3, <2>1, <2>2, <3>1, <3>2
  <2>4. CASE Input
    <3>1. ptyIn' = 0 /\ consumed' = consumed + ptyIn
      BY <2>4, Zenon DEF Input
    <3>2. writerHas' = writerHas
      BY <2>4, Zenon DEF Input, writer
    <3>3. QED
      BY <1>2, <1>3, <2>1, <2>2, <3>1, <3>2
  <2>5. CASE WriterCall
    <3>1. fd # "other"
      BY <1>1, Zenon DEF Closed
    <3>2. UNCHANGED <<writerHas, ptyIn, consumed>>
      BY <2>5, <3>1, Zenon DEF WriterCall, pty
    <3>3. QED
      BY <2>1, <2>2, <3>2, Zenon
  <2>6. CASE ~(WriterWrite \/ WriterCall \/ WriterGet \/ Input)
    <3>1. writerHas' = writerHas
      <4>1. CASE WriterStop \/ WriterEnd
        BY <4>1, Zenon DEF WriterStop, WriterEnd
      <4>2. CASE UNCHANGED writer
        BY <4>2, Zenon DEF writer
      <4>3. QED
        BY <1>8, <2>6, <4>1, <4>2, WriterFrame, Zenon DEF Writer
    <3>2. UNCHANGED <<ptyIn, consumed>>
      <4>1. CASE LastProcessExit \/ ReaderRead
                 \/ \E n \in 1..PtySize : Output(n)
        BY <4>1, Zenon DEF LastProcessExit, ReaderRead, Output
      <4>2. CASE FinishIfRunning \/ \E s \in Statuses : ShellExit(s)
        BY <4>2, Zenon DEF FinishIfRunning, ShellExit
      <4>3. CASE UNCHANGED pty
        BY <4>3, Zenon DEF pty
      <4>4. QED
        BY <1>8, <2>6, <4>1, <4>2, <4>3, PtyFrame, Zenon
    <3>3. QED
      BY <2>1, <2>2, <3>1, <3>2, Zenon
  <2>7. CASE WriterGet
    BY <1>7, <2>7, Zenon
  <2>8. QED
    BY <2>3, <2>4, <2>5, <2>6, <2>7, Zenon
<1>9. ~Cleanup
  BY Zenon DEF Cleanup, T2P!Close
<1>10. QED
  BY <1>4, <1>6, <1>7, <1>8, <1>9, T2PFrame, Zenon

-----------------------------------------------------------------------------
(* The theorems. *)

(* The invariant holds of a new session, *)
LEMMA InvInit == Init => IInv
<1> SUFFICES ASSUME Init PROVE IInv
  OBVIOUS
<1> USE SizesAreNat DEF Init, P2T!Init, T2P!Init
<1>1. TypeOK
  <2>1. ChannelTypes
    BY DEF ChannelTypes
  <2>2. MainTypes
    <3>1. <<>> \in Seq({"input", "exit"})
      OBVIOUS
    <3>2. rest \in 0..MaxInput
      OBVIOUS
    <3>3. QED
      BY <3>1, <3>2, Zenon DEF MainTypes
  <2>3. ThreadTypes /\ PtyTypes
    BY DEF ThreadTypes, PtyTypes
  <2>4. RecordTypes /\ ProcessTypes
    <3>1. status \in Statuses \union {<<"code", 0>>}
      BY Zenon
    <3>2. 0 \in Int
      OBVIOUS
    <3>3. QED
      BY <3>1, <3>2, Zenon DEF RecordTypes, ProcessTypes
  <2>5. QED
    BY <2>1, <2>2, <2>3, <2>4, TypeParts, Zenon
<1>2. EmptyHanded /\ Fresh /\ Closed
  BY Zenon DEF EmptyHanded, Fresh, Closed
<1>3. Ended
  BY DEF Ended
<1>4. OutputConserved /\ InputConserved
  BY DEF OutputConserved, InputConserved
<1>5. QED
  BY <1>1, <1>2, <1>3, <1>4, Zenon DEF IInv, Control

(* and every step preserves it. *)
LEMMA InvStep == IInv /\ [Next]_vars => IInv'
BY TypeStep, EmptyHandedStep, FreshStep, EndedStep, ClosedStep, OutputStep,
   InputStep, Zenon DEF IInv, Control

(* The inductive invariant holds throughout. *)
THEOREM InvCorrect == Spec => []IInv
BY InvInit, InvStep, PTL DEF Spec

(* The variables of a session keep their declared values, for queues,      *)
(* arrays and kernel buffers of any size.                                  *)
THEOREM TypeCorrect == Spec => []TypeOK
<1>1. IInv => TypeOK
  BY Zenon DEF IInv
<1>2. QED
  BY <1>1, InvCorrect, PTL

(* Once mShellPid is -1 the process has been waited for, and               *)
(* mShellExitStatus is its exit code or negated signal.                    *)
THEOREM ExitRecordedCorrect == Spec => []ExitRecorded
<1>1. IInv => ExitRecorded
  BY Zenon DEF IInv, Control, Ended, ExitRecorded
<1>2. QED
  BY <1>1, InvCorrect, PTL

(* No output is lost before cleanupResources() closes the queue.           *)
THEOREM OutputConservedCorrect == Spec => []OutputConserved
<1>1. IInv => OutputConserved
  BY Zenon DEF IInv
<1>2. QED
  BY <1>1, InvCorrect, PTL

(* No input is lost while the terminal is open and the session runs.       *)
THEOREM InputConservedCorrect == Spec => []InputConserved
<1>1. IInv => InputConserved
  BY Zenon DEF IInv
<1>2. QED
  BY <1>1, InvCorrect, PTL

(* Nothing is appended to the screen once the session is completed.        *)
THEOREM ScreenFrozenCorrect == Spec => ScreenFrozen
<1>1. IInv /\ [Next]_vars => [completed => UNCHANGED screen]_vars
  <2> SUFFICES ASSUME IInv, [Next]_vars, completed
               PROVE  UNCHANGED screen
    OBVIOUS
  <2>1. ~p2tOpen
    BY Zenon DEF IInv, Control, Closed
  <2>2. QED
    BY <2>1, P2TFrame, Zenon DEF ReaderPut, HandleMessage, CleanupP2T, P2T!Put,
       P2T!Get, P2T!Close, p2t
<1>2. QED
  BY <1>1, InvCorrect, PTL DEF Spec, ScreenFrozen
=============================================================================
