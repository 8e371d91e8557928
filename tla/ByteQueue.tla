----------------------------- MODULE ByteQueue -----------------------------
(***************************************************************************)
(* com.termux.terminal.ByteQueue: a ring buffer guarded by the object's    *)
(* monitor, with one producer thread (write), one consumer thread (read)   *)
(* and a third party that may close it.                                    *)
(*                                                                         *)
(* The monitor is the variable "owner".  A step is what a thread does      *)
(* between two points where the monitor, or the loop over the runs of the  *)
(* ring, lets the rest of the code be observed.  A thread that waits is in *)
(* "waitSet" and stands at the top of its loop; notify() takes one element *)
(* out.  Byte k of the producer's stream is the number k.  The Java array  *)
(* is a sequence: mBuffer[i] of the code is mBuffer[i + 1] here.           *)
(***************************************************************************)
EXTENDS Integers, Sequences

CONSTANTS
    Size,                     \* mBuffer.length
    MaxWrite,                 \* longest write() the producer asks for
    MaxRead,                  \* longest buffer given to read()
    StreamLength              \* bound: bytes the producer has to send

ASSUME SizeAssumption == Size \in Nat \ {0}
ASSUME BoundAssumption ==
    /\ MaxWrite \in Nat \ {0}
    /\ MaxRead \in Nat \ {0}
    /\ StreamLength \in Nat

VARIABLES
    mBuffer, mHead, mStoredBytes, mOpen,        \* the fields
    owner, waitSet,                             \* the object's monitor
    pcP, lengthToWrite, toWrite, wasEmpty,      \* locals of write()
    wrote, asked,                               \* its result; where it ends
    pcC, length, block, wasFull, totalRead,     \* locals of read()
    sent, received                              \* history: the two streams

fields == <<mBuffer, mHead, mStoredBytes, mOpen>>
producerVars == <<pcP, lengthToWrite, toWrite, wasEmpty, wrote, asked>>
consumerVars == <<pcC, length, block, wasFull, totalRead>>
vars == <<fields, owner, waitSet, producerVars, consumerVars, sent, received>>

Threads == {"producer", "consumer"}

MinOf(a, b) == IF a <= b THEN a ELSE b

Init ==
    /\ mBuffer = [i \in 1..Size |-> 0]
    /\ mHead = 0
    /\ mStoredBytes = 0
    /\ mOpen = TRUE
    /\ owner = "none"
    /\ waitSet = {}
    /\ pcP = "idle" /\ lengthToWrite = 0 /\ toWrite = 0
    /\ wasEmpty = FALSE /\ wrote = "none" /\ asked = 0
    /\ pcC = "idle" /\ length = 0 /\ block = FALSE
    /\ wasFull = FALSE /\ totalRead = 0
    /\ sent = 0
    /\ received = <<>>

-----------------------------------------------------------------------------
(* The monitor.                                                            *)

(* Thread t runs inside the monitor: it holds it, or it is free and t,     *)
(* which is not waiting, takes it.                                         *)
Enters(t) == owner \in {"none", t} /\ t \notin waitSet

(* notify(): one waiting thread, any one, stops waiting. *)
Notify ==
    \/ waitSet = {} /\ UNCHANGED waitSet
    \/ \E t \in waitSet : waitSet' = waitSet \ {t}

NotifyIf(condition) == IF condition THEN Notify ELSE UNCHANGED waitSet

(* wait() may return without a notify: a spurious wakeup, or the           *)
(* InterruptedException both loops ignore.                                 *)
Wakeup(t) ==
    /\ t \in waitSet
    /\ waitSet' = waitSet \ {t}
    /\ UNCHANGED <<fields, owner, producerVars, consumerVars, sent, received>>

-----------------------------------------------------------------------------
(* close()                                                                 *)

(* Mutant of Close: the waiting thread is not told. *)
CloseNoNotify ==
    /\ owner = "none"
    /\ mOpen' = FALSE
    /\ UNCHANGED <<mBuffer, mHead, mStoredBytes, owner, waitSet, producerVars,
                   consumerVars, sent, received>>

Close ==
    /\ owner = "none"
    /\ mOpen' = FALSE
    /\ Notify
    /\ UNCHANGED <<mBuffer, mHead, mStoredBytes, owner, producerVars,
                   consumerVars, sent, received>>

-----------------------------------------------------------------------------
(* write(buffer, offset, lengthToWrite)                                    *)

WriteCall(n) ==
    /\ pcP = "idle"
    /\ sent + n <= StreamLength
    /\ pcP' = "loop"
    /\ lengthToWrite' = n
    /\ wrote' = "none"
    /\ asked' = sent + n
    /\ UNCHANGED <<fields, owner, waitSet, toWrite, wasEmpty, consumerVars,
                   sent, received>>

WriteWait ==
    /\ pcP = "loop" /\ Enters("producer")
    /\ lengthToWrite > 0
    /\ mStoredBytes = Size /\ mOpen
    /\ waitSet' = waitSet \union {"producer"}
    /\ owner' = "none"
    /\ UNCHANGED <<fields, producerVars, consumerVars, sent, received>>

WriteClosed ==
    /\ pcP = "loop" /\ Enters("producer")
    /\ lengthToWrite > 0
    /\ ~mOpen
    /\ pcP' = "idle" /\ wrote' = "false"
    /\ owner' = "none"
    /\ UNCHANGED <<fields, waitSet, lengthToWrite, toWrite, wasEmpty,
                   asked, consumerVars, sent, received>>

WriteBegin ==
    /\ pcP = "loop" /\ Enters("producer")
    /\ lengthToWrite > 0
    /\ mStoredBytes < Size /\ mOpen
    /\ owner' = "producer"
    /\ wasEmpty' = (mStoredBytes = 0)
    /\ toWrite' = MinOf(lengthToWrite, Size - mStoredBytes)
    /\ lengthToWrite' = lengthToWrite - toWrite'
    /\ pcP' = "copy"
    /\ UNCHANGED <<fields, waitSet, wrote, asked, consumerVars, sent,
                   received>>

(* Where the next run of a write starts, and how long it can be. *)
tail == IF mHead + mStoredBytes >= Size THEN mHead + mStoredBytes - Size
                                        ELSE mHead + mStoredBytes
WriteRun == IF mHead + mStoredBytes >= Size THEN mHead - tail
                                            ELSE Size - tail

WriteCopy ==
    /\ pcP = "copy" /\ toWrite > 0
    /\ LET n == MinOf(WriteRun, toWrite) IN
        /\ mBuffer' = [i \in 1..Size |->
                          IF i \in (tail + 1)..(tail + n)
                          THEN sent + (i - tail) ELSE mBuffer[i]]
        /\ toWrite' = toWrite - n
        /\ mStoredBytes' = mStoredBytes + n
        /\ sent' = sent + n
    /\ UNCHANGED <<mHead, mOpen, owner, waitSet, pcP, lengthToWrite, wasEmpty,
                   wrote, asked, consumerVars, received>>

(* Mutant of WriteCopied: the consumer is notified only for a full queue. *)
WriteCopiedLateNotify ==
    /\ pcP = "copy" /\ toWrite = 0
    /\ NotifyIf(wasEmpty /\ mStoredBytes = Size)
    /\ pcP' = "loop"
    /\ UNCHANGED <<fields, owner, lengthToWrite, toWrite, wasEmpty, wrote,
                   asked, consumerVars, sent, received>>

(* Mutant of WriteCopied: the loop over the rest of the data is missing. *)
WriteCopiedNoLoop ==
    /\ pcP = "copy" /\ toWrite = 0
    /\ NotifyIf(wasEmpty)
    /\ pcP' = "idle" /\ wrote' = "true"
    /\ owner' = "none"
    /\ UNCHANGED <<fields, lengthToWrite, toWrite, wasEmpty, asked,
                   consumerVars, sent, received>>

WriteCopied ==
    /\ pcP = "copy" /\ toWrite = 0
    /\ NotifyIf(wasEmpty)
    /\ pcP' = "loop"
    /\ UNCHANGED <<fields, owner, lengthToWrite, toWrite, wasEmpty, wrote,
                   asked, consumerVars, sent, received>>

WriteReturn ==
    /\ pcP = "loop" /\ Enters("producer")
    /\ lengthToWrite = 0
    /\ pcP' = "idle" /\ wrote' = "true"
    /\ owner' = "none"
    /\ UNCHANGED <<fields, waitSet, lengthToWrite, toWrite, wasEmpty,
                   asked, consumerVars, sent, received>>

-----------------------------------------------------------------------------
(* read(buffer, block)                                                     *)

ReadCall(n, b) ==
    /\ pcC = "idle"
    /\ pcC' = "loop"
    /\ length' = n
    /\ block' = b
    /\ UNCHANGED <<fields, owner, waitSet, producerVars, wasFull, totalRead,
                   sent, received>>

ReadWait ==
    /\ pcC = "loop" /\ Enters("consumer")
    /\ mStoredBytes = 0 /\ mOpen /\ block
    /\ waitSet' = waitSet \union {"consumer"}
    /\ UNCHANGED <<fields, owner, producerVars, consumerVars, sent, received>>

ReadEmpty ==
    /\ pcC = "loop" /\ Enters("consumer")
    /\ mStoredBytes = 0 /\ mOpen /\ ~block
    /\ pcC' = "idle" /\ totalRead' = 0
    /\ UNCHANGED <<fields, owner, waitSet, producerVars, length, block,
                   wasFull, sent, received>>

ReadClosed ==
    /\ pcC = "loop" /\ Enters("consumer")
    /\ ~mOpen
    /\ pcC' = "idle" /\ totalRead' = -1
    /\ UNCHANGED <<fields, owner, waitSet, producerVars, length, block,
                   wasFull, sent, received>>

(* Mutant of ReadBegin: a closed queue is still drained. *)
ReadBeginDrain ==
    /\ pcC = "loop" /\ Enters("consumer")
    /\ mStoredBytes > 0
    /\ owner' = "consumer"
    /\ totalRead' = 0
    /\ wasFull' = (mStoredBytes = Size)
    /\ pcC' = "copy"
    /\ UNCHANGED <<fields, waitSet, producerVars, length, block, sent,
                   received>>

ReadBegin ==
    /\ pcC = "loop" /\ Enters("consumer")
    /\ mStoredBytes > 0 /\ mOpen
    /\ owner' = "consumer"
    /\ totalRead' = 0
    /\ wasFull' = (mStoredBytes = Size)
    /\ pcC' = "copy"
    /\ UNCHANGED <<fields, waitSet, producerVars, length, block, sent,
                   received>>

(* Mutant of ReadCopy: a run is not cut to the stored bytes. *)
ReadCopyUncut ==
    /\ pcC = "copy" /\ length > 0 /\ mStoredBytes > 0
    /\ LET n == MinOf(length, Size - mHead) IN
        /\ received' = received \o [i \in 1..n |-> mBuffer[mHead + i]]
        /\ mHead' = IF mHead + n >= Size THEN 0 ELSE mHead + n
        /\ mStoredBytes' = mStoredBytes - n
        /\ length' = length - n
        /\ totalRead' = totalRead + n
    /\ UNCHANGED <<mBuffer, mOpen, owner, waitSet, producerVars, pcC, block,
                   wasFull, sent>>

ReadCopy ==
    /\ pcC = "copy" /\ length > 0 /\ mStoredBytes > 0
    /\ LET n == MinOf(length, MinOf(Size - mHead, mStoredBytes)) IN
        /\ received' = received \o [i \in 1..n |-> mBuffer[mHead + i]]
        /\ mHead' = IF mHead + n >= Size THEN 0 ELSE mHead + n
        /\ mStoredBytes' = mStoredBytes - n
        /\ length' = length - n
        /\ totalRead' = totalRead + n
    /\ UNCHANGED <<mBuffer, mOpen, owner, waitSet, producerVars, pcC, block,
                   wasFull, sent>>

(* Mutant of ReadReturn: the producer is notified once the queue is empty. *)
ReadReturnLateNotify ==
    /\ pcC = "copy" /\ (length = 0 \/ mStoredBytes = 0)
    /\ NotifyIf(wasFull /\ mStoredBytes = 0)
    /\ pcC' = "idle"
    /\ owner' = "none"
    /\ UNCHANGED <<fields, producerVars, length, block, wasFull, totalRead,
                   sent, received>>

ReadReturn ==
    /\ pcC = "copy" /\ (length = 0 \/ mStoredBytes = 0)
    /\ NotifyIf(wasFull)
    /\ pcC' = "idle"
    /\ owner' = "none"
    /\ UNCHANGED <<fields, producerVars, length, block, wasFull, totalRead,
                   sent, received>>

-----------------------------------------------------------------------------

Write == WriteWait \/ WriteClosed \/ WriteBegin \/ WriteCopy \/ WriteCopied
         \/ WriteReturn

Read == ReadWait \/ ReadEmpty \/ ReadClosed \/ ReadBegin \/ ReadCopy
        \/ ReadReturn

Next ==
    \/ Close
    \/ \E t \in Threads : Wakeup(t)
    \/ \E n \in 1..MaxWrite : WriteCall(n)
    \/ Write
    \/ \E n \in 1..MaxRead, b \in BOOLEAN : ReadCall(n, b)
    \/ Read

Spec == Init /\ [][Next]_vars

(* Both threads are scheduled while they can run, and the consumer, like   *)
(* the thread that forwards keyboard input, keeps calling read().  Nobody  *)
(* has to call write() or close().                                         *)
Fairness ==
    /\ WF_vars(Write)
    /\ WF_vars(Read)
    /\ WF_vars(\E n \in 1..MaxRead, b \in BOOLEAN : ReadCall(n, b))

FairSpec == Spec /\ Fairness

-----------------------------------------------------------------------------
(* Properties                                                              *)

(* Every variable has the values its declaration says. *)
TypeOK ==
    /\ mBuffer \in [1..Size -> Nat]
    /\ mHead \in 0..(Size - 1)
    /\ mStoredBytes \in 0..Size
    /\ mOpen \in BOOLEAN
    /\ owner \in Threads \union {"none"}
    /\ waitSet \in SUBSET Threads
    /\ pcP \in {"idle", "loop", "copy"}
    /\ lengthToWrite \in Nat /\ toWrite \in Nat
    /\ wasEmpty \in BOOLEAN
    /\ wrote \in {"none", "true", "false"}
    /\ asked \in Nat
    /\ pcC \in {"idle", "loop", "copy"}
    /\ length \in Nat
    /\ block \in BOOLEAN /\ wasFull \in BOOLEAN
    /\ totalRead \in Nat \union {-1}
    /\ sent \in Nat
    /\ received \in Seq(Nat)

(* The slot of the ring that holds the k-th stored byte, from 0. *)
Slot(k) == IF mHead + k >= Size THEN mHead + k - Size ELSE mHead + k

(* The consumer has been given the stream's bytes in order, each once, and *)
(* the ring holds exactly the ones that follow, whatever the wrap-around   *)
(* and the partial writes and reads: read() and write() never lose,        *)
(* duplicate, reorder or overwrite a byte.                                 *)
Fifo ==
    /\ sent = Len(received) + mStoredBytes
    /\ \A i \in 1..Len(received) : received[i] = i
    /\ \A k \in 0..(mStoredBytes - 1) :
          mBuffer[Slot(k) + 1] = Len(received) + k + 1

(* Whenever the monitor is free, a waiting thread has a reason to wait:    *)
(* the producer a full open queue, the consumer an empty open one.  This   *)
(* is what notifying only on wasFull and on wasEmpty has to guarantee.     *)
NoLostWakeup ==
    owner = "none" =>
        /\ "producer" \in waitSet => mOpen /\ mStoredBytes = Size
        /\ "consumer" \in waitSet => mOpen /\ mStoredBytes = 0

(* The two threads are never both waiting, so that notify(), which wakes   *)
(* one thread of the object's wait set, always wakes the right one.        *)
OneWaiter == waitSet # Threads

(* write() "Returns whether the output was totally written, false if it    *)
(* was closed before": true only when every byte asked for is in the       *)
(* queue, false only once the queue is closed and some byte is not.        *)
WriteResult ==
    /\ wrote = "true" => sent = asked
    /\ wrote = "false" => ~mOpen /\ sent < asked

(* The stored bytes, oldest first. *)
ring == [k \in 1..mStoredBytes |-> mBuffer[Slot(k - 1) + 1]]

Channel == INSTANCE ByteChannel WITH queue <- ring, open <- mOpen

(* The ring buffer with its monitor is a closable bounded FIFO channel:    *)
(* each run copied by write() or read() is a put or a get at the channel's *)
(* ends while it is open, and every other step is invisible.               *)
IsChannel == Channel!Spec

(* close() gets both threads out of read() and write().                    *)
CloseReleases == ~mOpen ~> (pcP = "idle" /\ waitSet = {})

(* Every byte accepted by write() reaches the consumer unless the queue is *)
(* closed.                                                                 *)
Delivered ==
    \A n \in 1..StreamLength : (sent >= n) ~> (Len(received) >= n \/ ~mOpen)
=============================================================================
