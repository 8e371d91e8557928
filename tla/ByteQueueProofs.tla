-------------------------- MODULE ByteQueueProofs --------------------------
(***************************************************************************)
(* For every capacity, every length of the calls and every stream: the     *)
(* ring buffer is a FIFO, the single notify() never wakes the wrong thread *)
(* or leaves one waiting without a reason, and write() reports its outcome *)
(* truthfully.                                                             *)
(***************************************************************************)
EXTENDS ByteQueue, SequenceTheorems, TLAPS

(* Who is inside the monitor, and what a waiting thread is waiting for: a  *)
(* waiting producer sees a full queue, unless the consumer is inside and   *)
(* will notify it on its way out (wasFull); dually for the consumer.       *)
MonitorInv ==
    /\ (owner = "consumer") <=> (pcC = "copy")
    /\ owner = "producer" => pcP \in {"loop", "copy"} /\ "producer" \notin waitSet
    /\ pcP = "copy" => owner = "producer" /\ toWrite + mStoredBytes <= Size
    /\ (pcP = "copy" \/ pcC = "copy") => mOpen
    /\ pcP # "copy" => toWrite = 0
    /\ "producer" \in waitSet =>
          /\ pcP = "loop" /\ mOpen /\ lengthToWrite > 0
          /\ IF owner = "consumer" THEN wasFull ELSE mStoredBytes = Size
    /\ "consumer" \in waitSet =>
          /\ pcC = "loop" /\ mOpen
          /\ IF pcP = "copy" THEN wasEmpty ELSE mStoredBytes = 0

(* How far the current write() has got. *)
ProgressInv ==
    /\ pcP # "idle" => wrote = "none" /\ sent + toWrite + lengthToWrite = asked
    /\ WriteResult

IInv == TypeOK /\ MonitorInv /\ ProgressInv /\ Fifo

(* MinOf is one of its arguments and below both. *)
LEMMA MinOfFacts ==
    ASSUME NEW a \in Int, NEW b \in Int
    PROVE  /\ MinOf(a, b) \in {a, b}
           /\ MinOf(a, b) <= a /\ MinOf(a, b) <= b
BY DEF MinOf

(* notify() removes at most one thread, and the only one there is. *)
LEMMA NotifyFacts ==
    ASSUME waitSet \in SUBSET Threads, Notify
    PROVE  /\ waitSet' \in SUBSET waitSet
           /\ \A t \in Threads : waitSet \subseteq {t} => waitSet' = {}
BY Zenon DEF Notify, Threads

(* The empty queue with nobody in it satisfies the invariant.              *)
LEMMA InitIInv == Init => IInv
<1> SUFFICES ASSUME Init PROVE IInv
  OBVIOUS
<1>1. TypeOK
  <2>1. mBuffer \in [1..Size -> Nat] /\ mHead \in 0..(Size - 1)
        /\ mStoredBytes \in 0..Size
    BY SizeAssumption DEF Init
  <2>2. received \in Seq(Nat)
    BY DEF Init
  <2>3. waitSet \in SUBSET Threads
    BY Zenon DEF Init, Threads
  <2> QED
    BY <2>1, <2>2, <2>3, Zenon DEF Init, TypeOK, Threads
<1>2. MonitorInv
  BY SizeAssumption, Zenon DEF Init, MonitorInv
<1>3. ProgressInv
  BY Zenon DEF Init, ProgressInv, WriteResult
<1>4. Fifo
  <2>1. Len(received) = 0
    BY Zenon DEF Init
  <2> QED
    BY <2>1 DEF Init, Fifo
<1> QED
  BY <1>1, <1>2, <1>3, <1>4, Zenon DEF IInv

(* A step that touches neither the ring nor the streams preserves Fifo. *)
LEMMA FifoStable ==
    ASSUME Fifo, UNCHANGED <<mBuffer, mHead, mStoredBytes, sent, received>>
    PROVE  Fifo'
BY Zenon DEF Fifo, Slot

(* A thread that wakes up by itself only leaves the wait set.              *)
LEMMA WakeupIInv == ASSUME IInv, NEW t \in Threads, Wakeup(t) PROVE IInv'
<1> USE SizeAssumption DEF IInv
<1>1. TypeOK'
  BY ZenonT(60) DEF TypeOK, Wakeup, fields, producerVars, consumerVars
<1>2. MonitorInv'
  BY ZenonT(60) DEF MonitorInv, Wakeup, fields, producerVars, consumerVars
<1>3. ProgressInv'
  BY ZenonT(60) DEF ProgressInv, WriteResult, Wakeup, fields, producerVars
<1>4. Fifo'
  BY FifoStable, Zenon DEF Wakeup, fields
<1> QED
  BY <1>1, <1>2, <1>3, <1>4, Zenon

(* There is one thread at most to notify of the closing, and it is.        *)
LEMMA CloseIInv == ASSUME IInv, Close PROVE IInv'
<1> USE SizeAssumption DEF IInv
<1>0. waitSet' \in SUBSET waitSet /\ waitSet' = {}
  <2>1. waitSet = {} \/ waitSet = {"producer"} \/ waitSet = {"consumer"}
    BY ZenonT(60) DEF MonitorInv, TypeOK, Threads, Close
  <2> QED
    BY <2>1, NotifyFacts, ZenonT(60) DEF TypeOK, Close, Threads
<1>1. TypeOK'
  BY <1>0, ZenonT(60) DEF TypeOK, Close, producerVars, consumerVars
<1>2. MonitorInv'
  BY <1>0, ZenonT(60) DEF MonitorInv, Close, producerVars, consumerVars
<1>3. ProgressInv'
  BY ZenonT(60) DEF ProgressInv, WriteResult, Close, producerVars
<1>4. Fifo'
  BY FifoStable, Zenon DEF Close
<1> QED
  BY <1>1, <1>2, <1>3, <1>4, Zenon

-----------------------------------------------------------------------------
(* write() *)

(* A call of write() notes what it was asked for.                          *)
LEMMA WriteCallIInv ==
    ASSUME IInv, NEW n \in 1..MaxWrite, WriteCall(n) PROVE IInv'
<1> USE SizeAssumption, BoundAssumption DEF IInv
<1>1. TypeOK'
  BY DEF TypeOK, WriteCall, fields, producerVars, consumerVars, Threads
<1>2. MonitorInv'
  BY ZenonT(60) DEF TypeOK, MonitorInv, WriteCall, Enters, fields,
     producerVars, consumerVars
<1>3. ProgressInv'
  BY DEF TypeOK, ProgressInv, MonitorInv, WriteResult, WriteCall, fields,
     producerVars
<1>4. Fifo'
  BY FifoStable, Zenon DEF WriteCall, fields
<1> QED
  BY <1>1, <1>2, <1>3, <1>4, Zenon

(* The producer waits for a full queue.                                    *)
LEMMA WriteWaitIInv == ASSUME IInv, WriteWait PROVE IInv'
<1> USE SizeAssumption, BoundAssumption DEF IInv
<1>1. TypeOK'
  BY ZenonT(60) DEF TypeOK, WriteWait, fields, producerVars, consumerVars,
     Threads
<1>2. MonitorInv'
  BY ZenonT(60) DEF TypeOK, MonitorInv, WriteWait, Enters, fields,
     producerVars, consumerVars
<1>3. ProgressInv'
  BY ZenonT(60) DEF TypeOK, ProgressInv, MonitorInv, WriteResult, WriteWait,
     fields, producerVars
<1>4. Fifo'
  BY FifoStable, Zenon DEF WriteWait, fields
<1> QED
  BY <1>1, <1>2, <1>3, <1>4, Zenon

(* write() gives up on a closed queue, with something left to write.       *)
LEMMA WriteClosedIInv == ASSUME IInv, WriteClosed PROVE IInv'
<1> USE SizeAssumption, BoundAssumption DEF IInv
<1>1. TypeOK'
  BY ZenonT(60) DEF TypeOK, WriteClosed, fields, producerVars, consumerVars,
     Threads
<1>2. MonitorInv'
  BY ZenonT(60) DEF TypeOK, MonitorInv, WriteClosed, Enters, fields,
     producerVars, consumerVars
<1>3. ProgressInv'
  BY DEF TypeOK, ProgressInv, MonitorInv, WriteResult, WriteClosed, fields,
     producerVars
<1>4. Fifo'
  BY FifoStable, Zenon DEF WriteClosed, fields
<1> QED
  BY <1>1, <1>2, <1>3, <1>4, Zenon

(* A round of write() takes no more than there is room for.                *)
LEMMA WriteBeginIInv == ASSUME IInv, WriteBegin PROVE IInv'
<1> USE SizeAssumption, BoundAssumption DEF IInv
<1>0. /\ MinOf(lengthToWrite, Size - mStoredBytes) \in Nat
      /\ MinOf(lengthToWrite, Size - mStoredBytes) <= lengthToWrite
      /\ MinOf(lengthToWrite, Size - mStoredBytes) <= Size - mStoredBytes
  BY DEF MinOf, TypeOK
<1>1. TypeOK'
  BY <1>0 DEF TypeOK, WriteBegin, fields, producerVars, consumerVars, Threads
<1>2. MonitorInv'
  <2>1. /\ pcP = "loop" /\ owner \in {"none", "producer"} /\ mOpen
        /\ pcC # "copy" /\ "producer" \notin waitSet
        /\ "consumer" \in waitSet => pcC = "loop" /\ mStoredBytes = 0
    BY ZenonT(60) DEF MonitorInv, WriteBegin, Enters
  <2>2. toWrite' + mStoredBytes <= Size
    BY <1>0 DEF TypeOK, WriteBegin
  <2>3. mStoredBytes = 0 => wasEmpty'
    BY Zenon DEF WriteBegin
  <2> QED
    BY <2>1, <2>2, <2>3, ZenonT(60) DEF MonitorInv, WriteBegin, fields,
       consumerVars
<1>3. ProgressInv'
  <2>1. /\ sent + lengthToWrite = asked /\ wrote = "none"
        /\ wrote' = "none" /\ asked' = asked /\ sent' = sent /\ pcP' = "copy"
    BY DEF TypeOK, ProgressInv, MonitorInv, WriteBegin
  <2> DEFINE m == MinOf(lengthToWrite, Size - mStoredBytes)
  <2>2. toWrite' = m /\ lengthToWrite' = lengthToWrite - m
    BY Zenon DEF WriteBegin
  <2> HIDE DEF m
  <2>3. m \in Nat
    BY <1>0, Zenon DEF m
  <2>4. sent + toWrite' + lengthToWrite' = asked
    BY <2>1, <2>2, <2>3 DEF TypeOK
  <2> QED
    BY <2>1, <2>4, ZenonT(60) DEF ProgressInv, WriteResult
<1>4. Fifo'
  BY FifoStable, Zenon DEF WriteBegin, fields
<1> QED
  BY <1>1, <1>2, <1>3, <1>4, Zenon

(* After a round that found the queue empty the consumer is notified.      *)
LEMMA WriteCopiedIInv == ASSUME IInv, WriteCopied PROVE IInv'
<1> USE SizeAssumption, BoundAssumption DEF IInv
<1>0. waitSet' \in SUBSET waitSet /\ (wasEmpty => waitSet' = {})
  <2>1. waitSet \subseteq {"consumer"}
    BY ZenonT(60) DEF MonitorInv, TypeOK, Threads, WriteCopied
  <2> QED
    BY <2>1, NotifyFacts, ZenonT(60) DEF TypeOK, WriteCopied, NotifyIf,
       Threads
<1>1. TypeOK'
  BY <1>0, ZenonT(60) DEF TypeOK, WriteCopied, fields, producerVars,
     consumerVars, Threads
<1>2. MonitorInv'
  BY <1>0, ZenonT(60) DEF TypeOK, MonitorInv, WriteCopied, Enters, fields,
     producerVars, consumerVars
<1>3. ProgressInv'
  BY <1>0, ZenonT(60) DEF TypeOK, ProgressInv, MonitorInv, WriteResult,
     WriteCopied, fields, producerVars
<1>4. Fifo'
  BY FifoStable, Zenon DEF WriteCopied, fields
<1> QED
  BY <1>1, <1>2, <1>3, <1>4, Zenon

(* write() returns true with nothing left to write.                        *)
LEMMA WriteReturnIInv == ASSUME IInv, WriteReturn PROVE IInv'
<1> USE SizeAssumption, BoundAssumption DEF IInv
<1>1. TypeOK'
  BY ZenonT(60) DEF TypeOK, WriteReturn, fields, producerVars, consumerVars,
     Threads
<1>2. MonitorInv'
  BY ZenonT(60) DEF TypeOK, MonitorInv, WriteReturn, Enters, fields,
     producerVars, consumerVars
<1>3. ProgressInv'
  BY DEF TypeOK, ProgressInv, MonitorInv, WriteResult, WriteReturn, fields,
     producerVars
<1>4. Fifo'
  BY FifoStable, Zenon DEF WriteReturn, fields
<1> QED
  BY <1>1, <1>2, <1>3, <1>4, Zenon

(* One run of write(): the bytes go right behind the stored ones, and over *)
(* none of them.                                                           *)
LEMMA WriteCopyIInv == ASSUME IInv, WriteCopy PROVE IInv'
<1> USE SizeAssumption, BoundAssumption DEF IInv
<1> DEFINE n == MinOf(WriteRun, toWrite)
<1>0. /\ toWrite \in Nat \ {0} /\ toWrite + mStoredBytes <= Size
      /\ mHead \in 0..(Size - 1) /\ mStoredBytes \in 0..Size
      /\ pcP = "copy" /\ owner = "producer"
  BY DEF TypeOK, MonitorInv, WriteCopy
<1>1. /\ tail \in 0..(Size - 1)
      /\ tail + WriteRun <= Size
      /\ WriteRun \in Nat \ {0}
      /\ mHead + mStoredBytes >= Size => tail = mHead + mStoredBytes - Size
      /\ mHead + mStoredBytes < Size => tail = mHead + mStoredBytes
      /\ mHead + mStoredBytes >= Size => tail + WriteRun = mHead
  BY <1>0 DEF tail, WriteRun
<1>2. n \in Nat \ {0} /\ n <= toWrite /\ n <= WriteRun
  BY <1>0, <1>1 DEF MinOf
<1>3. /\ mBuffer' = [i \in 1..Size |->
                        IF i \in (tail + 1)..(tail + n)
                        THEN sent + (i - tail) ELSE mBuffer[i]]
      /\ toWrite' = toWrite - n
      /\ mStoredBytes' = mStoredBytes + n
      /\ sent' = sent + n
      /\ UNCHANGED <<mHead, mOpen, owner, waitSet, pcP, lengthToWrite, wasEmpty,
                     wrote, asked, consumerVars, received>>
  BY Zenon DEF WriteCopy
<1> HIDE DEF n
<1>4. TypeOK'
  <2>1. mBuffer' \in [1..Size -> Nat]
    BY <1>1, <1>2, <1>3 DEF TypeOK
  <2> QED
    BY <1>0, <1>2, <1>3, <2>1 DEF TypeOK, consumerVars
<1>5. MonitorInv'
  BY <1>0, <1>2, <1>3 DEF TypeOK, MonitorInv, consumerVars
<1>6. ProgressInv'
  BY <1>0, <1>2, <1>3 DEF TypeOK, ProgressInv, WriteResult
<1>7. Fifo'
  <2>1. sent' = Len(received') + mStoredBytes' /\ Len(received) \in Nat
    BY <1>2, <1>3 DEF Fifo, TypeOK
  <2>2. \A i \in 1..Len(received') : received'[i] = i
    BY <1>3, Zenon DEF Fifo
  <2>3. ASSUME NEW k \in 0..(mStoredBytes' - 1)
        PROVE  mBuffer'[Slot(k)' + 1] = Len(received') + k + 1
    <3>0. /\ Slot(k)' = Slot(k)
          /\ Slot(k) \in 0..(Size - 1) /\ Slot(k) + 1 \in 1..Size
      BY <1>0, <1>2, <1>3 DEF Slot
    <3>1. CASE k < mStoredBytes
      <4>1. Slot(k) + 1 \notin (tail + 1)..(tail + n)
        BY <1>0, <1>1, <1>2, <3>1 DEF Slot
      <4>2. mBuffer'[Slot(k) + 1] = mBuffer[Slot(k) + 1]
        BY <1>3, <3>0, <4>1, Zenon
      <4>3. k \in 0..(mStoredBytes - 1)
        BY <1>0, <1>2, <1>3, <3>1
      <4>4. mBuffer[Slot(k) + 1] = Len(received) + k + 1
        BY <4>3, Zenon DEF Fifo
      <4> QED
        BY <1>3, <3>0, <4>2, <4>4, Zenon
    <3>2. CASE k >= mStoredBytes
      <4>1. k - mStoredBytes \in 0..(n - 1)
        BY <1>0, <1>2, <1>3, <3>2
      <4>2. Slot(k) = tail + (k - mStoredBytes)
        BY <1>0, <1>1, <1>2, <4>1 DEF Slot
      <4>3. /\ Slot(k) + 1 \in (tail + 1)..(tail + n)
            /\ (Slot(k) + 1) - tail = k - mStoredBytes + 1
        BY <1>0, <1>1, <1>2, <4>1, <4>2
      <4>4. mBuffer'[Slot(k) + 1] = sent + ((Slot(k) + 1) - tail)
        BY <1>3, <3>0, <4>3, Zenon
      <4>5. sent = Len(received) + mStoredBytes /\ k \in Int
        BY <1>0, <1>2, <1>3 DEF Fifo
      <4> QED
        BY <1>0, <1>3, <3>0, <4>3, <4>4, <4>5, <2>1
    <3> QED
      BY <1>0, <1>2, <1>3, <3>1, <3>2
  <2> QED
    BY <2>1, <2>2, <2>3, Zenon DEF Fifo
<1> QED
  BY <1>4, <1>5, <1>6, <1>7, Zenon

-----------------------------------------------------------------------------
(* read() *)

(* A call of read() changes nothing that is shared.                        *)
LEMMA ReadCallIInv ==
    ASSUME IInv, NEW n \in 1..MaxRead, NEW b \in BOOLEAN, ReadCall(n, b)
    PROVE  IInv'
<1> USE SizeAssumption, BoundAssumption DEF IInv
<1>1. TypeOK'
  BY DEF TypeOK, ReadCall, fields, producerVars, consumerVars, Threads
<1>2. MonitorInv'
  BY ZenonT(60) DEF TypeOK, MonitorInv, ReadCall, Enters, fields,
     producerVars, consumerVars
<1>3. ProgressInv'
  BY ZenonT(60) DEF TypeOK, ProgressInv, MonitorInv, WriteResult, ReadCall,
     fields, producerVars
<1>4. Fifo'
  BY FifoStable, Zenon DEF ReadCall, fields
<1> QED
  BY <1>1, <1>2, <1>3, <1>4, Zenon

(* The consumer waits for an empty queue.                                  *)
LEMMA ReadWaitIInv == ASSUME IInv, ReadWait PROVE IInv'
<1> USE SizeAssumption, BoundAssumption DEF IInv
<1>1. TypeOK'
  BY ZenonT(60) DEF TypeOK, ReadWait, fields, producerVars, consumerVars,
     Threads
<1>2. MonitorInv'
  BY ZenonT(60) DEF TypeOK, MonitorInv, ReadWait, Enters, fields,
     producerVars, consumerVars
<1>3. ProgressInv'
  BY ZenonT(60) DEF TypeOK, ProgressInv, MonitorInv, WriteResult, ReadWait,
     fields, producerVars
<1>4. Fifo'
  BY FifoStable, Zenon DEF ReadWait, fields
<1> QED
  BY <1>1, <1>2, <1>3, <1>4, Zenon

(* A read() that does not block returns from an empty queue.               *)
LEMMA ReadEmptyIInv == ASSUME IInv, ReadEmpty PROVE IInv'
<1> USE SizeAssumption, BoundAssumption DEF IInv
<1>1. TypeOK'
  BY ZenonT(60) DEF TypeOK, ReadEmpty, fields, producerVars, consumerVars,
     Threads
<1>2. MonitorInv'
  BY ZenonT(60) DEF TypeOK, MonitorInv, ReadEmpty, Enters, fields,
     producerVars, consumerVars
<1>3. ProgressInv'
  BY ZenonT(60) DEF TypeOK, ProgressInv, MonitorInv, WriteResult, ReadEmpty,
     fields, producerVars
<1>4. Fifo'
  BY FifoStable, Zenon DEF ReadEmpty, fields
<1> QED
  BY <1>1, <1>2, <1>3, <1>4, Zenon

(* read() gives up on a closed queue.                                      *)
LEMMA ReadClosedIInv == ASSUME IInv, ReadClosed PROVE IInv'
<1> USE SizeAssumption, BoundAssumption DEF IInv
<1>1. TypeOK'
  BY ZenonT(60) DEF TypeOK, ReadClosed, fields, producerVars, consumerVars,
     Threads
<1>2. MonitorInv'
  BY ZenonT(60) DEF TypeOK, MonitorInv, ReadClosed, Enters, fields,
     producerVars, consumerVars
<1>3. ProgressInv'
  BY ZenonT(60) DEF TypeOK, ProgressInv, MonitorInv, WriteResult, ReadClosed,
     fields, producerVars
<1>4. Fifo'
  BY FifoStable, Zenon DEF ReadClosed, fields
<1> QED
  BY <1>1, <1>2, <1>3, <1>4, Zenon

(* read() enters a queue with something in it.                             *)
LEMMA ReadBeginIInv == ASSUME IInv, ReadBegin PROVE IInv'
<1> USE SizeAssumption, BoundAssumption DEF IInv
<1>1. TypeOK'
  BY ZenonT(60) DEF TypeOK, ReadBegin, fields, producerVars, consumerVars,
     Threads
<1>2. MonitorInv'
  BY ZenonT(60) DEF TypeOK, MonitorInv, ReadBegin, Enters, fields,
     producerVars, consumerVars
<1>3. ProgressInv'
  BY ZenonT(60) DEF TypeOK, ProgressInv, MonitorInv, WriteResult, ReadBegin,
     fields, producerVars
<1>4. Fifo'
  BY FifoStable, Zenon DEF ReadBegin, fields
<1> QED
  BY <1>1, <1>2, <1>3, <1>4, Zenon

(* After a read() that found the queue full the producer is notified.      *)
LEMMA ReadReturnIInv == ASSUME IInv, ReadReturn PROVE IInv'
<1> USE SizeAssumption, BoundAssumption DEF IInv
<1>0. waitSet' \in SUBSET waitSet /\ (wasFull => waitSet' = {})
  <2>1. waitSet \subseteq {"producer"}
    BY ZenonT(60) DEF MonitorInv, TypeOK, Threads, ReadReturn
  <2> QED
    BY <2>1, NotifyFacts, ZenonT(60) DEF TypeOK, ReadReturn, NotifyIf, Threads
<1>1. TypeOK'
  BY <1>0, ZenonT(60) DEF TypeOK, ReadReturn, fields, producerVars,
     consumerVars, Threads
<1>2. MonitorInv'
  BY <1>0, ZenonT(60) DEF TypeOK, MonitorInv, ReadReturn, Enters, fields,
     producerVars, consumerVars
<1>3. ProgressInv'
  BY <1>0, ZenonT(60) DEF TypeOK, ProgressInv, MonitorInv, WriteResult,
     ReadReturn, fields, producerVars
<1>4. Fifo'
  BY FifoStable, Zenon DEF ReadReturn, fields
<1> QED
  BY <1>1, <1>2, <1>3, <1>4, Zenon

(* One run of read(): the oldest bytes are appended to what the consumer   *)
(* has, and the ring starts right behind them.                             *)
LEMMA ReadCopyIInv == ASSUME IInv, ReadCopy PROVE IInv'
<1> USE SizeAssumption, BoundAssumption DEF IInv
<1> DEFINE n == MinOf(length, MinOf(Size - mHead, mStoredBytes))
           run == [i \in 1..n |-> mBuffer[mHead + i]]
<1>0. /\ length \in Nat \ {0} /\ mHead \in 0..(Size - 1)
      /\ mStoredBytes \in 1..Size
      /\ pcC = "copy" /\ owner = "consumer" /\ pcP # "copy"
  BY DEF TypeOK, MonitorInv, ReadCopy
<1>1. n \in Nat \ {0} /\ n <= length /\ n <= Size - mHead /\ n <= mStoredBytes
  BY <1>0 DEF MinOf
<1>2. /\ received' = received \o run
      /\ mHead' = IF mHead + n >= Size THEN 0 ELSE mHead + n
      /\ mStoredBytes' = mStoredBytes - n
      /\ length' = length - n
      /\ totalRead' = totalRead + n
      /\ UNCHANGED <<mBuffer, mOpen, owner, waitSet, producerVars, pcC, block,
                     wasFull, sent>>
  BY Zenon DEF ReadCopy
<1> HIDE DEF n
<1>3. run \in Seq(Nat) /\ Len(run) = n
  <2>1. \A i \in 1..n : mHead + i \in 1..Size
    BY <1>0, <1>1
  <2>2. \A i \in 1..n : mBuffer[mHead + i] \in Nat
    BY <2>1, ZenonT(60) DEF TypeOK
  <2> QED
    BY <1>1, <2>2
<1> HIDE DEF run
<1>4. /\ Len(received) \in Nat
      /\ received' \in Seq(Nat)
      /\ Len(received') = Len(received) + n
      /\ \A i \in 1..Len(received) : received'[i] = received[i]
      /\ \A i \in 1..n : received'[Len(received) + i] = run[i]
  <2>1. received \in Seq(Nat)
    BY ZenonT(60) DEF TypeOK
  <2>2. /\ received \o run \in Seq(Nat)
        /\ Len(received \o run) = Len(received) + Len(run)
        /\ \A i \in 1..(Len(received) + Len(run)) : (received \o run)[i] =
              IF i <= Len(received) THEN received[i] ELSE run[i - Len(received)]
    BY <1>3, <2>1, ConcatProperties, Zenon
  <2>3. Len(received) \in Nat
    BY <2>1
  <2> QED
    BY <1>1, <1>2, <1>3, <2>2, <2>3
<1>5. TypeOK'
  <2>1. mHead' \in 0..(Size - 1) /\ mStoredBytes' \in 0..Size
    BY <1>0, <1>1, <1>2
  <2>2. length' \in Nat /\ totalRead' \in Nat \cup {-1}
    <3>1. totalRead \in Nat \cup {-1}
      BY ZenonT(60) DEF TypeOK
    <3> QED
      BY <3>1, <1>0, <1>1, <1>2
  <2> QED
    BY <1>2, <1>4, <2>1, <2>2, ZenonT(60) DEF TypeOK, producerVars
<1>6. MonitorInv'
  BY <1>0, <1>1, <1>2, ZenonT(60) DEF TypeOK, MonitorInv, producerVars
<1>7. ProgressInv'
  BY <1>2, ZenonT(60) DEF ProgressInv, WriteResult, producerVars
<1>8. Fifo'
  <2>1. sent' = Len(received') + mStoredBytes'
    BY <1>0, <1>1, <1>2, <1>4 DEF Fifo, TypeOK
  <2>2. ASSUME NEW i \in 1..Len(received')
        PROVE  received'[i] = i
    <3>1. CASE i <= Len(received)
      <4>1. i \in 1..Len(received)
        BY <1>1, <1>4, <3>1
      <4> QED
        BY <1>4, <4>1, Zenon DEF Fifo
    <3>2. CASE i > Len(received)
      <4> DEFINE j == i - Len(received)
      <4>1. j \in 1..n /\ i = Len(received) + j
        BY <1>1, <1>4, <3>2
      <4>2. received'[i] = mBuffer[mHead + j]
        BY <1>4, <4>1, Zenon DEF run
      <4>3. j - 1 \in 0..(mStoredBytes - 1) /\ Slot(j - 1) + 1 = mHead + j
        BY <1>0, <1>1, <4>1 DEF Slot
      <4>4. mBuffer[Slot(j - 1) + 1] = Len(received) + (j - 1) + 1
        BY <4>3, Zenon DEF Fifo
      <4> QED
        BY <1>4, <4>1, <4>2, <4>3, <4>4
    <3> QED
      BY <1>1, <1>4, <3>1, <3>2
  <2>3. ASSUME NEW k \in 0..(mStoredBytes' - 1)
        PROVE  mBuffer'[Slot(k)' + 1] = Len(received') + k + 1
    <3>1. k + n \in 0..(mStoredBytes - 1) /\ Slot(k)' = Slot(k + n)
      BY <1>0, <1>1, <1>2 DEF Slot
    <3>2. mBuffer[Slot(k + n) + 1] = Len(received) + (k + n) + 1
      BY <3>1, Zenon DEF Fifo
    <3> QED
      BY <1>1, <1>2, <1>4, <3>1, <3>2
  <2> QED
    BY <2>1, <2>2, <2>3, Zenon DEF Fifo
<1> QED
  BY <1>5, <1>6, <1>7, <1>8, Zenon

-----------------------------------------------------------------------------

(* Every step keeps the invariant.                                         *)
LEMMA NextIInv == IInv /\ [Next]_vars => IInv'
<1> SUFFICES ASSUME IInv, [Next]_vars PROVE IInv'
  OBVIOUS
<1>1. CASE UNCHANGED vars
  BY <1>1, FifoStable DEF IInv, TypeOK, MonitorInv, ProgressInv, WriteResult,
     vars, fields, producerVars, consumerVars
<1>2. CASE Close
  BY <1>2, CloseIInv, Zenon
<1>3. CASE \E t \in Threads : Wakeup(t)
  BY <1>3, WakeupIInv, Zenon
<1>4. CASE \E n \in 1..MaxWrite : WriteCall(n)
  BY <1>4, WriteCallIInv, Zenon
<1>5. CASE Write
  BY <1>5, WriteWaitIInv, WriteClosedIInv, WriteBeginIInv, WriteCopyIInv,
     WriteCopiedIInv, WriteReturnIInv, Zenon DEF Write
<1>6. CASE \E n \in 1..MaxRead, b \in BOOLEAN : ReadCall(n, b)
  BY <1>6, ReadCallIInv, Zenon
<1>7. CASE Read
  BY <1>7, ReadWaitIInv, ReadEmptyIInv, ReadClosedIInv, ReadBeginIInv,
     ReadCopyIInv, ReadReturnIInv, Zenon DEF Read
<1> QED
  BY <1>1, <1>2, <1>3, <1>4, <1>5, <1>6, <1>7, Zenon DEF Next

(* Every reachable state of the queue satisfies the inductive invariant:   *)
(* the fields, the monitor and the two calls stay consistent.              *)
THEOREM Inductive == Spec => []IInv
BY InitIInv, NextIInv, PTL DEF Spec

(* The fields and locals of ByteQueue keep their types: in particular the  *)
(* ring indices never leave the array.                                     *)
THEOREM TypeCorrect == Spec => []TypeOK
<1>1. IInv => TypeOK
  BY Zenon DEF IInv
<1> QED
  BY <1>1, Inductive, PTL

(* read() hands out the bytes given to write() in order, each once, for    *)
(* every size of the ring and every way the calls cut the stream.          *)
THEOREM FifoCorrect == Spec => []Fifo
<1>1. IInv => Fifo
  BY Zenon DEF IInv
<1> QED
  BY <1>1, Inductive, PTL

(* A thread waits only for a full, or an empty, open queue. *)
THEOREM WakeupsCorrect == Spec => []NoLostWakeup
<1>1. IInv => NoLostWakeup
  BY Zenon DEF IInv, TypeOK, MonitorInv, NoLostWakeup
<1> QED
  BY <1>1, Inductive, PTL

(* notify() is enough: the wait set never holds both threads. *)
THEOREM NotifySuffices == Spec => []OneWaiter
<1>1. IInv => OneWaiter
  BY SizeAssumption, Zenon DEF IInv, TypeOK, MonitorInv, OneWaiter, Threads
<1> QED
  BY <1>1, Inductive, PTL

(* write() returns true exactly when all was written. *)
THEOREM WriteResultCorrect == Spec => []WriteResult
<1>1. IInv => WriteResult
  BY Zenon DEF IInv, ProgressInv
<1> QED
  BY <1>1, Inductive, PTL

-----------------------------------------------------------------------------
(* Refinement of ByteChannel.                                              *)

(* By Fifo, the stored bytes are the stream's next ones. *)
RingOK ==
    /\ ring \in Seq(Nat)
    /\ Len(ring) = mStoredBytes
    /\ \A k \in 1..mStoredBytes : ring[k] = Len(received) + k
    /\ Len(received) \in Nat

(* The invariant says which slots of the ring hold the queue.              *)
LEMMA RingFacts == IInv => RingOK
<1> SUFFICES ASSUME IInv PROVE RingOK
  OBVIOUS
<1>1. Len(received) \in Nat /\ mStoredBytes \in Nat
  BY DEF IInv, TypeOK
<1>2. \A k \in 1..mStoredBytes : mBuffer[Slot(k - 1) + 1] = Len(received) + k
  <2> TAKE k \in 1..mStoredBytes
  <2>1. k - 1 \in 0..(mStoredBytes - 1)
    BY <1>1
  <2>2. mBuffer[Slot(k - 1) + 1] = Len(received) + (k - 1) + 1
    BY <2>1, Zenon DEF IInv, Fifo
  <2> QED
    BY <1>1, <2>2
<1>3. \A k \in 1..mStoredBytes : mBuffer[Slot(k - 1) + 1] \in Nat
  BY <1>1, <1>2
<1>4. ring \in Seq(Nat) /\ Len(ring) = mStoredBytes
  BY <1>1, <1>3 DEF ring
<1>5. \A k \in 1..mStoredBytes : ring[k] = Len(received) + k
  BY <1>2, Zenon DEF ring
<1> QED
  BY <1>1, <1>4, <1>5, Zenon DEF RingOK

(* A run of write() puts its bytes into the channel. *)
LEMMA WriteCopyPuts ==
    ASSUME IInv, WriteCopy
    PROVE  \E n \in 1..Size : Channel!Put(n)
<1> DEFINE n == MinOf(WriteRun, toWrite)
           segment == [i \in 1..n |-> sent + i]
<1>1. IInv'
  BY WriteCopyIInv, Zenon
<1>2. /\ toWrite \in Nat \ {0} /\ toWrite + mStoredBytes <= Size
      /\ mHead \in 0..(Size - 1) /\ mStoredBytes \in 0..Size
      /\ sent \in Nat /\ sent = Len(received) + mStoredBytes /\ mOpen
  BY DEF IInv, TypeOK, MonitorInv, Fifo, WriteCopy
<1>3. n \in 1..Size /\ mStoredBytes + n <= Size
  BY <1>2, SizeAssumption DEF tail, WriteRun, MinOf
<1>4. /\ mStoredBytes' = mStoredBytes + n
      /\ sent' = sent + n
      /\ received' = received /\ mOpen' = mOpen
  BY Zenon DEF WriteCopy
<1> HIDE DEF n
<1>5. segment \in Seq(Nat) /\ Len(segment) = n
      /\ \A i \in 1..n : segment[i] = sent + i
  BY <1>2, <1>3
<1> HIDE DEF segment
<1>6. ring' = ring \o segment
  <2>1. /\ ring \in Seq(Nat) /\ Len(ring) = mStoredBytes
        /\ \A k \in 1..mStoredBytes : ring[k] = Len(received) + k
        /\ Len(received) \in Nat
    BY RingFacts, Zenon DEF RingOK
  <2>2. /\ ring' \in Seq(Nat) /\ Len(ring') = mStoredBytes'
        /\ \A k \in 1..mStoredBytes' : ring'[k] = Len(received') + k
    <3>1. RingOK'
      BY <1>1, RingFacts, PTL
    <3> QED
      BY <3>1, Zenon DEF RingOK
  <2>3. /\ ring \o segment \in Seq(Nat)
        /\ Len(ring \o segment) = Len(ring) + Len(segment)
        /\ \A i \in 1..(Len(ring) + Len(segment)) : (ring \o segment)[i] =
              IF i <= Len(ring) THEN ring[i] ELSE segment[i - Len(ring)]
    BY <1>5, <2>1, ConcatProperties, Zenon
  <2>4. ASSUME NEW i \in 1..Len(ring')
        PROVE  ring'[i] = (ring \o segment)[i]
    <3>1. ring'[i] = Len(received) + i
      BY <1>4, <2>2, Zenon
    <3>2. i \in 1..(mStoredBytes + n)
      BY <1>4, <2>2, Zenon
    <3>3. CASE i <= mStoredBytes
      BY <1>2, <1>5, <2>1, <2>3, <3>1, <3>2, <3>3
    <3>4. CASE i > mStoredBytes
      <4>0. i \in Int /\ mStoredBytes \in Int
        BY <1>2, <3>2
      <4>1. i - mStoredBytes \in 1..n
        BY <1>2, <1>3, <3>2, <3>4
      <4>2. (ring \o segment)[i] = segment[i - mStoredBytes]
        <5>1. ~(i <= mStoredBytes)
          BY <3>4, <4>0
        <5>2. i \in 1..(Len(ring) + Len(segment))
          BY <1>5, <2>1, <3>2, Zenon
        <5> QED
          BY <2>1, <2>3, <5>1, <5>2, Zenon
      <4>3. segment[i - mStoredBytes] = sent + (i - mStoredBytes)
        BY <1>5, <4>1, Zenon
      <4> QED
        BY <1>2, <2>1, <3>1, <4>0, <4>2, <4>3
    <3>5. i <= mStoredBytes \/ i > mStoredBytes
      BY <1>2, <1>3, <3>2, SizeAssumption
    <3> QED
      BY <3>3, <3>4, <3>5, Zenon
  <2>5. Len(ring') = Len(ring \o segment)
    BY <1>4, <1>5, <2>1, <2>2, <2>3, Zenon
  <2> QED
    BY <2>2, <2>3, <2>4, <2>5, SeqEqual, Zenon
<1>7. Len(ring) = mStoredBytes
  BY RingFacts, Zenon DEF RingOK
<1>8. Channel!Put(n)
  BY <1>2, <1>3, <1>4, <1>6, <1>7, Zenon DEF Channel!Put, Channel!Segment,
     segment
<1> QED
  BY <1>3, <1>8, Zenon

(* A run of read() gets its bytes from the channel. *)
LEMMA ReadCopyGets ==
    ASSUME IInv, ReadCopy
    PROVE  \E n \in 1..Size : Channel!Get(n)
<1> DEFINE n == MinOf(length, MinOf(Size - mHead, mStoredBytes))
           run == [i \in 1..n |-> mBuffer[mHead + i]]
<1>1. IInv'
  BY ReadCopyIInv, Zenon
<1>2. /\ length \in Nat \ {0} /\ mHead \in 0..(Size - 1)
      /\ mStoredBytes \in 1..Size /\ mOpen
  BY DEF IInv, TypeOK, MonitorInv, ReadCopy
<1>3. n \in 1..Size /\ n <= mStoredBytes /\ n <= Size - mHead
  BY <1>2, SizeAssumption DEF MinOf
<1>4. /\ mStoredBytes' = mStoredBytes - n
      /\ received' = received \o run
      /\ sent' = sent /\ mOpen' = mOpen
  BY Zenon DEF ReadCopy
<1> HIDE DEF n
<1>5. /\ ring \in Seq(Nat) /\ Len(ring) = mStoredBytes
      /\ \A k \in 1..mStoredBytes : ring[k] = Len(received) + k
      /\ Len(received) \in Nat
  BY RingFacts, Zenon DEF RingOK
<1>6. run = SubSeq(ring, 1, n)
  <2>1. ASSUME NEW i \in 1..n
        PROVE  run[i] = ring[i] /\ run[i] \in Nat
    <3>1. i \in 1..mStoredBytes /\ Slot(i - 1) + 1 = mHead + i
      BY <1>2, <1>3, SizeAssumption DEF Slot
    <3>2. run[i] = ring[i]
      BY <3>1, Zenon DEF ring
    <3> QED
      BY <1>5, <3>1, <3>2
  <2>2. run \in Seq(Nat) /\ Len(run) = n
    BY <1>3, <2>1
  <2>3. \A i \in 1..n : ring[i] \in Nat
    BY <2>1, Zenon
  <2>4. /\ SubSeq(ring, 1, n) \in Seq(Nat)
        /\ Len(SubSeq(ring, 1, n)) = IF 1 <= n THEN n - 1 + 1 ELSE 0
        /\ \A i \in 1..(n - 1 + 1) : SubSeq(ring, 1, n)[i] = ring[1 + i - 1]
    BY <1>3, <2>3, SubSeqProperties
  <2>5. Len(run) = Len(SubSeq(ring, 1, n))
    BY <1>3, <2>2, <2>4
  <2>6. \A i \in 1..Len(run) : run[i] = SubSeq(ring, 1, n)[i]
    <3> TAKE i \in 1..Len(run)
    <3>1. i \in 1..n /\ i \in 1..(n - 1 + 1) /\ 1 + i - 1 = i
      BY <1>3, <2>2
    <3>2. SubSeq(ring, 1, n)[i] = ring[i]
      BY <2>4, <3>1, Zenon
    <3> QED
      BY <2>1, <3>1, <3>2, Zenon
  <2> HIDE DEF run
  <2> QED
    BY <2>2, <2>4, <2>5, <2>6, SeqEqual, Zenon
<1>7. ring' = SubSeq(ring, n + 1, Len(ring))
  <2>1. /\ ring' \in Seq(Nat) /\ Len(ring') = mStoredBytes'
        /\ \A k \in 1..mStoredBytes' : ring'[k] = Len(received') + k
    <3>1. RingOK'
      BY <1>1, RingFacts, PTL
    <3> QED
      BY <3>1, Zenon DEF RingOK
  <2>2. Len(received') = Len(received) + n
    <3>1. sent = Len(received) + mStoredBytes /\ sent' = Len(received') + mStoredBytes'
      BY <1>1, Zenon DEF IInv, Fifo
    <3>2. Len(received') \in Nat
      BY <1>1 DEF IInv, TypeOK
    <3> QED
      BY <1>2, <1>3, <1>4, <1>5, <3>1, <3>2
  <2> DEFINE rest == SubSeq(ring, n + 1, mStoredBytes)
  <2>3. \A i \in (n + 1)..mStoredBytes : ring[i] \in Nat
    BY <1>2, <1>3, <1>5
  <2>4. /\ rest \in Seq(Nat)
        /\ Len(rest) = IF n + 1 <= mStoredBytes THEN mStoredBytes - (n + 1) + 1 ELSE 0
        /\ \A i \in 1..(mStoredBytes - (n + 1) + 1) : rest[i] = ring[n + 1 + i - 1]
    BY <1>2, <1>3, <2>3, SubSeqProperties
  <2> HIDE DEF rest
  <2>5. Len(ring') = Len(rest)
    BY <1>2, <1>3, <1>4, <2>1, <2>4
  <2>6. \A i \in 1..Len(ring') : ring'[i] = rest[i]
    <3> TAKE i \in 1..Len(ring')
    <3>1. /\ i \in 1..(mStoredBytes - n) /\ i \in 1..(mStoredBytes - (n + 1) + 1)
          /\ n + 1 + i - 1 = n + i /\ n + i \in 1..mStoredBytes
      BY <1>2, <1>3, <1>4, <2>1
    <3>2. ring'[i] = Len(received) + n + i
      BY <1>3, <1>4, <1>5, <2>1, <2>2, <3>1, Zenon
    <3>3. rest[i] = Len(received) + (n + i)
      BY <1>5, <2>4, <3>1, Zenon
    <3>4. i \in Int /\ n \in Int
      BY <1>3, <3>1, <1>2
    <3> QED
      BY <1>5, <3>2, <3>3, <3>4
  <2>7. ring' = rest
    BY <2>1, <2>4, <2>5, <2>6, SeqEqual, Zenon
  <2> QED
    BY <1>5, <2>7, Zenon DEF rest
<1>8. Channel!Get(n)
  BY <1>2, <1>3, <1>4, <1>5, <1>6, <1>7, Zenon DEF Channel!Get
<1> QED
  BY <1>3, <1>8, Zenon

(* Every other step leaves the channel alone. *)
LEMMA RingStable ==
    ASSUME UNCHANGED <<mBuffer, mHead, mStoredBytes>>
    PROVE  ring' = ring
BY Zenon DEF ring, Slot

(* The ring buffer implements the channel, whatever its size. *)
THEOREM Refinement == Spec => IsChannel
<1>1. Init => Channel!Init
  <2> SUFFICES ASSUME Init PROVE Channel!Init
    OBVIOUS
  <2>1. ring = <<>>
    BY DEF Init, ring
  <2> QED
    BY <2>1, Zenon DEF Init, Channel!Init
<1>2. IInv /\ [Next]_vars => [Channel!Next]_Channel!vars
  <2> SUFFICES ASSUME IInv, [Next]_vars PROVE [Channel!Next]_Channel!vars
    OBVIOUS
  <2>1. CASE WriteCopy
    BY <2>1, WriteCopyPuts, Zenon DEF Channel!Next
  <2>2. CASE ReadCopy
    BY <2>2, ReadCopyGets, Zenon DEF Channel!Next
  <2>3. CASE Close
    BY <2>3, RingStable, Zenon DEF Close, Channel!Next, Channel!Close
  <2>4. CASE UNCHANGED <<fields, sent, received>>
    BY <2>4, RingStable, Zenon DEF fields, Channel!vars
  <2>5. WriteCopy \/ ReadCopy \/ Close \/ UNCHANGED <<fields, sent, received>>
    BY Zenon DEF Next, Write, Read, Wakeup, WriteCall, WriteWait, WriteClosed,
       WriteBegin, WriteCopied, WriteReturn, ReadCall, ReadWait, ReadEmpty,
       ReadClosed, ReadBegin, ReadReturn, vars
  <2> QED
    BY <2>1, <2>2, <2>3, <2>4, <2>5, Zenon
<1> QED
  BY <1>1, <1>2, Inductive, PTL DEF Spec, IsChannel, Channel!Spec
=============================================================================
