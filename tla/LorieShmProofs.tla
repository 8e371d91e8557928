--------------------------- MODULE LorieShmProofs ---------------------------
(***************************************************************************)
(* Proofs about LorieShm, for any processes and keys.                      *)
(*                                                                         *)
(* Ids are unique: as long as no process makes 2^15 segments, two entries  *)
(* with the same id are for the same region, whoever dies.  The inductive  *)
(* invariant IdInv says which ids have been taken: those up to the counter *)
(* of their process, of which the one that a call has in hand is in no     *)
(* table yet.                                                              *)
(*                                                                         *)
(* KeyAgreement: as long as no segment is removed by its owner, lost or    *)
(* not made, all calls of shmget() with one key return one region.  The    *)
(* inductive invariant KeyInv says that the link of a key is then never    *)
(* removed, hence names the same id for ever, and that the owner of that   *)
(* id is about to make the segment, with its mutex held, or has it in its  *)
(* table.                                                                  *)
(***************************************************************************)
EXTENDS LorieShm, TLAPS

(* What the steps of a call have done so far. *)
CallInv ==
    \A p \in ShmProcs :
        /\ pcS[p] = "idle" => keyS[p] = NoKey
        /\ pcS[p] \in {"readlink", "unlink", "symlink", "create"}
              => keyS[p] # NoKey
        /\ pcS[p] \in {"symlink", "create"} => mineS[p] # NoId
        /\ keyS[p] # NoKey => p \in shmBound
        /\ pcS[p] = "wait" => idS[p] # NoId

(* The counter has not wrapped around, and there is an id left for a call  *)
(* that may need one.                                                      *)
CounterInv ==
    \A p \in ShmProcs :
        /\ shmCounter[p] <= MaxGets[p]
        /\ keyS[p] # NoKey /\ mineS[p] = NoId => shmCounter[p] < MaxGets[p]

(* An id that a call has taken for its key is one of its own process. *)
MineInv ==
    \A p \in ShmProcs : mineS[p] # NoId =>
        /\ mineS[p][1] = p
        /\ mineS[p][2] \in 1 .. shmCounter[p]

(* The ids in the tables were taken before, and are not in hand. *)
TableInv ==
    \A p \in ShmProcs : \A s \in shmem[p] :
        /\ s.id[2] \in 1 .. shmCounter[s.id[1]]
        /\ s.id # mineS[s.id[1]]

IdInv ==
    ShmTypeOK /\ CallInv /\ CounterInv /\ MineInv /\ TableInv
    /\ SameIdSameSegment

-----------------------------------------------------------------------------
(* A new entry is a segment with the id and region it is made for. *)
LEMMA NewSegmentFields ==
    ASSUME NEW id \in ShmId, NEW r \in Nat, NEW a \in BOOLEAN
    PROVE  /\ NewSegment(id, r, a) \in Segment
           /\ NewSegment(id, r, a).id = id
           /\ NewSegment(id, r, a).region = r
           /\ NewSegment(id, r, a).marked = FALSE
BY Zenon DEF NewSegment, Segment

(* The fields of a segment have their types. *)
LEMMA SegmentFields ==
    ASSUME NEW s \in Segment
    PROVE  s.id \in ShmId /\ s.region \in Nat
BY Zenon DEF Segment

(* shmat(), shmdt() and shmctl() keep the id and the region of an entry. *)
LEMMA ChangedFields ==
    ASSUME NEW s \in Segment, NEW b \in BOOLEAN
    PROVE  /\ [s EXCEPT !.addr = b] \in Segment
           /\ [s EXCEPT !.addr = b].id = s.id
           /\ [s EXCEPT !.addr = b].region = s.region
           /\ [s EXCEPT !.addr = b].marked = s.marked
           /\ [s EXCEPT !.marked = b] \in Segment
           /\ [s EXCEPT !.marked = b].id = s.id
           /\ [s EXCEPT !.marked = b].region = s.region
BY Zenon DEF Segment

(* An id is a process and a counter. *)
LEMMA IdFields ==
    ASSUME NEW id \in ShmId
    PROVE  id[1] \in ShmProcs /\ id[2] \in Nat
BY Zenon DEF ShmId

(* -1 has no counter that a segment has. *)
LEMMA NoIdFields == NoId[2] = 0
BY Zenon DEF NoId

(* Below the bound the counter does not wrap around. *)
LEMMA NextIdFields ==
    ASSUME ShmTypeOK, NEW p \in ShmProcs, shmCounter[p] < MaxGets[p]
    PROVE  /\ NextCounter(p) = shmCounter[p] + 1
           /\ NextId(p) \in ShmId
           /\ NextId(p)[1] = p
           /\ NextId(p)[2] = shmCounter[p] + 1
<1>1. shmCounter[p] \in Nat /\ MaxGets[p] \in Nat /\ MaxGets[p] < 32768
  BY ShmAssumption DEF ShmAssumption, ShmTypeOK
<1>2. NextCounter(p) = shmCounter[p] + 1
  BY <1>1 DEF NextCounter
<1>3. QED
  BY <1>1, <1>2 DEF NextId, ShmId

(* The ids that clients know are ids of segments. *)
LEMMA IssuedIds ==
    ASSUME ShmTypeOK, NEW id \in Issued
    PROVE  id \in ShmId /\ id # NoId
BY DEF Issued, ShmTypeOK, ShmId, NoId

(* Changing an entry keeps the type of the tables, *)
LEMMA ChangeType ==
    ASSUME ShmTypeOK, NEW p \in ShmProcs, NEW s, NEW t \in Segment,
           Change(p, s, t)
    PROVE  shmem' \in [ShmProcs -> SUBSET Segment]
BY Zenon DEF Change, ShmTypeOK

(* and so does removing one. *)
LEMMA DeleteType ==
    ASSUME ShmTypeOK, NEW p \in ShmProcs, NEW s, ShmDelete(p, s)
    PROVE  shmem' \in [ShmProcs -> SUBSET Segment]
BY Zenon DEF ShmDelete, ShmTypeOK

(* Every step preserves the types. *)
LEMMA TypeStep ==
    ASSUME IdInv, [ShmNext]_shmVars
    PROVE  ShmTypeOK'
<1> USE DEF IdInv
<1>1. ASSUME NEW p \in ShmProcs, ShmgetPrivate(p)
      PROVE  ShmTypeOK'
  <2>1. regions + 1 \in Nat /\ NextCounter(p) \in Nat /\ NextId(p) \in ShmId
    BY <1>1, NextIdFields DEF ShmTypeOK, ShmgetPrivate
  <2>2. NewSegment(NextId(p), regions + 1, FALSE) \in Segment
    BY <2>1, NewSegmentFields, Zenon
  <2>3. shmem' \in [ShmProcs -> SUBSET Segment]
    BY <1>1, <2>2, Zenon DEF ShmTypeOK, ShmgetPrivate
  <2>4. QED
    BY <1>1, <2>1, <2>3, Zenon DEF ShmTypeOK, ShmgetPrivate, shmCall
<1>2. ASSUME NEW p \in ShmProcs, NEW k \in ShmKeys, Shmget(p, k)
      PROVE  ShmTypeOK'
  BY <1>2, Zenon DEF ShmTypeOK, Shmget, ShmGoto, shmTables, ShmLabels
<1>3. ASSUME NEW p \in ShmProcs, NEW id \in Issued, Shmat(p, id)
      PROVE  ShmTypeOK'
  <2>1. PICK s \in Found(p, id) : Change(p, s, [s EXCEPT !.addr = TRUE])
    BY <1>3, Zenon DEF Shmat
  <2>2. s \in shmem[p] /\ s \in Segment
    BY <2>1, Zenon DEF Found, ShmTypeOK
  <2>3. [s EXCEPT !.addr = TRUE] \in Segment
    BY <2>2, ChangedFields, Zenon
  <2>4. shmem' \in [ShmProcs -> SUBSET Segment]
    BY <2>1, <2>3, Zenon DEF Change, ShmTypeOK
  <2>5. QED
    BY <1>3, <2>4, Zenon DEF ShmTypeOK, Shmat, shmCall
<1>4. ASSUME NEW p \in ShmProcs, NEW id \in Issued, ShmatRemote(p, id)
      PROVE  ShmTypeOK'
  BY <1>4, IssuedIds, Zenon
     DEF ShmTypeOK, ShmatRemote, ShmGoto, shmTables, ShmLabels
<1>5. ASSUME NEW p \in ShmProcs, NEW s \in shmem[p], Shmdt(p, s)
      PROVE  ShmTypeOK'
  <2>1. [s EXCEPT !.addr = FALSE] \in Segment
    BY ChangedFields, Zenon DEF ShmTypeOK
  <2>2. shmem' \in [ShmProcs -> SUBSET Segment]
    BY <1>5, <2>1, ChangeType, DeleteType, Zenon DEF Shmdt
  <2>3. QED
    BY <1>5, <2>2, Zenon DEF ShmTypeOK, Shmdt, shmCall
<1>6. ASSUME NEW p \in ShmProcs, NEW s \in shmem[p], ShmctlRmid(p, s)
      PROVE  ShmTypeOK'
  <2>1. [s EXCEPT !.marked = TRUE] \in Segment
    BY ChangedFields, Zenon DEF ShmTypeOK
  <2>2. shmem' \in [ShmProcs -> SUBSET Segment]
    BY <1>6, <2>1, ChangeType, DeleteType, Zenon DEF ShmctlRmid
  <2>3. QED
    BY <1>6, <2>2, Zenon DEF ShmTypeOK, ShmctlRmid, shmCall
<1>7. ASSUME NEW p \in ShmProcs, ReadLinkKnown(p)
      PROVE  ShmTypeOK'
  BY <1>7, SegmentFields
     DEF ShmTypeOK, ReadLinkKnown, ShmReturnKeyed, ShmReturn, Found,
         shmTables, ShmLabels, CallInv
<1>8. ASSUME NEW p \in ShmProcs, ReadLinkRemote(p)
      PROVE  ShmTypeOK'
  <2>1. keyS[p] \in ShmKeys
    BY <1>8, Zenon DEF ReadLinkRemote, ShmTypeOK, CallInv
  <2>2. links[keyS[p]] \in ShmId \union {NoId}
    BY <2>1, Zenon DEF ShmTypeOK
  <2>3. QED
    BY <1>8, <2>2, Zenon
       DEF ShmTypeOK, ReadLinkRemote, ShmGoto, shmTables, ShmLabels
<1>9. ASSUME NEW p \in ShmProcs, ReadLinkNone(p)
      PROVE  ShmTypeOK'
  BY <1>9, NextIdFields
     DEF ShmTypeOK, ReadLinkNone, ShmGoto, TakeId, ShmLabels, CallInv,
         CounterInv
<1>10. ASSUME NEW p \in ShmProcs, ShmUnlink(p)
       PROVE  ShmTypeOK'
  BY <1>10, NextIdFields
     DEF ShmTypeOK, ShmUnlink, ShmGoto, TakeId, ShmLabels, CallInv,
         CounterInv
<1>11. ASSUME NEW p \in ShmProcs, ShmSymlink(p)
       PROVE  ShmTypeOK'
  BY <1>11, Zenon DEF ShmTypeOK, ShmSymlink, ShmGoto, shmTables, ShmLabels
<1>12. ASSUME NEW p \in ShmProcs, ShmCreate(p)
       PROVE  ShmTypeOK'
  <2>1. mineS[p] \in ShmId /\ keyS[p] \in ShmKeys
    BY <1>12, Zenon DEF ShmCreate, ShmTypeOK, CallInv
  <2>2. regions + 1 \in Nat
    BY DEF ShmTypeOK
  <2>3. NewSegment(mineS[p], regions + 1, FALSE) \in Segment
    BY <2>1, <2>2, NewSegmentFields, Zenon
  <2>4. shmem' \in [ShmProcs -> SUBSET Segment]
    BY <1>12, <2>3, Zenon DEF ShmCreate, ShmTypeOK
  <2>5. QED
    BY <1>12, <2>1, <2>2, <2>4, Zenon
       DEF ShmTypeOK, ShmCreate, ShmReturnKeyed, ShmReturn, ShmLabels
<1>13. ASSUME NEW p \in ShmProcs, ShmCreateFails(p)
       PROVE  ShmTypeOK'
  BY <1>13, Zenon
     DEF ShmTypeOK, ShmCreateFails, ShmReturn, shmTables, ShmLabels
<1>14. ASSUME NEW p \in ShmProcs, ReadRefused(p)
       PROVE  ShmTypeOK'
  BY <1>14, Zenon
     DEF ShmTypeOK, ReadRefused, NotRead, ShmReturn, ShmGoto, shmTables,
         ShmLabels
<1>15. ASSUME NEW p \in ShmProcs, ReadUnknown(p)
       PROVE  ShmTypeOK'
  BY <1>15, Zenon
     DEF ShmTypeOK, ReadUnknown, NotRead, ShmReturn, ShmGoto, shmTables,
         ShmLabels
<1>16. ASSUME NEW p \in ShmProcs, ReadRemote(p)
       PROVE  ShmTypeOK'
  <2>1. PICK s \in Found(SocketOf(idS[p]), idS[p]) :
            /\ shmem' = [shmem EXCEPT ![p] = @ \union
                            {NewSegment(s.id, s.region, keyS[p] = NoKey)}]
            /\ IF keyS[p] = NoKey THEN ShmReturn(p) /\ UNCHANGED opened
               ELSE ShmReturnKeyed(p, s.region)
    BY <1>16, Zenon DEF ReadRemote
  <2>2. SocketOf(idS[p]) \in ShmProcs
    BY <1>16, Zenon DEF ReadRemote, ShmAnswers, ShmTypeOK
  <2>3. s \in Segment
    BY <2>1, <2>2, Zenon DEF Found, ShmTypeOK
  <2>4. NewSegment(s.id, s.region, keyS[p] = NoKey) \in Segment
    BY <2>3, SegmentFields, NewSegmentFields, Zenon
  <2>5. shmem' \in [ShmProcs -> SUBSET Segment]
    BY <2>1, <2>4, Zenon DEF ShmTypeOK
  <2>6. s.region \in Nat
    BY <2>3, SegmentFields, Zenon
  <2>7. QED
    BY <1>16, <2>1, <2>5, <2>6
       DEF ShmTypeOK, ReadRemote, ShmReturnKeyed, ShmReturn, ShmLabels
<1>17. ASSUME NEW p \in ShmProcs, ShmDie(p)
       PROVE  ShmTypeOK'
  BY <1>17, Zenon DEF ShmTypeOK, ShmDie, ShmReturn, ShmLabels
<1>18. CASE UNCHANGED shmVars
  BY <1>18, Zenon DEF ShmTypeOK, shmVars
<1>19. QED
  BY <1>1, <1>2, <1>3, <1>4, <1>5, <1>6, <1>7, <1>8, <1>9, <1>10, <1>11,
     <1>12, <1>13, <1>14, <1>15, <1>16, <1>17, <1>18, Zenon
     DEF ShmNext, ShmWorks, ShmServed

(* A call takes an id for its key. *)
LEMMA TakeIdStep ==
    ASSUME IdInv, NEW p \in ShmProcs, keyS[p] # NoKey, TakeId(p),
           ShmGoto(p, "symlink"), UNCHANGED <<shmBound, keyS, idS>>
    PROVE  CallInv' /\ CounterInv' /\ MineInv'
<1>1. CASE mineS[p] # NoId
  BY <1>1, SMTT(30)
     DEF IdInv, ShmTypeOK, CallInv, CounterInv, MineInv, TakeId, ShmGoto
<1>2. CASE mineS[p] = NoId
  <2>1. shmCounter[p] < MaxGets[p]
    BY <1>2, Zenon DEF IdInv, CounterInv
  <2>2. /\ shmCounter' = [shmCounter EXCEPT ![p] = shmCounter[p] + 1]
        /\ mineS' = [mineS EXCEPT ![p] = NextId(p)]
        /\ NextId(p)[1] = p /\ NextId(p)[2] = shmCounter[p] + 1
    BY <1>2, <2>1, NextIdFields, SMTT(30) DEF IdInv, TakeId
  <2>3. MaxGets[p] \in Nat /\ shmCounter \in [ShmProcs -> Nat]
    BY ShmAssumption DEF ShmAssumption, IdInv, ShmTypeOK
  <2>4. NextId(p) # NoId
    BY <2>2, <2>3, NoIdFields
  <2>5. CallInv'
    BY <2>2, <2>4, SMTT(30) DEF IdInv, ShmTypeOK, CallInv, ShmGoto
  <2>6. CounterInv'
    BY <2>1, <2>2, <2>3, <2>4, SMTT(30) DEF IdInv, ShmTypeOK, CounterInv
  <2>7. MineInv'
    BY <2>2, <2>3, SMTT(30) DEF IdInv, ShmTypeOK, MineInv
  <2>8. QED
    BY <2>5, <2>6, <2>7, Zenon
<1>3. QED
  BY <1>1, <1>2, Zenon

(* Every step preserves what is known of the calls and of their ids. *)
LEMMA CallStep ==
    ASSUME IdInv, [ShmNext]_shmVars
    PROVE  CallInv' /\ CounterInv' /\ MineInv'
<1> USE DEF IdInv
<1>1. ASSUME NEW p \in ShmProcs, ShmgetPrivate(p)
      PROVE  CallInv' /\ CounterInv' /\ MineInv'
  <2>1. /\ shmCounter' = [shmCounter EXCEPT ![p] = shmCounter[p] + 1]
        /\ shmCounter[p] < MaxGets[p] /\ keyS[p] = NoKey
        /\ shmBound' = shmBound \union {p} /\ UNCHANGED shmCall
    BY <1>1, NextIdFields DEF ShmgetPrivate, ShmCanCall, CallInv
  <2>2. MaxGets[p] \in Nat /\ shmCounter \in [ShmProcs -> Nat]
    BY ShmAssumption DEF ShmAssumption, ShmTypeOK
  <2>3. CallInv'
    BY <2>1, Zenon DEF CallInv, shmCall
  <2>4. CounterInv'
    BY <2>1, <2>2, SMTT(30) DEF CounterInv, shmCall
  <2>5. MineInv'
    BY <2>1, <2>2, SMTT(30) DEF MineInv, shmCall
  <2>6. QED
    BY <2>3, <2>4, <2>5, Zenon
<1>2. ASSUME NEW p \in ShmProcs, NEW k \in ShmKeys, Shmget(p, k)
      PROVE  CallInv' /\ CounterInv' /\ MineInv'
  BY <1>2, ShmAssumption, SMTT(30)
     DEF ShmAssumption, ShmTypeOK, CallInv, CounterInv, MineInv, Shmget,
         ShmGoto, shmTables, ShmCanCall
<1>3. ASSUME NEW p \in ShmProcs, NEW id \in Issued, Shmat(p, id)
      PROVE  CallInv' /\ CounterInv' /\ MineInv'
  BY <1>3, NoIdFields
     DEF ShmTypeOK, CallInv, CounterInv, MineInv, Shmat, Change, Found,
         shmCall
<1>4. ASSUME NEW p \in ShmProcs, NEW id \in Issued, ShmatRemote(p, id)
      PROVE  CallInv' /\ CounterInv' /\ MineInv'
  BY <1>4, IssuedIds
     DEF ShmTypeOK, CallInv, CounterInv, MineInv, ShmatRemote, ShmGoto,
         shmTables, ShmCanCall
<1>5. ASSUME NEW p \in ShmProcs, NEW s \in shmem[p], Shmdt(p, s)
      PROVE  CallInv' /\ CounterInv' /\ MineInv'
  BY <1>5, NoIdFields
     DEF ShmTypeOK, CallInv, CounterInv, MineInv, Shmdt, ShmDelete, Change,
         shmCall
<1>6. ASSUME NEW p \in ShmProcs, NEW s \in shmem[p], ShmctlRmid(p, s)
      PROVE  CallInv' /\ CounterInv' /\ MineInv'
  BY <1>6, NoIdFields
     DEF ShmTypeOK, CallInv, CounterInv, MineInv, ShmctlRmid, ShmDelete,
         Change, shmCall
<1>7. ASSUME NEW p \in ShmProcs, ReadLinkKnown(p)
      PROVE  CallInv' /\ CounterInv' /\ MineInv'
  BY <1>7, NoIdFields
     DEF ShmTypeOK, CallInv, CounterInv, MineInv, ReadLinkKnown,
         ShmReturnKeyed, ShmReturn, Found, shmTables
<1>8. ASSUME NEW p \in ShmProcs, ReadLinkRemote(p)
      PROVE  CallInv' /\ CounterInv' /\ MineInv'
  BY <1>8, NoIdFields
     DEF ShmTypeOK, CallInv, CounterInv, MineInv, ReadLinkRemote, ShmGoto,
         shmTables
<1>9. ASSUME NEW p \in ShmProcs, ReadLinkNone(p)
      PROVE  CallInv' /\ CounterInv' /\ MineInv'
  <2>1. /\ keyS[p] # NoKey
        /\ TakeId(p) /\ ShmGoto(p, "symlink")
        /\ UNCHANGED <<shmBound, keyS, idS>>
    BY <1>9, SMTT(30) DEF ReadLinkNone, CallInv
  <2>2. QED
    BY <2>1, TakeIdStep
<1>10. ASSUME NEW p \in ShmProcs, ShmUnlink(p)
       PROVE  CallInv' /\ CounterInv' /\ MineInv'
  <2>1. /\ keyS[p] # NoKey
        /\ TakeId(p) /\ ShmGoto(p, "symlink")
        /\ UNCHANGED <<shmBound, keyS, idS>>
    BY <1>10, SMTT(30) DEF ShmUnlink, CallInv
  <2>2. QED
    BY <2>1, TakeIdStep
<1>11. ASSUME NEW p \in ShmProcs, ShmSymlink(p)
       PROVE  CallInv' /\ CounterInv' /\ MineInv'
  BY <1>11, NoIdFields
     DEF ShmTypeOK, CallInv, CounterInv, MineInv, ShmSymlink, ShmGoto,
         shmTables
<1>12. ASSUME NEW p \in ShmProcs, ShmCreate(p)
       PROVE  CallInv' /\ CounterInv' /\ MineInv'
  BY <1>12, NoIdFields
     DEF ShmTypeOK, CallInv, CounterInv, MineInv, ShmCreate, ShmReturnKeyed,
         ShmReturn
<1>13. ASSUME NEW p \in ShmProcs, ShmCreateFails(p)
       PROVE  CallInv' /\ CounterInv' /\ MineInv'
  BY <1>13, NoIdFields
     DEF ShmTypeOK, CallInv, CounterInv, MineInv, ShmCreateFails, ShmReturn,
         shmTables
<1>14. ASSUME NEW p \in ShmProcs, ReadRefused(p)
       PROVE  CallInv' /\ CounterInv' /\ MineInv'
  BY <1>14, NoIdFields
     DEF ShmTypeOK, CallInv, CounterInv, MineInv, ReadRefused, NotRead,
         ShmReturn, ShmGoto, shmTables
<1>15. ASSUME NEW p \in ShmProcs, ReadUnknown(p)
       PROVE  CallInv' /\ CounterInv' /\ MineInv'
  BY <1>15, NoIdFields
     DEF ShmTypeOK, CallInv, CounterInv, MineInv, ReadUnknown, NotRead,
         ShmReturn, ShmGoto, shmTables
<1>16. ASSUME NEW p \in ShmProcs, ReadRemote(p)
       PROVE  CallInv' /\ CounterInv' /\ MineInv'
  BY <1>16, NoIdFields
     DEF ShmTypeOK, CallInv, CounterInv, MineInv, ReadRemote, ShmReturnKeyed,
         ShmReturn, Found
<1>17. ASSUME NEW p \in ShmProcs, ShmDie(p)
       PROVE  CallInv' /\ CounterInv' /\ MineInv'
  BY <1>17, NoIdFields
     DEF ShmTypeOK, CallInv, CounterInv, MineInv, ShmDie, ShmReturn
<1>18. CASE UNCHANGED shmVars
  BY <1>18 DEF CallInv, CounterInv, MineInv, shmVars
<1>19. QED
  BY <1>1, <1>2, <1>3, <1>4, <1>5, <1>6, <1>7, <1>8, <1>9, <1>10, <1>11,
     <1>12, <1>13, <1>14, <1>15, <1>16, <1>17, <1>18, Zenon
     DEF ShmNext, ShmWorks, ShmServed
-----------------------------------------------------------------------------
(* What a step may do to the ids: *)
MineStep ==
    \A p \in ShmProcs :
        /\ shmCounter'[p] >= shmCounter[p]
        /\ \/ mineS'[p] = mineS[p] \/ mineS'[p] = NoId
           \/ mineS'[p][2] > shmCounter[p]

(* and to the tables. *)
Kept(t) ==
    \E q \in ShmProcs : \E s \in shmem[q] :
        s.id = t.id /\ s.region = t.region

KeptStep == \A p \in ShmProcs : \A t \in shmem'[p] : Kept(t)

MadeStep(id) ==
    \A p \in ShmProcs : \A t \in shmem'[p] :
        Kept(t) \/ (t.id = id /\ t.region = regions + 1)

(* Counters only grow, and an id that is taken is a new one. *)
LEMMA MineSteps ==
    ASSUME IdInv, [ShmNext]_shmVars
    PROVE  MineStep
<1> USE DEF IdInv
<1>1. CASE UNCHANGED <<shmCounter, mineS>>
  BY <1>1 DEF MineStep, ShmTypeOK
<1>2. ASSUME NEW p \in ShmProcs, ShmReturn(p), UNCHANGED shmCounter
      PROVE  MineStep
  BY <1>2 DEF MineStep, ShmTypeOK, ShmReturn
<1>3. ASSUME NEW p \in ShmProcs, ShmgetPrivate(p)
      PROVE  MineStep
  BY <1>3, NextIdFields DEF MineStep, ShmTypeOK, ShmgetPrivate, shmCall
<1>4. ASSUME NEW p \in ShmProcs, TakeId(p), keyS[p] # NoKey
      PROVE  MineStep
  BY <1>4, NextIdFields DEF MineStep, ShmTypeOK, TakeId, CounterInv
<1>5. ASSUME NEW p \in ShmProcs, ShmWorks(p) \/ ShmServed(p)
      PROVE  MineStep
  BY <1>1, <1>2, <1>4, <1>5, Zenon
     DEF ShmWorks, ShmServed, ReadLinkKnown, ReadLinkRemote, ReadLinkNone,
         ShmUnlink, ShmSymlink, ShmCreate, ShmCreateFails, ReadRefused,
         ReadUnknown, NotRead, ReadRemote, ShmReturnKeyed, shmTables, CallInv
<1>6. ASSUME NEW p \in ShmProcs, NEW k \in ShmKeys, Shmget(p, k)
      PROVE  MineStep
  BY <1>1, <1>6, Zenon DEF Shmget, shmTables
<1>7. ASSUME NEW p \in ShmProcs, NEW id \in Issued,
             Shmat(p, id) \/ ShmatRemote(p, id)
      PROVE  MineStep
  BY <1>1, <1>7, Zenon DEF Shmat, ShmatRemote, shmTables, shmCall
<1>8. ASSUME NEW p \in ShmProcs, NEW s \in shmem[p],
             Shmdt(p, s) \/ ShmctlRmid(p, s)
      PROVE  MineStep
  BY <1>1, <1>8, Zenon DEF Shmdt, ShmctlRmid, shmCall
<1>9. ASSUME NEW p \in ShmProcs, ShmDie(p)
      PROVE  MineStep
  BY <1>2, <1>9, Zenon DEF ShmDie
<1>10. CASE UNCHANGED shmVars
  BY <1>1, <1>10, Zenon DEF shmVars
<1>11. QED
  BY <1>3, <1>5, <1>6, <1>7, <1>8, <1>9, <1>10, Zenon DEF ShmNext

(* Only the two steps that create a segment add a new id to a table:       *)
(* all others copy, change or remove entries.                              *)
LEMMA KeptSteps ==
    ASSUME IdInv, [ShmNext]_shmVars,
           \A p \in ShmProcs : ~ShmgetPrivate(p) /\ ~ShmCreate(p)
    PROVE  KeptStep
<1> USE DEF IdInv
<1>1. CASE UNCHANGED shmem
  BY <1>1, Zenon DEF KeptStep, Kept
<1>2. ASSUME NEW p \in ShmProcs, NEW s, ShmDelete(p, s)
      PROVE  KeptStep
  BY <1>2, Zenon DEF KeptStep, Kept, ShmDelete, ShmTypeOK
<1>3. ASSUME NEW p \in ShmProcs, NEW s \in shmem[p], NEW t, Change(p, s, t),
             t.id = s.id, t.region = s.region
      PROVE  KeptStep
  BY <1>3, Zenon DEF KeptStep, Kept, Change, ShmTypeOK
<1>4. ASSUME NEW p \in ShmProcs, NEW id \in Issued, Shmat(p, id)
      PROVE  KeptStep
  <2>1. PICK s \in Found(p, id) : Change(p, s, [s EXCEPT !.addr = TRUE])
    BY <1>4, Zenon DEF Shmat
  <2>2. s \in shmem[p] /\ s \in Segment
    BY <2>1, Zenon DEF Found, ShmTypeOK
  <2>3. QED
    BY <1>3, <2>1, <2>2, ChangedFields, Zenon
<1>5. ASSUME NEW p \in ShmProcs, NEW s \in shmem[p],
             Shmdt(p, s) \/ ShmctlRmid(p, s)
      PROVE  KeptStep
  <2>1. s \in Segment
    BY Zenon DEF ShmTypeOK
  <2>2. QED
    BY <1>2, <1>3, <1>5, <2>1, ChangedFields, Zenon DEF Shmdt, ShmctlRmid
<1>6. ASSUME NEW p \in ShmProcs, ReadRemote(p)
      PROVE  KeptStep
  <2>1. PICK s \in Found(SocketOf(idS[p]), idS[p]) :
            shmem' = [shmem EXCEPT ![p] = @ \union
                         {NewSegment(s.id, s.region, keyS[p] = NoKey)}]
    BY <1>6, Zenon DEF ReadRemote
  <2>2. SocketOf(idS[p]) \in ShmProcs
    BY <1>6, Zenon DEF ReadRemote, ShmAnswers, ShmTypeOK
  <2>3. s \in shmem[SocketOf(idS[p])] /\ s \in Segment
    BY <2>1, <2>2, Zenon DEF Found, ShmTypeOK
  <2> DEFINE t == NewSegment(s.id, s.region, keyS[p] = NoKey)
  <2>4. t.id = s.id /\ t.region = s.region
    <3>1. s.id \in ShmId /\ s.region \in Nat
      BY <2>3, SegmentFields, Zenon
    <3>2. (keyS[p] = NoKey) \in BOOLEAN
      BY Zenon
    <3>3. QED
      BY <3>1, <3>2, NewSegmentFields, ZenonT(60)
  <2> HIDE DEF t
  <2>5. \A q \in ShmProcs : \A u \in shmem'[q] : u \in shmem[q] \/ u = t
    BY <2>1, Zenon DEF ShmTypeOK, t
  <2>6. QED
    BY <2>2, <2>3, <2>4, <2>5, Zenon DEF KeptStep, Kept
<1>7. ASSUME NEW p \in ShmProcs, ShmDie(p)
      PROVE  KeptStep
  BY <1>7, Zenon DEF KeptStep, Kept, ShmDie, ShmTypeOK
<1>8. ASSUME NEW p \in ShmProcs, ShmWorks(p) \/ ReadUnknown(p)
      PROVE  KeptStep
  BY <1>1, <1>8, Zenon
     DEF ShmWorks, ReadLinkKnown, ReadLinkRemote, ReadLinkNone, ShmUnlink,
         ShmSymlink, ShmCreateFails, ReadRefused, ReadUnknown, NotRead,
         shmTables
<1>9. ASSUME NEW p \in ShmProcs, NEW k \in ShmKeys, Shmget(p, k)
      PROVE  KeptStep
  BY <1>1, <1>9, Zenon DEF Shmget, shmTables
<1>10. ASSUME NEW p \in ShmProcs, NEW id \in Issued, ShmatRemote(p, id)
       PROVE  KeptStep
  BY <1>1, <1>10, Zenon DEF ShmatRemote, shmTables
<1>11. CASE UNCHANGED shmVars
  BY <1>1, <1>11, Zenon DEF shmVars
<1>12. QED
  BY <1>4, <1>5, <1>6, <1>7, <1>8, <1>9, <1>10, <1>11, Zenon
     DEF ShmNext, ShmServed
(* What TableInv says of an entry is true after a step that keeps it. *)
LEMMA KeptTables ==
    ASSUME IdInv, MineStep, ShmTypeOK', NEW t, Kept(t)
    PROVE  t.id[2] \in 1 .. shmCounter'[t.id[1]] /\ t.id # mineS'[t.id[1]]
<1>0. PICK q \in ShmProcs : \E s \in shmem[q] : s.id = t.id
  BY Zenon DEF Kept
<1>1. PICK s \in shmem[q] : s.id = t.id
  BY <1>0, Zenon
<1>2. s.id \in ShmId
  BY <1>1, SegmentFields, Zenon DEF IdInv, ShmTypeOK
<1>3. t.id[1] \in ShmProcs /\ t.id[2] \in Nat
  BY <1>1, <1>2, IdFields, Zenon
<1>4. t.id[2] \in 1 .. shmCounter[t.id[1]] /\ t.id # mineS[t.id[1]]
  BY <1>1, Zenon DEF IdInv, TableInv
<1>5. shmCounter[t.id[1]] \in Nat /\ shmCounter'[t.id[1]] \in Nat
  BY <1>3, Zenon DEF IdInv, ShmTypeOK
<1>6. QED
  BY <1>3, <1>4, <1>5, NoIdFields DEF MineStep

(* Creating a segment with an id that no table has keeps the ids unique. *)
LEMMA MadeTables ==
    ASSUME IdInv, MineStep, ShmTypeOK', NEW p \in ShmProcs, NEW id \in ShmId,
           MadeStep(id), id[1] = p, id[2] \in 1 .. shmCounter'[p],
           mineS'[p] # id,
           \A q \in ShmProcs : \A s \in shmem[q] : s.id # id
    PROVE  TableInv' /\ SameIdSameSegment'
<1>1. TableInv'
  BY KeptTables, Zenon DEF MadeStep, TableInv
<1>2. SameIdSameSegment'
  BY DEF MadeStep, Kept, IdInv, SameIdSameSegment
<1>3. QED
  BY <1>1, <1>2, Zenon

(* Every step preserves the uniqueness of the ids. *)
LEMMA TableStep ==
    ASSUME IdInv, [ShmNext]_shmVars, ShmTypeOK'
    PROVE  TableInv' /\ SameIdSameSegment'
<1>1. MineStep
  BY MineSteps, Zenon
<1>2. CASE KeptStep
  <2>1. TableInv'
    BY <1>1, <1>2, KeptTables, Zenon DEF KeptStep, TableInv
  <2>2. SameIdSameSegment'
    BY <1>2 DEF KeptStep, Kept, IdInv, SameIdSameSegment
  <2>3. QED
    BY <2>1, <2>2, Zenon
<1>3. ASSUME NEW p \in ShmProcs, ShmgetPrivate(p)
      PROVE  TableInv' /\ SameIdSameSegment'
  <2>1. /\ NextId(p) \in ShmId /\ NextId(p)[1] = p
        /\ NextId(p)[2] = shmCounter[p] + 1
        /\ shmCounter'[p] = shmCounter[p] + 1 /\ shmCounter[p] \in Nat
    BY <1>3, NextIdFields, Zenon DEF ShmgetPrivate, IdInv, ShmTypeOK
  <2>2. regions + 1 \in Nat
    BY DEF IdInv, ShmTypeOK
  <2> DEFINE t == NewSegment(NextId(p), regions + 1, FALSE)
  <2>3. t.id = NextId(p) /\ t.region = regions + 1
    BY <2>1, <2>2, NewSegmentFields, Zenon
  <2> HIDE DEF t
  <2>4. \A q \in ShmProcs : \A u \in shmem'[q] : u \in shmem[q] \/ u = t
    BY <1>3, Zenon DEF ShmgetPrivate, IdInv, ShmTypeOK, t
  <2>5. MadeStep(NextId(p))
    BY <2>3, <2>4, Zenon DEF MadeStep, Kept
  <2>6. mineS'[p] # NextId(p)
    BY <1>3, <2>1, NoIdFields DEF ShmgetPrivate, shmCall, IdInv, MineInv
  <2>7. \A q \in ShmProcs : \A s \in shmem[q] : s.id # NextId(p)
    BY <2>1 DEF IdInv, TableInv
  <2>8. QED
    BY <1>1, <2>1, <2>5, <2>6, <2>7, MadeTables
<1>4. ASSUME NEW p \in ShmProcs, ShmCreate(p)
      PROVE  TableInv' /\ SameIdSameSegment'
  <2>1. /\ mineS[p] \in ShmId /\ mineS[p][1] = p /\ mineS[p] # NoId
        /\ mineS[p][2] \in 1 .. shmCounter'[p]
    BY <1>4, Zenon DEF ShmCreate, IdInv, ShmTypeOK, CallInv, MineInv
  <2>2. regions + 1 \in Nat
    BY DEF IdInv, ShmTypeOK
  <2> DEFINE t == NewSegment(mineS[p], regions + 1, FALSE)
  <2>3. t.id = mineS[p] /\ t.region = regions + 1
    BY <2>1, <2>2, NewSegmentFields, Zenon
  <2> HIDE DEF t
  <2>4. \A q \in ShmProcs : \A u \in shmem'[q] : u \in shmem[q] \/ u = t
    BY <1>4, Zenon DEF ShmCreate, IdInv, ShmTypeOK, t
  <2>5. MadeStep(mineS[p])
    BY <2>3, <2>4, Zenon DEF MadeStep, Kept
  <2>6. mineS'[p] # mineS[p]
    BY <1>4, <2>1, Zenon
       DEF ShmCreate, ShmReturnKeyed, ShmReturn, IdInv, ShmTypeOK
  <2>7. \A q \in ShmProcs : \A s \in shmem[q] : s.id # mineS[p]
    BY <2>1, Zenon DEF IdInv, TableInv
  <2>8. QED
    BY <1>1, <2>1, <2>5, <2>6, <2>7, MadeTables, Zenon
<1>5. QED
  BY <1>2, <1>3, <1>4, KeptSteps, Zenon

(* The invariant holds in every reachable state. *)
THEOREM IdInvCorrect == ShmSpec => []IdInv
<1>1. ShmInit => IdInv
  <2> SUFFICES ASSUME ShmInit PROVE IdInv
    OBVIOUS
  <2>1. ShmTypeOK
    BY Zenon DEF ShmInit, ShmTypeOK, ShmLabels
  <2>2. CallInv /\ MineInv
    BY Zenon DEF ShmInit, CallInv, MineInv
  <2>3. CounterInv
    BY ShmAssumption DEF ShmAssumption, ShmInit, CounterInv
  <2>4. TableInv /\ SameIdSameSegment
    BY Zenon DEF ShmInit, TableInv, SameIdSameSegment
  <2>5. QED
    BY <2>1, <2>2, <2>3, <2>4, Zenon DEF IdInv
<1>2. IdInv /\ [ShmNext]_shmVars => IdInv'
  BY TypeStep, CallStep, TableStep, Zenon DEF IdInv
<1>3. QED
  BY <1>1, <1>2, PTL DEF ShmSpec

(* Every variable has the values its declaration says. *)
THEOREM TypeCorrect == ShmSpec => []ShmTypeOK
BY IdInvCorrect, PTL DEF IdInv

(* shmget() never gives the id of one segment to another one. *)
THEOREM SameIdCorrect == ShmSpec => []SameIdSameSegment
BY IdInvCorrect, PTL DEF IdInv

-----------------------------------------------------------------------------
(* KeyAgreement. *)

(* No process has marked a segment of its own, *)
NoneMarked ==
    \A p \in ShmProcs : \A s \in shmem[p] : s.id[1] = p => s.marked = FALSE

(* none has died, and none has found the owner of a link not to answer. *)
IntactInv ==
    /\ shmDead = {}
    /\ \A p \in ShmProcs : pcS[p] # "unlink"
    /\ NoneMarked

(* The owner of the id that is k's link is about to make the segment, or   *)
(* has it: all calls have returned its region.                             *)
Linked(k) ==
    IF links[k] = NoId THEN opened[k] = {}
    ELSE /\ links[k][1] \in shmBound
         /\ \/ /\ pcS[links[k][1]] = "create"
               /\ keyS[links[k][1]] = k /\ mineS[links[k][1]] = links[k]
               /\ opened[k] = {}
            \/ \E s \in shmem[links[k][1]] :
                  s.id = links[k] /\ opened[k] \subseteq {s.region}

LinkInv == \A k \in ShmKeys : Linked(k)

(* The link has not changed under a call that has read or made it. *)
ReadInv ==
    \A p \in ShmProcs :
        /\ pcS[p] = "wait" /\ keyS[p] # NoKey => links[keyS[p]] = idS[p]
        /\ pcS[p] = "create" => links[keyS[p]] = mineS[p]

(* All that is claimed only as long as nothing is torn. *)
KeyInv == torn \/ (IntactInv /\ LinkInv /\ ReadInv)

-----------------------------------------------------------------------------
(* A step of p leaves the calls of the others alone, *)
Frame(p) ==
    \A q \in ShmProcs \ {p} :
        /\ pcS'[q] = pcS[q] /\ keyS'[q] = keyS[q]
        /\ mineS'[q] = mineS[q] /\ idS'[q] = idS[q]

(* and all segments with their owners. *)
OwnKept ==
    \A o \in ShmProcs : \A s \in shmem[o] : s.id[1] = o =>
        \E t \in shmem'[o] : t.id = s.id /\ t.region = s.region

(* The entries of the tables are segments. *)
LEMMA SegmentsHaveIds ==
    ASSUME IdInv, NEW p \in ShmProcs, NEW s \in shmem[p]
    PROVE  s \in Segment /\ s.id \in ShmId /\ s.id[1] \in ShmProcs
BY SegmentFields, IdFields, Zenon DEF IdInv, ShmTypeOK

(* A key other than NoKey is one of ShmKeys. *)
LEMMA KeysOfCalls ==
    ASSUME IdInv, NEW p \in ShmProcs, keyS[p] # NoKey
    PROVE  keyS[p] \in ShmKeys
BY Zenon DEF IdInv, ShmTypeOK

(* A step of p leaves the calls of the others alone. *)
LEMMA FrameLemma ==
    ASSUME IdInv, NEW p \in ShmProcs,
           \/ ShmgetPrivate(p) \/ \E k \in ShmKeys : Shmget(p, k)
           \/ \E id \in Issued : Shmat(p, id) \/ ShmatRemote(p, id)
           \/ \E s \in shmem[p] : Shmdt(p, s) \/ ShmctlRmid(p, s)
           \/ ShmWorks(p) \/ ShmServed(p) \/ ShmDie(p)
    PROVE  Frame(p)
<1> USE DEF IdInv
<1>1. CASE UNCHANGED shmCall
  BY <1>1, Zenon DEF Frame, shmCall
<1>2. CASE ShmReturn(p)
  BY <1>2, Zenon DEF Frame, ShmReturn, ShmTypeOK
<1>3. CASE ShmgetPrivate(p) \/ \E id \in Issued : Shmat(p, id)
  BY <1>1, <1>3, Zenon DEF ShmgetPrivate, Shmat
<1>4. CASE \E s \in shmem[p] : Shmdt(p, s) \/ ShmctlRmid(p, s)
  BY <1>1, <1>4, Zenon DEF Shmdt, ShmctlRmid
<1>5. CASE \E k \in ShmKeys : Shmget(p, k)
  BY <1>5, Zenon DEF Frame, Shmget, ShmGoto, ShmTypeOK
<1>6. CASE \E id \in Issued : ShmatRemote(p, id)
  BY <1>6, Zenon DEF Frame, ShmatRemote, ShmGoto, ShmTypeOK
<1>7. CASE ReadLinkKnown(p) \/ ShmCreate(p) \/ ShmCreateFails(p)
           \/ ReadRemote(p) \/ ShmDie(p)
  BY <1>2, <1>7, Zenon
     DEF ReadLinkKnown, ShmCreate, ShmCreateFails, ReadRemote, ShmDie,
         ShmReturnKeyed
<1>8. CASE ReadLinkRemote(p)
  BY <1>8, Zenon DEF Frame, ReadLinkRemote, ShmGoto, ShmTypeOK
<1>9. CASE ReadLinkNone(p) \/ ShmUnlink(p)
  BY <1>9, Zenon DEF Frame, ReadLinkNone, ShmUnlink, TakeId, ShmGoto, ShmTypeOK
<1>10. CASE ShmSymlink(p)
  BY <1>10, Zenon DEF Frame, ShmSymlink, ShmGoto, ShmTypeOK
<1>11. CASE ReadRefused(p) \/ ReadUnknown(p)
  <2>1. CASE keyS[p] = NoKey
    BY <1>2, <1>11, <2>1, Zenon DEF ReadRefused, ReadUnknown, NotRead
  <2>2. CASE keyS[p] # NoKey
    BY <1>11, <2>2, Zenon
       DEF Frame, ReadRefused, ReadUnknown, NotRead, ShmGoto, ShmTypeOK
  <2>3. QED
    BY <2>1, <2>2, Zenon
<1>12. QED
  BY <1>3, <1>4, <1>5, <1>6, <1>7, <1>8, <1>9, <1>10, <1>11, Zenon
     DEF ShmWorks, ShmServed

(* When the link names a segment that p knows, its owner has it. *)
LEMMA KnownIsMade ==
    ASSUME IdInv, LinkInv, NEW k \in ShmKeys, links[k] # NoId,
           NEW q \in ShmProcs, NEW s \in shmem[q], s.id = links[k]
    PROVE  /\ links[k][1] \in ShmProcs
           /\ opened[k] \subseteq {s.region}
           /\ \E t \in shmem[links[k][1]] :
                 t.id = links[k] /\ t.region = s.region
<1>1. links[k][1] \in ShmProcs
  BY SegmentsHaveIds, Zenon
<1>2. mineS[links[k][1]] # links[k]
  BY Zenon DEF IdInv, TableInv
<1>3. PICK t \in shmem[links[k][1]] :
          t.id = links[k] /\ opened[k] \subseteq {t.region}
  BY <1>2, Zenon DEF LinkInv, Linked
<1>4. t.region = s.region
  BY <1>1, <1>3 DEF IdInv, SameIdSameSegment
<1>5. QED
  BY <1>1, <1>3, <1>4, Zenon

(* The link of k is as before and p does not make a segment. *)
LEMMA LinkedKept ==
    ASSUME IdInv, NEW p \in ShmProcs, Frame(p), OwnKept,
           shmBound \subseteq shmBound', NEW k \in ShmKeys, Linked(k),
           ~(pcS[p] = "create" /\ keyS[p] = k),
           links'[k] = links[k], opened'[k] = opened[k]
    PROVE  Linked(k)'
<1>1. CASE links[k] = NoId
  BY <1>1, Zenon DEF Linked
<1>2. CASE links[k] # NoId
  <2>1. links[k][1] \in shmBound' /\ links[k][1] \in ShmProcs
    BY <1>2, Zenon DEF Linked, IdInv, ShmTypeOK
  <2>2. CASE /\ pcS[links[k][1]] = "create"
             /\ keyS[links[k][1]] = k /\ mineS[links[k][1]] = links[k]
             /\ opened[k] = {}
    BY <1>2, <2>1, <2>2, SMTT(30) DEF Frame, Linked
  <2>3. CASE \E s \in shmem[links[k][1]] :
                s.id = links[k] /\ opened[k] \subseteq {s.region}
    <3>1. PICK s \in shmem[links[k][1]] :
              s.id = links[k] /\ opened[k] \subseteq {s.region}
      BY <2>3, Zenon
    <3>2. PICK t \in shmem'[links[k][1]] :
              t.id = links[k] /\ t.region = s.region
      BY <2>1, <3>1, SMTT(30) DEF OwnKept
    <3>3. QED
      BY <1>2, <2>1, <3>1, <3>2, Zenon DEF Linked
  <2>4. QED
    BY <1>2, <2>2, <2>3, Zenon DEF Linked
<1>3. QED
  BY <1>1, <1>2, Zenon

(* p returns the region of a segment that it has found for key l. *)
LEMMA LinkedOpened ==
    ASSUME IdInv, LinkInv, NEW p \in ShmProcs, Frame(p), OwnKept,
           pcS[p] # "create", shmBound \subseteq shmBound',
           UNCHANGED links, NEW l \in ShmKeys, links[l] # NoId,
           NEW q \in ShmProcs, NEW u \in shmem[q], u.id = links[l],
           opened' = [opened EXCEPT ![l] = @ \union {u.region}]
    PROVE  LinkInv'
<1>1. ASSUME NEW k \in ShmKeys, k # l
      PROVE  Linked(k)'
  <2>1. opened'[k] = opened[k]
    BY <1>1, Zenon DEF IdInv, ShmTypeOK
  <2>2. QED
    BY <2>1, LinkedKept, Zenon DEF LinkInv
<1>2. Linked(l)'
  <2>1. links[l][1] \in ShmProcs /\ links[l][1] \in shmBound'
    BY KnownIsMade, Zenon DEF LinkInv, Linked
  <2>2. PICK t \in shmem[links[l][1]] :
            t.id = links[l] /\ t.region = u.region
    BY KnownIsMade
  <2>3. PICK v \in shmem'[links[l][1]] :
            v.id = links[l] /\ v.region = u.region
    BY <2>1, <2>2 DEF OwnKept
  <2>4. opened'[l] \subseteq {u.region}
    BY KnownIsMade DEF IdInv, ShmTypeOK
  <2>5. QED
    BY <2>1, <2>3, <2>4, Zenon DEF Linked
<1>3. QED
  BY <1>1, <1>2, Zenon DEF LinkInv

(* Own segments stay, and unmarked, when no table changes, *)
LEMMA TablesKept ==
    ASSUME IdInv, NoneMarked, UNCHANGED shmem
    PROVE  OwnKept /\ NoneMarked'
BY Zenon DEF OwnKept, NoneMarked

(* when an entry is added, *)
LEMMA TablesAdded ==
    ASSUME IdInv, NoneMarked, NEW p \in ShmProcs, NEW t, t.marked = FALSE,
           shmem' = [shmem EXCEPT ![p] = @ \union {t}]
    PROVE  OwnKept /\ NoneMarked'
<1>1. \A q \in ShmProcs : \A u \in shmem'[q] : u \in shmem[q] \/ u = t
  BY Zenon DEF IdInv, ShmTypeOK
<1>2. \A q \in ShmProcs : \A u \in shmem[q] : u \in shmem'[q]
  BY Zenon DEF IdInv, ShmTypeOK
<1>3. QED
  BY <1>1, <1>2, Zenon DEF OwnKept, NoneMarked

(* when one is attached or detached, or another process's is marked, *)
LEMMA TablesChanged ==
    ASSUME IdInv, NoneMarked, NEW p \in ShmProcs, NEW s \in shmem[p], NEW t,
           Change(p, s, t), t.id = s.id, t.region = s.region,
           t.marked = s.marked \/ s.id[1] # p
    PROVE  OwnKept /\ NoneMarked'
<1>1. \A q \in ShmProcs : \A u \in shmem'[q] :
          u \in shmem[q] \/ (q = p /\ u = t)
  BY Zenon DEF Change, IdInv, ShmTypeOK
<1>2. \A q \in ShmProcs : \A u \in shmem[q] :
          u \in shmem'[q] \/ (q = p /\ u = s /\ t \in shmem'[q])
  BY Zenon DEF Change, IdInv, ShmTypeOK
<1>3. QED
  BY <1>1, <1>2, Zenon DEF OwnKept, NoneMarked

(* and when another process's is removed. *)
LEMMA TablesDeleted ==
    ASSUME IdInv, NoneMarked, NEW p \in ShmProcs, NEW s \in shmem[p],
           ShmDelete(p, s), s.id[1] # p
    PROVE  OwnKept /\ NoneMarked'
BY Zenon DEF ShmDelete, OwnKept, NoneMarked, IdInv, ShmTypeOK

(* A step that only changes the tables. *)
LEMMA OnlyTables ==
    ASSUME IdInv, IntactInv, LinkInv, ReadInv, OwnKept, NoneMarked',
           NEW p \in ShmProcs, pcS[p] = "idle",
           UNCHANGED <<shmBound, shmDead, links, shmCall, opened>>
    PROVE  IntactInv' /\ LinkInv' /\ ReadInv'
<1>1. Frame(p)
  BY Zenon DEF Frame, shmCall
<1>2. LinkInv'
  BY <1>1, LinkedKept, Zenon DEF LinkInv
<1>3. QED
  BY <1>2, Zenon DEF IntactInv, ReadInv, shmCall

(* As long as nothing is torn the owner of a key's segment answers. *)
LEMMA KeyIsRead ==
    ASSUME IdInv, IntactInv, LinkInv, ReadInv, NEW p \in ShmProcs,
           ReadRefused(p) \/ ReadUnknown(p)
    PROVE  keyS[p] = NoKey
<1> SUFFICES ASSUME keyS[p] # NoKey
             PROVE  FALSE
  OBVIOUS
<1>1. keyS[p] \in ShmKeys
  BY KeysOfCalls, Zenon
<1>2. idS[p] # NoId /\ links[keyS[p]] = idS[p]
  BY Zenon DEF ReadRefused, ReadUnknown, ShmAnswers, ReadInv, IdInv, CallInv
<1>3. /\ idS[p][1] \in shmBound
      /\ pcS[idS[p][1]] = "create" \/ \E s \in shmem[idS[p][1]] : s.id = idS[p]
  BY <1>1, <1>2, Zenon DEF LinkInv, Linked
<1>4. CASE ReadRefused(p)
  BY <1>3, <1>4, Zenon DEF ReadRefused, SocketOf, IntactInv
<1>5. CASE ReadUnknown(p)
  BY <1>3, <1>5, Zenon DEF ReadUnknown, ShmAnswers, Known, SocketOf
<1>6. QED
  BY <1>4, <1>5, Zenon

(* A step of a call of p that changes neither tables nor links. *)
LEMMA OnlyCall ==
    ASSUME IdInv, IntactInv, LinkInv, ReadInv, NEW p \in ShmProcs, Frame(p),
           UNCHANGED <<shmem, shmDead, links, opened>>,
           shmBound \subseteq shmBound',
           pcS[p] # "create", pcS'[p] \notin {"unlink", "create"},
           pcS'[p] = "wait" /\ keyS'[p] # NoKey => links[keyS'[p]] = idS'[p]
    PROVE  IntactInv' /\ LinkInv' /\ ReadInv'
<1>1. OwnKept /\ NoneMarked'
  BY TablesKept, Zenon DEF IntactInv
<1>2. LinkInv'
  BY <1>1, LinkedKept, Zenon DEF LinkInv
<1>3. IntactInv'
  BY <1>1, Zenon DEF IntactInv, Frame
<1>4. ReadInv'
  BY Zenon DEF ReadInv, Frame
<1>5. QED
  BY <1>2, <1>3, <1>4, Zenon

(* A call of p returns, with the region of u for its key or without one. *)
LEMMA OnlyReturn ==
    ASSUME IdInv, IntactInv, LinkInv, ReadInv, NEW p \in ShmProcs, Frame(p),
           OwnKept, NoneMarked', ShmReturn(p), pcS[p] # "create",
           UNCHANGED <<shmBound, shmDead, links>>, LinkInv'
    PROVE  IntactInv' /\ LinkInv' /\ ReadInv'
<1>1. pcS'[p] = "idle"
  BY Zenon DEF ShmReturn, IdInv, ShmTypeOK
<1>2. IntactInv'
  BY <1>1, Zenon DEF IntactInv, Frame
<1>3. ReadInv'
  BY <1>1, Zenon DEF ReadInv, Frame
<1>4. QED
  BY <1>2, <1>3, Zenon

(* Every step that tears nothing preserves the invariant. *)
LEMMA KeyStep ==
    ASSUME IdInv, KeyInv, [ShmNext]_shmVars, ~torn'
    PROVE  IntactInv' /\ LinkInv' /\ ReadInv'
<1> DEFINE Goal == IntactInv' /\ LinkInv' /\ ReadInv'
<1>1. CASE UNCHANGED shmVars
  BY <1>1, Zenon
     DEF KeyInv, IntactInv, NoneMarked, LinkInv, Linked, ReadInv, shmVars
<1>2. ASSUME NEW p \in ShmProcs,
             \/ ShmgetPrivate(p) \/ \E k \in ShmKeys : Shmget(p, k)
             \/ \E id \in Issued : Shmat(p, id) \/ ShmatRemote(p, id)
             \/ \E s \in shmem[p] : Shmdt(p, s) \/ ShmctlRmid(p, s)
             \/ ShmWorks(p) \/ ShmServed(p) \/ ShmDie(p)
      PROVE  Goal
  <2>1. Frame(p)
    BY <1>2, FrameLemma, Zenon
  <2>2. ~torn
    BY <1>2, Zenon
       DEF ShmgetPrivate, Shmget, Shmat, ShmatRemote, Shmdt, ShmctlRmid,
           ShmWorks, ShmServed, ReadLinkKnown, ReadLinkRemote, ReadLinkNone,
           ShmUnlink, ShmSymlink, ShmCreate, ShmCreateFails, ReadRefused,
           ReadUnknown, NotRead, ReadRemote, ShmDie
  <2>3. IntactInv /\ LinkInv /\ ReadInv /\ NoneMarked
    BY <2>2, Zenon DEF KeyInv, IntactInv
  <2>4. CASE ShmgetPrivate(p)
    <3>1. NextId(p) \in ShmId /\ regions + 1 \in Nat
      BY <2>4, NextIdFields DEF ShmgetPrivate, IdInv, ShmTypeOK
    <3> DEFINE t == NewSegment(NextId(p), regions + 1, FALSE)
    <3>2. t.marked = FALSE
      BY <3>1, NewSegmentFields, Zenon
    <3>3. shmem' = [shmem EXCEPT ![p] = @ \union {t}]
      BY <2>4, Zenon DEF ShmgetPrivate
    <3> HIDE DEF t
    <3>4. OwnKept /\ NoneMarked'
      BY <2>3, <3>2, <3>3, TablesAdded, Zenon
    <3>5. /\ UNCHANGED <<shmDead, links, shmCall, opened>>
          /\ shmBound \subseteq shmBound' /\ pcS[p] = "idle"
      BY <2>4, Zenon DEF ShmgetPrivate, ShmCanCall
    <3>6. LinkInv'
      BY <2>1, <2>3, <3>4, <3>5, LinkedKept, Zenon DEF LinkInv
    <3>7. QED
      BY <2>3, <3>4, <3>5, <3>6, Zenon DEF IntactInv, ReadInv, shmCall
  <2>5. ASSUME NEW k \in ShmKeys, Shmget(p, k)
        PROVE  Goal
    <3>1. /\ UNCHANGED <<shmem, shmDead, links, opened>>
          /\ shmBound \subseteq shmBound' /\ pcS[p] = "idle"
      BY <2>5, Zenon DEF Shmget, shmTables, ShmCanCall
    <3>2. pcS'[p] = "readlink"
      BY <2>5, Zenon DEF Shmget, ShmGoto, IdInv, ShmTypeOK
    <3>3. QED
      BY <2>1, <2>3, <3>1, <3>2, OnlyCall, Zenon
  <2>6. ASSUME NEW id \in Issued, Shmat(p, id)
        PROVE  Goal
    <3>1. PICK s \in Found(p, id) : Change(p, s, [s EXCEPT !.addr = TRUE])
      BY <2>6, Zenon DEF Shmat
    <3>2. s \in shmem[p] /\ s \in Segment
      BY <3>1, SegmentsHaveIds, Zenon DEF Found
    <3>3. OwnKept /\ NoneMarked'
      BY <2>3, <3>1, <3>2, ChangedFields, TablesChanged, Zenon
    <3>4. QED
      BY <2>3, <2>6, <3>3, OnlyTables, Zenon DEF Shmat, ShmCanCall
  <2>7. ASSUME NEW id \in Issued, ShmatRemote(p, id)
        PROVE  Goal
    <3>1. /\ UNCHANGED <<shmem, shmDead, links, opened>>
          /\ UNCHANGED <<shmBound, keyS>> /\ pcS[p] = "idle"
      BY <2>7, Zenon DEF ShmatRemote, shmTables, ShmCanCall
    <3>2. pcS'[p] = "wait" /\ keyS'[p] = NoKey
      BY <2>7, <3>1 DEF ShmatRemote, ShmGoto, IdInv, ShmTypeOK, CallInv
    <3>3. QED
      BY <2>1, <2>3, <3>1, <3>2, OnlyCall, Zenon
  <2>8. ASSUME NEW s \in shmem[p], Shmdt(p, s)
        PROVE  Goal
    <3>1. s \in Segment
      BY SegmentsHaveIds, Zenon
    <3>2. CASE s.id[1] # p
      BY <2>3, <2>8, <3>2, TablesDeleted, OnlyTables, Zenon
         DEF Shmdt, SocketOf, ShmCanCall
    <3>3. CASE s.id[1] = p
      <4>1. Change(p, s, [s EXCEPT !.addr = FALSE])
        BY <2>3, <2>8, <3>3, Zenon DEF Shmdt, SocketOf, NoneMarked
      <4>2. OwnKept /\ NoneMarked'
        BY <2>3, <3>1, <4>1, ChangedFields, TablesChanged, Zenon
      <4>3. QED
        BY <2>3, <2>8, <4>2, OnlyTables, Zenon DEF Shmdt, ShmCanCall
    <3>4. QED
      BY <3>2, <3>3, Zenon
  <2>9. ASSUME NEW s \in shmem[p], ShmctlRmid(p, s)
        PROVE  Goal
    <3>1. s \in Segment
      BY SegmentsHaveIds, Zenon
    <3>2. s.id[1] # p
      BY <2>9, Zenon DEF ShmctlRmid, SocketOf
    <3>3. OwnKept /\ NoneMarked'
      BY <2>3, <2>9, <3>1, <3>2, ChangedFields, TablesChanged, TablesDeleted,
         Zenon DEF ShmctlRmid
    <3>4. QED
      BY <2>3, <2>9, <3>3, OnlyTables, Zenon DEF ShmctlRmid, ShmCanCall
  <2>10. CASE ReadLinkKnown(p)
    <3>1. keyS[p] \in ShmKeys /\ pcS[p] # "create"
      BY <2>10, KeysOfCalls, Zenon DEF ReadLinkKnown, IdInv, CallInv
    <3>2. /\ UNCHANGED <<shmem, shmBound, shmDead, links>>
          /\ links[keyS[p]] # NoId /\ ShmReturn(p)
      BY <2>10, Zenon DEF ReadLinkKnown, shmTables, ShmReturnKeyed
    <3>3. PICK s \in Found(p, links[keyS[p]]) : ShmReturnKeyed(p, s.region)
      BY <2>10, Zenon DEF ReadLinkKnown
    <3>4. s \in shmem[p] /\ s.id = links[keyS[p]]
      BY <3>3, Zenon DEF Found
    <3>5. OwnKept /\ NoneMarked'
      BY <2>3, <3>2, TablesKept, Zenon
    <3>6. LinkInv'
      BY <2>1, <2>3, <3>1, <3>2, <3>3, <3>4, <3>5, LinkedOpened, Zenon
         DEF ShmReturnKeyed
    <3>7. QED
      BY <2>1, <2>3, <3>1, <3>2, <3>5, <3>6, OnlyReturn, Zenon
  <2>11. CASE ReadLinkRemote(p)
    <3>1. /\ UNCHANGED <<shmem, shmBound, shmDead, links, keyS, opened>>
          /\ pcS[p] = "readlink"
      BY <2>11, Zenon DEF ReadLinkRemote, shmTables
    <3>2. pcS'[p] = "wait" /\ idS'[p] = links[keyS[p]]
      BY <2>11, Zenon DEF ReadLinkRemote, ShmGoto, IdInv, ShmTypeOK
    <3>3. QED
      BY <2>1, <2>3, <3>1, <3>2, OnlyCall, Zenon
  <2>12. CASE ReadLinkNone(p)
    <3>1. /\ UNCHANGED <<shmem, shmBound, shmDead, links, opened>>
          /\ pcS[p] = "readlink"
      BY <2>12, Zenon DEF ReadLinkNone
    <3>2. pcS'[p] = "symlink"
      BY <2>12, Zenon DEF ReadLinkNone, ShmGoto, IdInv, ShmTypeOK
    <3>3. QED
      BY <2>1, <2>3, <3>1, <3>2, OnlyCall, Zenon
  <2>13. CASE ShmUnlink(p)
    BY <2>3, <2>13, Zenon DEF ShmUnlink, IntactInv
  <2>14. CASE ShmSymlink(p)
    <3>1. /\ UNCHANGED <<shmem, shmBound, shmDead, keyS, idS, mineS, opened>>
          /\ pcS[p] = "symlink" /\ keyS[p] \in ShmKeys
      BY <2>14, KeysOfCalls, Zenon DEF ShmSymlink, shmTables, IdInv, CallInv
    <3>2. CASE links[keyS[p]] # NoId
      <4>1. UNCHANGED links /\ pcS'[p] = "readlink"
        BY <2>14, <3>2, Zenon DEF ShmSymlink, ShmGoto, IdInv, ShmTypeOK
      <4>2. QED
        BY <2>1, <2>3, <3>1, <4>1, OnlyCall, Zenon
    <3>3. CASE links[keyS[p]] = NoId
      <4>1. links' = [links EXCEPT ![keyS[p]] = mineS[p]] /\ pcS'[p] = "create"
        BY <2>14, <3>3, Zenon DEF ShmSymlink, ShmGoto, IdInv, ShmTypeOK
      <4>2. /\ mineS[p] # NoId /\ mineS[p][1] = p /\ p \in shmBound
            /\ keyS[p] # NoKey
        BY <3>1, Zenon DEF IdInv, CallInv, MineInv
      <4>3. OwnKept /\ NoneMarked'
        BY <2>3, <3>1, TablesKept, Zenon
      <4>4. ASSUME NEW k \in ShmKeys, k # keyS[p]
            PROVE  Linked(k)'
        <5>1. links'[k] = links[k]
          BY <4>1, <4>4, Zenon DEF IdInv, ShmTypeOK
        <5>2. QED
          BY <2>1, <2>3, <3>1, <4>3, <5>1, LinkedKept, Zenon DEF LinkInv
      <4>5. links'[keyS[p]] = mineS[p] /\ opened[keyS[p]] = {}
        BY <2>3, <3>1, <3>3, <4>1, Zenon DEF LinkInv, Linked, IdInv, ShmTypeOK
      <4>6. Linked(keyS[p])'
        BY <3>1, <4>1, <4>2, <4>5 DEF Linked
      <4>7. LinkInv'
        BY <3>1, <4>4, <4>6, Zenon DEF LinkInv
      <4>8. IntactInv'
        BY <2>1, <2>3, <3>1, <4>1, <4>3, Zenon DEF IntactInv, Frame
      <4>9. ASSUME NEW q \in ShmProcs, q # p,
                   \/ pcS[q] = "wait" /\ keyS[q] # NoKey
                   \/ pcS[q] = "create"
            PROVE  keyS[q] \in ShmKeys /\ keyS[q] # keyS[p]
        <5>1. keyS[q] # NoKey
          BY <4>9, Zenon DEF IdInv, CallInv
        <5>2. links[keyS[q]] # NoId
          BY <2>3, <4>9, Zenon DEF ReadInv, IdInv, CallInv
        <5>3. QED
          BY <3>3, <5>1, <5>2, KeysOfCalls, Zenon
      <4>10. \A k \in ShmKeys : k # keyS[p] => links'[k] = links[k]
        BY <4>1, Zenon DEF IdInv, ShmTypeOK
      <4>11. ReadInv'
        BY <2>1, <2>3, <3>1, <4>1, <4>5, <4>9, <4>10 DEF ReadInv, Frame
      <4>12. QED
        BY <4>7, <4>8, <4>11, Zenon
    <3>4. QED
      BY <3>2, <3>3, Zenon
  <2>15. CASE ShmCreate(p)
    <3>1. /\ UNCHANGED <<shmBound, shmDead, links>> /\ pcS[p] = "create"
          /\ mineS[p] \in ShmId /\ mineS[p] # NoId /\ mineS[p][1] = p
          /\ keyS[p] \in ShmKeys
      BY <2>15, KeysOfCalls, Zenon
         DEF ShmCreate, IdInv, CallInv, MineInv, ShmTypeOK
    <3>2. regions + 1 \in Nat
      BY DEF IdInv, ShmTypeOK
    <3> DEFINE t == NewSegment(mineS[p], regions + 1, FALSE)
    <3>3. t.marked = FALSE /\ t.id = mineS[p] /\ t.region = regions + 1
      BY <3>1, <3>2, NewSegmentFields, Zenon
    <3>4. shmem' = [shmem EXCEPT ![p] = @ \union {t}] /\ t \in shmem'[p]
      BY <2>15, Zenon DEF ShmCreate, IdInv, ShmTypeOK
    <3> HIDE DEF t
    <3>5. OwnKept /\ NoneMarked'
      BY <2>3, <3>3, <3>4, TablesAdded, Zenon
    <3>6. links[keyS[p]] = mineS[p]
      BY <2>3, <3>1, Zenon DEF ReadInv
    <3>7. opened[keyS[p]] = {}
      <4>1. \A s \in shmem[p] : s.id # mineS[p]
        BY <3>1, Zenon DEF IdInv, TableInv
      <4>2. QED
        BY <2>3, <3>1, <3>6, <4>1, Zenon DEF LinkInv, Linked
    <3>8. /\ opened' = [opened EXCEPT ![keyS[p]] = @ \union {regions + 1}]
          /\ ShmReturn(p)
      BY <2>15, Zenon DEF ShmCreate, ShmReturnKeyed
    <3>9. p \in shmBound
      BY <3>1, Zenon DEF IdInv, CallInv
    <3>10. opened'[keyS[p]] = {regions + 1}
      BY <3>1, <3>7, <3>8, Zenon DEF IdInv, ShmTypeOK
    <3>11. PICK l \in ShmKeys : l = keyS[p]
      BY <3>1, Zenon
    <3>12. Linked(l)'
      BY <3>1, <3>3, <3>4, <3>6, <3>9, <3>10, <3>11, Zenon DEF Linked
    <3>13. LinkInv'
      <4>1. ASSUME NEW k \in ShmKeys, k # l
            PROVE  Linked(k)'
        <5>1. opened'[k] = opened[k] /\ links'[k] = links[k] /\ Linked(k)
          BY <2>3, <3>1, <3>8, <3>11, <4>1, Zenon DEF IdInv, ShmTypeOK, LinkInv
        <5>2. QED
          BY <2>1, <3>1, <3>5, <3>11, <4>1, <5>1, LinkedKept, Zenon
      <4>2. QED
        BY <3>12, <4>1, Zenon DEF LinkInv
    <3>14. pcS'[p] = "idle"
      BY <3>8, Zenon DEF ShmReturn, IdInv, ShmTypeOK
    <3>15. IntactInv'
      BY <2>1, <2>3, <3>1, <3>5, <3>14, Zenon DEF IntactInv, Frame
    <3>16. ReadInv'
      BY <2>1, <2>3, <3>1, <3>14, Zenon DEF ReadInv, Frame
    <3>17. QED
      BY <3>13, <3>15, <3>16, Zenon
  <2>16. CASE ReadRefused(p) \/ ReadUnknown(p)
    <3>1. keyS[p] = NoKey /\ pcS[p] = "wait"
      BY <2>3, <2>16, KeyIsRead, Zenon DEF ReadRefused, ReadUnknown, ShmAnswers
    <3>2. /\ ShmReturn(p)
          /\ UNCHANGED <<shmem, shmBound, shmDead, links, opened>>
      BY <2>16, <3>1, Zenon DEF ReadRefused, ReadUnknown, NotRead, shmTables
    <3>3. pcS'[p] = "idle"
      BY <3>2, Zenon DEF ShmReturn, IdInv, ShmTypeOK
    <3>4. QED
      BY <2>1, <2>3, <3>1, <3>2, <3>3, OnlyCall, Zenon
  <2>17. CASE ReadRemote(p)
    <3>1. PICK s \in Found(SocketOf(idS[p]), idS[p]) :
              /\ shmem' = [shmem EXCEPT ![p] = @ \union
                              {NewSegment(s.id, s.region, keyS[p] = NoKey)}]
              /\ IF keyS[p] = NoKey THEN ShmReturn(p) /\ UNCHANGED opened
                 ELSE ShmReturnKeyed(p, s.region)
      BY <2>17, Zenon DEF ReadRemote
    <3>2. /\ UNCHANGED <<shmBound, shmDead, links>> /\ pcS[p] = "wait"
          /\ SocketOf(idS[p]) \in ShmProcs
      BY <2>17, Zenon DEF ReadRemote, ShmAnswers, IdInv, ShmTypeOK
    <3>3. /\ s \in shmem[SocketOf(idS[p])] /\ s.id = idS[p]
          /\ s \in Segment
      BY <3>1, <3>2, SegmentsHaveIds, Zenon DEF Found
    <3> DEFINE t == NewSegment(s.id, s.region, keyS[p] = NoKey)
    <3>4. t.marked = FALSE
      BY <3>3, SegmentFields, NewSegmentFields, Zenon
    <3> HIDE DEF t
    <3>5. OwnKept /\ NoneMarked'
      BY <2>3, <3>1, <3>4, TablesAdded, Zenon DEF t
    <3>6. ShmReturn(p)
      BY <3>1, Zenon DEF ShmReturnKeyed
    <3>7. CASE keyS[p] = NoKey
      <4>1. LinkInv'
        BY <2>1, <2>3, <3>1, <3>2, <3>5, <3>7, LinkedKept, Zenon DEF LinkInv
      <4>2. QED
        BY <2>1, <2>3, <3>2, <3>5, <3>6, <4>1, OnlyReturn, Zenon
    <3>8. CASE keyS[p] # NoKey
      <4>1. /\ keyS[p] \in ShmKeys /\ links[keyS[p]] = idS[p]
            /\ idS[p] # NoId
        BY <2>3, <3>2, <3>8, KeysOfCalls, Zenon DEF ReadInv, IdInv, CallInv
      <4>2. LinkInv'
        BY <2>1, <2>3, <3>1, <3>2, <3>3, <3>5, <3>8, <4>1, LinkedOpened, Zenon
           DEF ShmReturnKeyed
      <4>3. QED
        BY <2>1, <2>3, <3>2, <3>5, <3>6, <4>2, OnlyReturn, Zenon
    <3>9. QED
      BY <3>7, <3>8, Zenon
  <2>18. CASE ShmCreateFails(p) \/ ShmDie(p)
    BY <2>18, Zenon DEF ShmCreateFails, ShmDie
  <2>19. QED
    BY <1>2, <2>4, <2>5, <2>6, <2>7, <2>8, <2>9, <2>10, <2>11, <2>12, <2>13,
       <2>14, <2>15, <2>16, <2>17, <2>18, Zenon DEF ShmWorks, ShmServed
<1>3. QED
  BY <1>1, <1>2, Zenon DEF ShmNext

(* The invariant holds in every reachable state. *)
THEOREM KeyInvCorrect == ShmSpec => []KeyInv
<1>1. ShmInit => KeyInv
  BY DEF ShmInit, KeyInv, IntactInv, NoneMarked, LinkInv, Linked, ReadInv
<1>2. IdInv /\ KeyInv /\ [ShmNext]_shmVars => KeyInv'
  BY KeyStep, Zenon DEF KeyInv
<1>3. QED
  BY <1>1, <1>2, IdInvCorrect, PTL DEF ShmSpec

(* All calls of shmget() with the same key return the same region, however *)
(* their steps on the symbolic link interleave, unless a segment was torn. *)
THEOREM KeyAgreementCorrect == ShmSpec => []KeyAgreement
<1>1. IdInv /\ KeyInv => KeyAgreement
  <2> SUFFICES ASSUME IdInv, KeyInv, ~torn, NEW k \in ShmKeys,
                      NEW r1 \in opened[k], NEW r2 \in opened[k]
               PROVE  r1 = r2
    BY Zenon DEF KeyAgreement
  <2>1. QED
    BY DEF KeyInv, LinkInv, Linked
<1>2. QED
  BY <1>1, IdInvCorrect, KeyInvCorrect, PTL
=============================================================================
