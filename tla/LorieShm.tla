------------------------------ MODULE LorieShm ------------------------------
(***************************************************************************)
(* lorie/shm/shmem.c: System V shared memory for processes that have no    *)
(* kernel support for it.  A segment lives in the process that created it; *)
(* the others ask a thread of that process for its descriptor, over a      *)
(* socket that is named after the high half of the segment's id.  A key is *)
(* a symbolic link in the file system that holds an id.                    *)
(*                                                                         *)
(* One thread of each process calls the library.  The mutex is held from   *)
(* the first step of a call to its last, hence it is free exactly when the *)
(* caller is idle.                                                         *)
(***************************************************************************)
EXTENDS Naturals, FiniteSets

CONSTANTS
    ShmProcs,                 \* processes, each with a socket id of its own
    ShmKeys,                  \* keys other than IPC_PRIVATE
    MaxGets,                  \* bound: segments a process makes
    MaxDeaths                 \* bound: processes that die

NoKey == "no key"             \* the call is shmat()

ASSUME ShmAssumption ==
    /\ NoKey \notin ShmKeys
    /\ MaxGets \in [ShmProcs -> Nat]
    /\ \A p \in ShmProcs : MaxGets[p] < 32768

VARIABLES
    shmem,                    \* the segments a process knows: its table
    shmCounter,               \* shmem_counter
    shmBound,                 \* processes with a listening thread
    shmDead,                  \* processes that have died
    links,                    \* the symbolic link of each key, or NoId
    pcS, keyS, idS, mineS,    \* the call: where it is, its key, the id it
                              \* asks for, the id it has taken for the key
    regions,                  \* ashmem regions made so far
    opened,                   \* regions shmget() has returned for a key
    torn                      \* a segment was removed, lost or not made

shmVars == <<shmem, shmCounter, shmBound, shmDead, links, pcS, keyS, idS,
             mineS, regions, opened, torn>>
shmCall == <<pcS, keyS, idS, mineS>>
shmTables == <<shmem, shmCounter, regions>>

NoId == <<"none", 0>>         \* -1; an id is a socket id and a counter

ShmId == ShmProcs \X Nat
Segment == [id : ShmId, region : Nat, addr : BOOLEAN, marked : BOOLEAN]

ShmInit ==
    /\ shmem = [p \in ShmProcs |-> {}]
    /\ shmCounter = [p \in ShmProcs |-> 0]
    /\ shmBound = {} /\ shmDead = {}
    /\ links = [k \in ShmKeys |-> NoId]
    /\ pcS = [p \in ShmProcs |-> "idle"]
    /\ keyS = [p \in ShmProcs |-> NoKey]
    /\ idS = [p \in ShmProcs |-> NoId]
    /\ mineS = [p \in ShmProcs |-> NoId]
    /\ regions = 0 /\ opened = [k \in ShmKeys |-> {}] /\ torn = FALSE

-----------------------------------------------------------------------------
(* ashv_socket_id_from_shmid() *)
SocketOf(id) == id[1]

(* ashv_find_local_index() finds an entry with that id. *)
Known(p, id) == \E s \in shmem[p] : s.id = id

(* Such entries: one, as long as ids are not used twice. *)
Found(p, id) == {s \in shmem[p] : s.id = id}

(* The entry s becomes t. *)
Change(p, s, t) == shmem' = [shmem EXCEPT ![p] = (@ \ {s}) \union {t}]

NewSegment(id, r, a) == [id |-> id, region |-> r, addr |-> a, marked |-> FALSE]

(* The counter wraps around at 15 bits. *)
NextCounter(p) == (shmCounter[p] + 1) % 32768

(* ashv_shmid_from_counter(), after the counter has moved on. *)
NextId(p) == <<p, NextCounter(p)>>

(* The call of p returns and gives the mutex back. *)
ShmReturn(p) ==
    /\ pcS' = [pcS EXCEPT ![p] = "idle"]
    /\ keyS' = [keyS EXCEPT ![p] = NoKey]
    /\ idS' = [idS EXCEPT ![p] = NoId]
    /\ mineS' = [mineS EXCEPT ![p] = NoId]

(* shmget() of p returns region r for the key of its call. *)
ShmReturnKeyed(p, r) ==
    /\ ShmReturn(p)
    /\ opened' = [opened EXCEPT ![keyS[p]] = @ \union {r}]

ShmGoto(p, label) == pcS' = [pcS EXCEPT ![p] = label]

ShmCanCall(p) == p \notin shmDead /\ pcS[p] = "idle"

-----------------------------------------------------------------------------
(* shmget(IPC_PRIVATE): no other process takes part. *)
ShmgetPrivate(p) ==
    /\ ShmCanCall(p) /\ shmCounter[p] < MaxGets[p]
    /\ shmBound' = shmBound \union {p}
    /\ shmCounter' = [shmCounter EXCEPT ![p] = NextCounter(p)]
    /\ shmem' = [shmem EXCEPT
                   ![p] = @ \union {NewSegment(NextId(p), regions + 1, FALSE)}]
    /\ regions' = regions + 1
    /\ UNCHANGED <<shmDead, links, shmCall, opened, torn>>

(* shmget(k): the thread is started and the mutex taken. *)
Shmget(p, k) ==
    /\ ShmCanCall(p) /\ shmCounter[p] < MaxGets[p]
    /\ shmBound' = shmBound \union {p}
    /\ keyS' = [keyS EXCEPT ![p] = k]
    /\ ShmGoto(p, "readlink")
    /\ UNCHANGED <<shmTables, shmDead, links, idS, mineS, opened, torn>>

(* The link names a segment of p's own table: it is returned. *)
ReadLinkKnown(p) ==
    /\ pcS[p] = "readlink"
    /\ links[keyS[p]] # NoId /\ Known(p, links[keyS[p]])
    /\ \E s \in Found(p, links[keyS[p]]) : ShmReturnKeyed(p, s.region)
    /\ UNCHANGED <<shmTables, shmBound, shmDead, links, torn>>

(* The link names another one: ashv_read_remote_segment() is called, with  *)
(* the mutex held.                                                         *)
ReadLinkRemote(p) ==
    /\ pcS[p] = "readlink"
    /\ links[keyS[p]] # NoId /\ ~Known(p, links[keyS[p]])
    /\ idS' = [idS EXCEPT ![p] = links[keyS[p]]]
    /\ ShmGoto(p, "wait")
    /\ UNCHANGED <<shmTables, shmBound, shmDead, links, keyS, mineS, opened,
                   torn>>

(* Mutant of TakeId: the counter stays. *)
TakeIdAgain(p) ==
    /\ mineS' = [mineS EXCEPT ![p] = IF @ # NoId THEN @ ELSE NextId(p)]
    /\ UNCHANGED shmCounter

(* p takes an id for the key, unless this call has one already. *)
TakeId(p) ==
    IF mineS[p] # NoId THEN UNCHANGED <<shmCounter, mineS>>
    ELSE /\ shmCounter' = [shmCounter EXCEPT ![p] = NextCounter(p)]
         /\ mineS' = [mineS EXCEPT ![p] = NextId(p)]

(* There is no link. *)
ReadLinkNone(p) ==
    /\ pcS[p] = "readlink" /\ links[keyS[p]] = NoId
    /\ TakeId(p) /\ ShmGoto(p, "symlink")
    /\ UNCHANGED <<shmem, shmBound, shmDead, links, keyS, idS, regions,
                   opened, torn>>

(* Whatever the link is by now, it is removed. *)
ShmUnlink(p) ==
    /\ pcS[p] = "unlink"
    /\ links' = [links EXCEPT ![keyS[p]] = NoId]
    /\ TakeId(p) /\ ShmGoto(p, "symlink")
    /\ UNCHANGED <<shmem, shmBound, shmDead, keyS, idS, regions, opened, torn>>

(* symlink() fails when another process has made the link. *)
ShmSymlink(p) ==
    /\ pcS[p] = "symlink"
    /\ IF links[keyS[p]] = NoId
       THEN /\ links' = [links EXCEPT ![keyS[p]] = mineS[p]]
            /\ ShmGoto(p, "create")
       ELSE ShmGoto(p, "readlink") /\ UNCHANGED links
    /\ UNCHANGED <<shmTables, shmBound, shmDead, keyS, idS, mineS, opened,
                   torn>>

ShmCreate(p) ==
    /\ pcS[p] = "create"
    /\ shmem' = [shmem EXCEPT
                   ![p] = @ \union {NewSegment(mineS[p], regions + 1, FALSE)}]
    /\ regions' = regions + 1
    /\ ShmReturnKeyed(p, regions + 1)
    /\ UNCHANGED <<shmCounter, shmBound, shmDead, links, torn>>

(* ashmem_create_region() fails: shmget() returns -1 and leaves the link. *)
ShmCreateFails(p) ==
    /\ pcS[p] = "create"
    /\ torn' = TRUE
    /\ ShmReturn(p)
    /\ UNCHANGED <<shmTables, shmBound, shmDead, links, opened>>

-----------------------------------------------------------------------------
(* shmat(id) of a segment p knows. *)
Shmat(p, id) ==
    /\ ShmCanCall(p)
    /\ \E s \in Found(p, id) : Change(p, s, [s EXCEPT !.addr = TRUE])
    /\ UNCHANGED <<shmCounter, regions, shmBound, shmDead, links, shmCall,
                   opened, torn>>

(* shmat(id) of a segment it does not know, and that is not its own. *)
ShmatRemote(p, id) ==
    /\ ShmCanCall(p) /\ ~Known(p, id) /\ SocketOf(id) # p
    /\ idS' = [idS EXCEPT ![p] = id]
    /\ ShmGoto(p, "wait")
    /\ UNCHANGED <<shmTables, shmBound, shmDead, links, keyS, mineS, opened,
                   torn>>

(* Mutant of NotRead: shmat() does not notice and waits on. *)
NotReadWaits(p) ==
    /\ IF keyS[p] = NoKey THEN UNCHANGED <<pcS, mineS>>
                              /\ idS' = [idS EXCEPT ![p] = NoId]
       ELSE ShmGoto(p, "unlink") /\ UNCHANGED <<idS, mineS>>
    /\ UNCHANGED <<shmTables, shmBound, shmDead, links, keyS, opened, torn>>

(* ashv_read_remote_segment() returns -1: shmget() goes on, shmat() fails. *)
NotRead(p) ==
    /\ IF keyS[p] = NoKey THEN ShmReturn(p)
       ELSE ShmGoto(p, "unlink") /\ UNCHANGED <<keyS, idS, mineS>>
    /\ UNCHANGED <<shmTables, shmBound, shmDead, links, opened, torn>>

(* The owner is gone, or goes while p waits for its answer. *)
ReadRefused(p) ==
    /\ pcS[p] = "wait"
    /\ SocketOf(idS[p]) \in shmDead \/ SocketOf(idS[p]) \notin shmBound
    /\ NotRead(p)

(* Mutant of ShmAnswers: the thread does not take the mutex. *)
ShmAnswersUnlocked(p) ==
    pcS[p] = "wait" /\ SocketOf(idS[p]) \in shmBound \ shmDead

(* The thread of the owner can look into its table once no call of that    *)
(* process holds the mutex.                                                *)
ShmAnswers(p) ==
    /\ pcS[p] = "wait"
    /\ SocketOf(idS[p]) \in shmBound \ shmDead
    /\ pcS[SocketOf(idS[p])] = "idle"

(* ashv_thread_function() does not find the id and closes the connection. *)
ReadUnknown(p) ==
    /\ ShmAnswers(p) /\ ~Known(SocketOf(idS[p]), idS[p])
    /\ NotRead(p)

(* It finds it: the descriptor becomes an entry of p's own table. *)
ReadRemote(p) ==
    /\ ShmAnswers(p) /\ Known(SocketOf(idS[p]), idS[p])
    /\ \E s \in Found(SocketOf(idS[p]), idS[p]) :
          /\ shmem' = [shmem EXCEPT ![p] = @ \union
                          {NewSegment(s.id, s.region, keyS[p] = NoKey)}]
          /\ IF keyS[p] = NoKey THEN ShmReturn(p) /\ UNCHANGED opened
             ELSE ShmReturnKeyed(p, s.region)
    /\ UNCHANGED <<shmCounter, regions, shmBound, shmDead, links, torn>>

-----------------------------------------------------------------------------
(* android_shmem_delete() *)
ShmDelete(p, s) == shmem' = [shmem EXCEPT ![p] = @ \ {s}]

(* shmdt(): the entry goes when it was marked, or is another process's. *)
Shmdt(p, s) ==
    /\ ShmCanCall(p) /\ s.addr
    /\ IF s.marked \/ SocketOf(s.id) # p
       THEN ShmDelete(p, s)
       ELSE Change(p, s, [s EXCEPT !.addr = FALSE])
    /\ UNCHANGED <<shmCounter, regions, shmBound, shmDead, links, shmCall,
                   opened, torn>>

(* shmctl(IPC_RMID) *)
ShmctlRmid(p, s) ==
    /\ ShmCanCall(p)
    /\ IF s.addr THEN Change(p, s, [s EXCEPT !.marked = TRUE])
       ELSE ShmDelete(p, s)
    /\ torn' = (torn \/ SocketOf(s.id) = p)
    /\ UNCHANGED <<shmCounter, regions, shmBound, shmDead, links, shmCall,
                   opened>>

ShmDie(p) ==
    /\ p \notin shmDead /\ Cardinality(shmDead) < MaxDeaths
    /\ shmDead' = shmDead \union {p}
    /\ shmem' = [shmem EXCEPT ![p] = {}]
    /\ torn' = TRUE
    /\ ShmReturn(p)
    /\ UNCHANGED <<shmCounter, regions, shmBound, links, opened>>

-----------------------------------------------------------------------------
(* Ids that clients may pass around: every one that was ever taken. *)
Issued == UNION {{<<p, c>> : c \in 1 .. shmCounter[p]} : p \in ShmProcs}

ShmWorks(p) ==
    \/ ReadLinkKnown(p) \/ ReadLinkRemote(p) \/ ReadLinkNone(p)
    \/ ShmUnlink(p) \/ ShmSymlink(p) \/ ShmCreate(p) \/ ShmCreateFails(p)
    \/ ReadRefused(p)

ShmServed(p) == ReadUnknown(p) \/ ReadRemote(p)

ShmNext ==
    \E p \in ShmProcs :
        \/ ShmgetPrivate(p) \/ \E k \in ShmKeys : Shmget(p, k)
        \/ \E id \in Issued : Shmat(p, id) \/ ShmatRemote(p, id)
        \/ \E s \in shmem[p] : Shmdt(p, s) \/ ShmctlRmid(p, s)
        \/ ShmWorks(p) \/ ShmServed(p) \/ ShmDie(p)

ShmSpec == ShmInit /\ [][ShmNext]_shmVars

-----------------------------------------------------------------------------
(* Properties. *)

ShmLabels ==
    {"idle", "readlink", "wait", "unlink", "symlink", "create"}

(* Every variable has the values its declaration says. *)
ShmTypeOK ==
    /\ shmem \in [ShmProcs -> SUBSET Segment]
    /\ shmCounter \in [ShmProcs -> Nat]
    /\ shmBound \subseteq ShmProcs /\ shmDead \subseteq ShmProcs
    /\ links \in [ShmKeys -> ShmId \union {NoId}]
    /\ pcS \in [ShmProcs -> ShmLabels]
    /\ keyS \in [ShmProcs -> ShmKeys \union {NoKey}]
    /\ idS \in [ShmProcs -> ShmId \union {NoId}]
    /\ mineS \in [ShmProcs -> ShmId \union {NoId}]
    /\ regions \in Nat
    /\ opened \in [ShmKeys -> SUBSET Nat]
    /\ torn \in BOOLEAN

(* All calls of shmget() with the same key, in whatever processes and      *)
(* however their steps on the symbolic link interleave, return the same    *)
(* region, as long as no segment was removed by its owner, lost with its   *)
(* process or could not be made.                                           *)
KeyAgreement ==
    torn \/ \A k \in ShmKeys : \A r1, r2 \in opened[k] : r1 = r2

(* Two entries with the same id, in one table or in two, are for the same  *)
(* region: an id is never used for a second segment.                       *)
SameIdSameSegment ==
    \A p, q \in ShmProcs : \A s \in shmem[p], t \in shmem[q] :
        s.id = t.id => s.region = t.region

(* Processes that wait for each other, or for themselves: each holds its   *)
(* own mutex, and the listening thread of each needs it to answer.         *)
WaitCycle ==
    \E S \in SUBSET ShmProcs \ {{}} :
        \A p \in S : pcS[p] = "wait" /\ SocketOf(idS[p]) \in S

(* Every call of shmget() and shmat() returns, whoever dies or removes     *)
(* segments meanwhile, unless processes wait for each other in a cycle.    *)
ShmCallsReturn ==
    \A p \in ShmProcs : []<>(pcS[p] = "idle" \/ WaitCycle)
=============================================================================
