----------------------- MODULE TermuxInstallerProofs -----------------------
(***************************************************************************)
(* For any number of zip entries, crashes, errors and package events: an   *)
(* installation whose threads do not overlap (there is one thread to run   *)
(* it in) never leaves a part of the bootstrap in $PREFIX, and what it has *)
(* installed stays.                                                        *)
(***************************************************************************)
EXTENDS TermuxInstaller, TLAPS

OneThread == \A t, u \in Threads : t = u

Installing == {"listStaging", "deleteStaging", "listPrefix", "deletePrefix",
               "mkdirs", "extract", "rename"}

Vacant == prefix \intersect Bootstrap = {}

(* Until its rename a thread, and the dialog of a failed one, work on a    *)
(* $PREFIX that has nothing of the bootstrap; what has been extracted      *)
(* stays in the staging directory.                                         *)
Progress ==
    /\ \A t \in Threads :
        /\ pc[t] \in Installing => Vacant
        /\ pc[t] \in Installing \ {"extract", "rename"} => entry[t] = 1
        /\ pc[t] = "extract" => 1..(entry[t] - 1) \subseteq staging
        /\ pc[t] = "rename" => Bootstrap \subseteq staging
    /\ ui \in {"dialog", "again"} =>
        Vacant /\ \A t \in Threads : pc[t] = "none"
    /\ pcM # "idle" => ui = "again"

IInv == TypeOK /\ AllOrNothing /\ Progress

(* The initial state has nothing in it. *)
LEMMA InitIInv == Init => IInv
<1> SUFFICES ASSUME Init PROVE IInv
  OBVIOUS
<1>1. alive \in BOOLEAN
  BY Zenon DEF Init
<1>2. entry \in [Threads -> 1..Entries + 1]
  BY EntriesAssumption DEF Init
<1>3. pc \in [Threads -> {"none"}] /\ todo \in [Threads -> SUBSET Paths]
  BY DEF Init
<1>4. TypeOK
  BY <1>1, <1>2, <1>3 DEF Init, TypeOK
<1>5. AllOrNothing
  BY DEF Init, AllOrNothing
<1>6. Progress
  BY DEF Init, Progress, Vacant, Installing
<1> QED
  BY <1>4, <1>5, <1>6 DEF IInv

(* The bound of each path is known; nothing else about them is needed. *)
LEMMA PathFacts ==
    /\ {Self, EtcDir, EnvFile, Link} \subseteq Paths
    /\ 1..Entries \subseteq Paths /\ Bootstrap \subseteq Paths
    /\ Link \in Bootstrap /\ 1..Entries \subseteq Bootstrap
    /\ Bootstrap \subseteq {Link} \union 1..Entries
    /\ {Self, EtcDir, EnvFile} \intersect Bootstrap = {}
BY EntriesAssumption DEF Paths, Bootstrap, Self, EtcDir, EnvFile, Link

(* Deleting only removes, and only from what is there. *)
LEMMA DeleteFacts ==
    ASSUME NEW dir \in SUBSET Paths, NEW rest \in SUBSET Paths,
           NEW f \in Paths
    PROVE  /\ Without(dir, f) \subseteq dir
           /\ AfterDelete(rest, dir, f) \subseteq Paths
BY PathFacts DEF Without, AfterDelete

(* Every action keeps the types. *)
LEMMA TypeInductive == TypeOK /\ [Next]_vars => TypeOK'
<1> SUFFICES ASSUME TypeOK, [Next]_vars PROVE TypeOK'
  OBVIOUS
<1> USE PathFacts, EntriesAssumption DEF disk, screen, threads, main, env, counts
<1>1. CASE StartProcess
  BY <1>1 DEF TypeOK, StartProcess
<1>2. CASE PackageEvent
  BY <1>2 DEF TypeOK, PackageEvent, MainIdle
<1>3. CASE Open
  BY <1>3 DEF TypeOK, Open, Setup
<1>4. CASE Close
  BY <1>4 DEF TypeOK, Close
<1>5. CASE TryAgain
  BY <1>5 DEF TypeOK, TryAgain
<1>6. CASE EnvMkdir
  BY <1>6 DEF TypeOK, EnvMkdir
<1>7. CASE EnvWrite
  BY <1>7 DEF TypeOK, EnvWrite
<1>8. CASE TryAgainSetup
  BY <1>8 DEF TypeOK, TryAgainSetup
<1>9. CASE SetupAgain
  BY <1>9 DEF TypeOK, SetupAgain, Setup
<1>10. CASE Crash
  <2>1. alive' \in BOOLEAN
    BY <1>10, Zenon DEF Crash
  <2>2. entry' \in [Threads -> 1..Entries + 1]
    BY <1>10 DEF Crash
  <2>3. pc' \in [Threads -> {"none"}] /\ todo' \in [Threads -> SUBSET Paths]
    BY <1>10 DEF Crash
  <2> QED
    BY <1>10, <2>1, <2>2, <2>3 DEF TypeOK, Crash
<1>11. ASSUME NEW f \in Paths, TryAgainDelete(f) PROVE TypeOK'
  BY <1>11, DeleteFacts DEF TypeOK, TryAgainDelete
<1>12. ASSUME NEW t \in Threads, Install(t) \/ Fault(t) PROVE TypeOK'
  <2>1. CASE ListStaging(t)
    BY <2>1 DEF TypeOK, ListStaging, Goto
  <2>2. CASE RemoveStaging(t)
    BY <2>2 DEF TypeOK, RemoveStaging, Goto, Error
  <2>3. CASE ListPrefix(t)
    BY <2>3 DEF TypeOK, ListPrefix, Goto
  <2>4. CASE RemovePrefix(t)
    BY <2>4 DEF TypeOK, RemovePrefix, Goto, Error
  <2>5. CASE Mkdirs(t)
    BY <2>5 DEF TypeOK, Mkdirs, Goto
  <2>6. CASE Extract(t)
    BY <2>6 DEF TypeOK, Extract
  <2>7. CASE Symlink(t)
    BY <2>7 DEF TypeOK, Symlink, Goto, Error
  <2>8. CASE Rename(t)
    BY <2>8 DEF TypeOK, Rename, Goto, Error
  <2>9. CASE InstallEnv(t)
    BY <2>9 DEF TypeOK, InstallEnv, Goto
  <2>10. CASE Done(t)
    BY <2>10 DEF TypeOK, Done, Goto
  <2>11. CASE Fault(t)
    BY <2>11 DEF TypeOK, Fault, Goto, Error
  <2>12. ASSUME NEW f \in Paths, DeleteStaging(t, f) PROVE TypeOK'
    BY <2>12, DeleteFacts DEF TypeOK, DeleteStaging
  <2>13. ASSUME NEW f \in Paths, DeletePrefix(t, f) PROVE TypeOK'
    BY <2>13, DeleteFacts DEF TypeOK, DeletePrefix
  <2> QED
    BY <1>12, <2>1, <2>2, <2>3, <2>4, <2>5, <2>6, <2>7, <2>8, <2>9, <2>10,
       <2>11, <2>12, <2>13
    DEF Install
<1>13. CASE UNCHANGED vars
  BY <1>13 DEF TypeOK, vars
<1> QED
  BY <1>1, <1>2, <1>3, <1>4, <1>5, <1>6, <1>7, <1>8, <1>9, <1>10, <1>11,
     <1>12, <1>13
  DEF Next, Env, Again

(* Before its rename a thread adds to the staging directory only, and what *)
(* it and the dialog delete is no part of the bootstrap.                   *)
LEMMA ProgressInductive ==
    ASSUME OneThread, IInv, [Next]_vars
    PROVE  AllOrNothing' /\ Progress'
<1> DEFINE Goal == AllOrNothing' /\ Progress'
<1> USE DEF IInv, disk, screen, threads, main, env, counts
<1>0. Link \in Bootstrap /\ {Self, EtcDir, EnvFile} \intersect Bootstrap = {}
  BY PathFacts
<1>1. CASE StartProcess
  BY <1>0, <1>1
  DEF AllOrNothing, Progress, Vacant, Installing, TypeOK, StartProcess
<1>2. CASE PackageEvent
  BY <1>0, <1>2
  DEF AllOrNothing, Progress, Vacant, Installing, TypeOK, PackageEvent
<1>3. CASE Open
  BY <1>0, <1>3
  DEF AllOrNothing, Progress, Vacant, Installing, TypeOK, Open, MainIdle,
      Setup, PrefixEmpty
<1>4. CASE Close
  BY <1>0, <1>4
  DEF AllOrNothing, Progress, Vacant, Installing, TypeOK, Close, MainIdle
<1>5. CASE TryAgain
  BY <1>0, <1>5
  DEF AllOrNothing, Progress, Vacant, Installing, TypeOK, TryAgain, MainIdle
<1>6. CASE EnvMkdir
  BY <1>0, <1>6
  DEF AllOrNothing, Progress, Vacant, Installing, TypeOK, EnvMkdir
<1>7. CASE EnvWrite
  BY <1>0, <1>7
  DEF AllOrNothing, Progress, Vacant, Installing, TypeOK, EnvWrite
<1>8. CASE TryAgainSetup
  BY <1>0, <1>8
  DEF AllOrNothing, Progress, Vacant, Installing, TypeOK, TryAgainSetup
<1>9. CASE SetupAgain
  BY <1>0, <1>9
  DEF AllOrNothing, Progress, Vacant, Installing, TypeOK, SetupAgain, Setup,
      PrefixEmpty
<1>10. CASE Crash
  BY <1>0, <1>10 DEF AllOrNothing, Progress, Vacant, Installing, TypeOK, Crash
<1>11. ASSUME NEW f \in Paths, TryAgainDelete(f) PROVE Goal
  BY <1>0, <1>11
  DEF AllOrNothing, Progress, Vacant, Installing, TypeOK, TryAgainDelete,
      Without
<1>12. ASSUME NEW t \in Threads, Install(t) \/ Fault(t) PROVE Goal
  <2>0. \A u \in Threads : u = t
    BY DEF OneThread
  <2>1. CASE ListStaging(t)
    BY <1>0, <2>0, <2>1
    DEF AllOrNothing, Progress, Vacant, Installing, TypeOK, ListStaging, Goto
  <2>2. CASE RemoveStaging(t)
    BY <1>0, <2>0, <2>2
    DEF AllOrNothing, Progress, Vacant, Installing, TypeOK, RemoveStaging,
        Goto, Error
  <2>3. CASE ListPrefix(t)
    BY <1>0, <2>0, <2>3
    DEF AllOrNothing, Progress, Vacant, Installing, TypeOK, ListPrefix, Goto
  <2>4. CASE RemovePrefix(t)
    BY <1>0, <2>0, <2>4
    DEF AllOrNothing, Progress, Vacant, Installing, TypeOK, RemovePrefix,
        Goto, Error
  <2>5. CASE Mkdirs(t)
    <3>1. 1..(entry'[t] - 1) = {} /\ pc'[t] = "extract"
      BY <2>5 DEF Mkdirs, Goto, Progress, Installing, TypeOK
    <3> QED
      BY <1>0, <2>0, <2>5, <3>1
      DEF AllOrNothing, Progress, Vacant, Installing, Mkdirs
  <2>6. CASE Extract(t)
    <3>1. entry[t] \in 1..Entries /\ entry'[t] = entry[t] + 1
      BY <2>6, EntriesAssumption DEF Extract, TypeOK
    <3>2. 1..(entry'[t] - 1) \subseteq staging'
      <4>1. 1..(entry'[t] - 1) \subseteq 1..(entry[t] - 1) \union {entry[t]}
        BY <3>1
      <4>2. 1..(entry[t] - 1) \subseteq staging
        BY <2>6 DEF Extract, Progress
      <4> QED
        BY <2>6, <4>1, <4>2 DEF Extract
    <3>3. pc'[t] = "extract" /\ pc' = pc
      BY <2>6 DEF Extract
    <3> HIDE DEF Bootstrap
    <3> QED
      BY <2>0, <2>6, <3>2, <3>3
      DEF Extract, AllOrNothing, Progress, Vacant, Installing
  <2>7. CASE Symlink(t)
    <3>1. 1..Entries \subseteq staging
      BY <2>7, EntriesAssumption DEF Symlink, Progress
    <3>2. Bootstrap \subseteq staging \union {Link}
      BY <3>1, PathFacts
    <3>3. pc'[t] \in {"rename", "none"}
      BY <2>7 DEF Symlink, Goto, Error, TypeOK
    <3>4. pc'[t] = "rename" => Bootstrap \subseteq staging'
      BY <2>7, <3>2 DEF Symlink, Goto, Error, TypeOK
    <3>5. prefix' = prefix /\ Vacant /\ pcM' = pcM /\ Vacant'
      BY <2>7 DEF Symlink, Progress, Installing, Vacant
    <3>6. ui' \in {"dialog", "again"} => pc'[t] = "none"
      BY <2>7 DEF Symlink, Goto, Error, TypeOK, Progress
    <3>7. pcM' # "idle" => ui' = "again"
      BY <2>7, <3>5 DEF Symlink, Goto, Error, Progress
    <3> QED
      BY <2>0, <3>3, <3>4, <3>5, <3>6, <3>7
      DEF AllOrNothing, Progress, Installing
  <2>8. CASE Rename(t)
    BY <1>0, <2>0, <2>8
    DEF AllOrNothing, Progress, Vacant, Installing, TypeOK, Rename, Goto,
        Error
  <2>9. CASE InstallEnv(t)
    BY <1>0, <2>0, <2>9
    DEF AllOrNothing, Progress, Vacant, Installing, TypeOK, InstallEnv, Goto
  <2>10. CASE Done(t)
    BY <1>0, <2>0, <2>10
    DEF AllOrNothing, Progress, Vacant, Installing, TypeOK, Done, Goto
  <2>11. CASE Fault(t)
    BY <1>0, <2>0, <2>11
    DEF AllOrNothing, Progress, Vacant, Installing, TypeOK, Fault, Goto, Error
  <2>12. ASSUME NEW f \in Paths, DeleteStaging(t, f) PROVE Goal
    BY <1>0, <2>0, <2>12
    DEF AllOrNothing, Progress, Vacant, Installing, TypeOK, DeleteStaging,
        Without
  <2>13. ASSUME NEW f \in Paths, DeletePrefix(t, f) PROVE Goal
    BY <1>0, <2>0, <2>13
    DEF AllOrNothing, Progress, Vacant, Installing, TypeOK, DeletePrefix,
        Without
  <2> QED
    BY <1>12, <2>1, <2>2, <2>3, <2>4, <2>5, <2>6, <2>7, <2>8, <2>9, <2>10,
       <2>11, <2>12, <2>13
    DEF Install
<1>13. CASE UNCHANGED vars
  BY <1>13 DEF AllOrNothing, Progress, Vacant, Installing, TypeOK, vars
<1> QED
  BY <1>1, <1>2, <1>3, <1>4, <1>5, <1>6, <1>7, <1>8, <1>9, <1>10, <1>11,
     <1>12, <1>13
  DEF Next, Env, Again

(* The invariant holds initially and every step keeps it. *)
LEMMA Inductive ==
    ASSUME OneThread
    PROVE  /\ Init => IInv
           /\ IInv /\ [Next]_vars => IInv'
BY InitIInv, TypeInductive, ProgressInductive DEF IInv

(* Types, whatever the number of threads. *)
THEOREM TypeCorrect == Spec => []TypeOK
<1>1. Init => TypeOK
  BY InitIInv DEF IInv
<1> QED
  BY <1>1, TypeInductive, PTL DEF Spec

(* With one installer thread at a time $PREFIX never holds a part of the   *)
(* bootstrap only, however often the process is killed, for any zip file.  *)
THEOREM AllOrNothingCorrect ==
    ASSUME OneThread PROVE Spec => []AllOrNothing
<1>1. Init => IInv
  BY Inductive
<1>2. IInv /\ [Next]_vars => IInv'
  BY Inductive
<1>3. IInv => AllOrNothing
  BY DEF IInv
<1> QED
  BY <1>1, <1>2, <1>3, PTL DEF Spec

(* Only a deletion or a rename could take something away, and each of them *)
(* meets a $PREFIX that is not installed.                                  *)
LEMMA StepKeeps ==
    ASSUME IInv, [Next]_vars, Bootstrap \subseteq prefix
    PROVE  Bootstrap \subseteq prefix'
<1> USE DEF disk
<1>1. ~Vacant
  BY PathFacts DEF Vacant
<1>2. pcM = "idle" /\ \A t \in Threads : pc[t] \notin Installing
  BY <1>1 DEF IInv, Progress
<1>3. CASE StartProcess \/ PackageEvent \/ Open \/ Close \/ TryAgain \/ Crash
  BY <1>3 DEF StartProcess, PackageEvent, Open, Close, TryAgain, Crash
<1>4. CASE Env
  BY <1>4 DEF Env, EnvMkdir, EnvWrite
<1>5. CASE Again
  BY <1>2, <1>5 DEF Again, TryAgainSetup, SetupAgain, TryAgainDelete
<1>6. ASSUME NEW t \in Threads, Install(t) \/ Fault(t)
      PROVE  prefix' = prefix
  <2>1. pc[t] \notin Installing
    BY <1>2
  <2>2. CASE InstallEnv(t) \/ Done(t) \/ Fault(t)
    BY <2>2 DEF InstallEnv, Done, Fault
  <2>3. ASSUME NEW f \in Paths PROVE ~DeleteStaging(t, f) /\ ~DeletePrefix(t, f)
    BY <2>1 DEF DeleteStaging, DeletePrefix, Installing
  <2> QED
    BY <1>6, <2>1, <2>2, <2>3
    DEF Install, Installing, ListStaging, RemoveStaging, ListPrefix,
        RemovePrefix, Mkdirs, Extract, Symlink, Rename
<1>7. CASE UNCHANGED vars
  BY <1>7 DEF vars
<1> QED
  BY <1>3, <1>4, <1>5, <1>6, <1>7 DEF Next

(* With one installer thread at a time an installed $PREFIX stays whole:   *)
(* no retry and no later installation deletes it.                          *)
THEOREM KeepsInstalledCorrect ==
    ASSUME OneThread PROVE Spec => KeepsInstalled
<1>1. Init => IInv
  BY Inductive
<1>2. IInv /\ [Next]_vars => IInv'
  BY Inductive
<1>3. IInv /\ [Next]_vars =>
        [Bootstrap \subseteq prefix => Bootstrap \subseteq prefix']_vars
  BY StepKeeps
<1> QED
  BY <1>1, <1>2, <1>3, PTL DEF Spec, KeepsInstalled
=============================================================================
