-------------------------- MODULE TermuxInstaller --------------------------
(***************************************************************************)
(* com.termux.app.TermuxInstaller.setupBootstrapIfNeeded(): the bootstrap  *)
(* is extracted into a staging directory, which is renamed to $PREFIX.     *)
(* With it, what else writes to $PREFIX: writeEnvironmentToFile(), called  *)
(* when the process starts, when a plugin's package changes, and by the    *)
(* installer itself.  The process may be killed between any two steps.     *)
(*                                                                         *)
(* A directory is the set of the paths in it and of the directory itself;  *)
(* the bootstrap is the files 1..Entries and a symlink.                    *)
(***************************************************************************)
EXTENDS Integers

CONSTANTS
    Threads,                  \* threads that setupBootstrapIfNeeded() starts
    Entries,                  \* number of files in the zip
    MaxCrashes, MaxFaults,    \* bounds: process deaths, I/O errors
    MaxEvents                 \* bound: changes of plugin packages

ASSUME EntriesAssumption == Entries \in Nat
ASSUME MainAssumption == "main" \notin Threads /\ "nobody" \notin Threads
ASSUME BoundsAssumption == {MaxCrashes, MaxFaults, MaxEvents} \subseteq Nat

Self == -3                    \* the directory itself
EtcDir == -2                  \* etc/termux ...
EnvFile == -1                 \* ... and the file termux.env in it
Link == 0                     \* what is made from SYMLINKS.txt
Bootstrap == Link..Entries
Paths == Self..Entries

VARIABLES
    staging, prefix,          \* the directories; {} if there is none
    alive,                    \* the application's process
    ui,                       \* what the activity shows
    owner,                    \* the thread that works for this activity
    pc, entry, todo,          \* of the threads; todo: paths to delete
    pcM, todoM,               \* the main thread in the dialog's onClick()
    pcE, envBy,               \* writeEnvironmentToFile(), and who runs it
    crashes, faults, events

disk == <<staging, prefix>>
threads == <<pc, entry, todo>>
env == <<pcE, envBy>>
main == <<pcM, todoM>>
screen == <<ui, owner>>
counts == <<crashes, faults, events>>
vars == <<disk, alive, screen, threads, main, env, counts>>

(* A new installation, or one whose data has been cleared. *)
Init ==
    /\ staging = {} /\ prefix = {}
    /\ alive = FALSE
    /\ ui = "closed" /\ owner = "nobody"
    /\ pc = [t \in Threads |-> "none"]
    /\ entry = [t \in Threads |-> 1]
    /\ todo = [t \in Threads |-> {}]
    /\ pcM = "idle" /\ todoM = {}
    /\ pcE = "idle" /\ envBy = "nobody"
    /\ crashes = 0 /\ faults = 0 /\ events = 0

(* Files are deleted before the directory they are in, which goes only if  *)
(* it is empty.                                                            *)
Deletable(rest) == {f \in rest \ {Self} : f = EtcDir => EnvFile \notin rest}
Without(dir, f) == IF f = EtcDir /\ EnvFile \in dir THEN dir ELSE dir \ {f}

MainIdle == alive /\ pcM = "idle" /\ envBy # "main"

-----------------------------------------------------------------------------
(* writeEnvironmentToFile() makes the directory etc/termux and then the    *)
(* file in it (by way of another one, which counts as the same here).      *)

EnvMkdir ==
    /\ pcE = "mkdir"
    /\ prefix' = prefix \union {Self, EtcDir}
    /\ pcE' = "write"
    /\ UNCHANGED <<staging, alive, screen, threads, main, envBy, counts>>

(* The directory may be gone again; the error is only logged. *)
EnvWrite ==
    /\ pcE = "write"
    /\ prefix' = IF EtcDir \in prefix THEN prefix \union {EnvFile} ELSE prefix
    /\ pcE' = "idle" /\ envBy' = "nobody"
    /\ UNCHANGED <<staging, alive, screen, threads, main, counts>>

(* TermuxApplication.onCreate() *)
StartProcess ==
    /\ ~alive
    /\ alive' = TRUE
    /\ pcE' = "mkdir" /\ envBy' = "main"
    /\ UNCHANGED <<disk, screen, threads, main, counts>>

(* SystemEventReceiver.onActionPackageUpdated() *)
PackageEvent ==
    /\ MainIdle /\ pcE = "idle" /\ events < MaxEvents
    /\ events' = events + 1
    /\ pcE' = "mkdir" /\ envBy' = "main"
    /\ UNCHANGED <<disk, alive, screen, threads, main, crashes, faults>>

-----------------------------------------------------------------------------
(* The main thread.                                                        *)

(* isTermuxPrefixDirectoryEmpty(): nothing but what writeEnvironmentToFile *)
(* leaves; a parent without an ignored file in it counts as something.     *)
PrefixEmpty ==
    /\ prefix \subseteq {Self, EtcDir, EnvFile}
    /\ EtcDir \in prefix => EnvFile \in prefix

(* setupBootstrapIfNeeded(), up to the start of its thread. *)
Setup ==
    \/ /\ ~PrefixEmpty
       /\ ui' = "shell"                  \* whenDone.run()
       /\ UNCHANGED <<owner, threads>>
    \/ /\ PrefixEmpty
       /\ \E t \in Threads :
            /\ pc[t] = "none"
            /\ pc' = [pc EXCEPT ![t] = "listStaging"]
            /\ entry' = [entry EXCEPT ![t] = 1]
            /\ owner' = t
       /\ ui' = "progress"
       /\ UNCHANGED todo

(* onServiceConnected() with no session. *)
Open ==
    /\ MainIdle /\ ui = "closed"
    /\ Setup
    /\ UNCHANGED <<disk, alive, main, env, counts>>

(* The activity is destroyed: "abort", recreation, or for lack of memory. *)
Close ==
    /\ MainIdle /\ ui # "closed"
    /\ ui' = "closed" /\ owner' = "nobody"
    /\ UNCHANGED <<disk, alive, threads, main, env, counts>>

(* The dialog's "try again" deletes $PREFIX ... *)
TryAgain ==
    /\ MainIdle /\ ui = "dialog"
    /\ pcM' = "delete" /\ todoM' = prefix \ {Self}
    /\ ui' = "again"
    /\ UNCHANGED <<disk, alive, owner, threads, env, counts>>

TryAgainDelete(f) ==
    /\ pcM = "delete" /\ f \in Deletable(todoM)
    /\ prefix' = Without(prefix, f)
    /\ todoM' = todoM \ {f}
    /\ UNCHANGED <<staging, alive, screen, threads, pcM, env, counts>>

(* ... and begins anew; an error of deleteFile() is ignored. *)
TryAgainSetup ==
    /\ pcM = "delete" /\ todoM = {}
    /\ prefix' = IF prefix = {Self} THEN {} ELSE prefix
    /\ pcM' = "setup"
    /\ UNCHANGED <<staging, alive, screen, threads, todoM, env, counts>>

SetupAgain ==
    /\ pcM = "setup"
    /\ Setup
    /\ pcM' = "idle"
    /\ UNCHANGED <<disk, alive, todoM, env, counts>>

-----------------------------------------------------------------------------
(* The thread started by setupBootstrapIfNeeded().                         *)

Goto(t, label) == pc' = [pc EXCEPT ![t] = label]

(* showBootstrapErrorDialog(), if the activity is still there. *)
Error(t) ==
    /\ Goto(t, "none")
    /\ ui' = IF owner = t THEN "dialog" ELSE ui
    /\ UNCHANGED owner

(* deleteFile(): list, delete one after the other, then the directory.  An *)
(* exception, noted as Self in todo, lets the other files be deleted.      *)
AfterDelete(rest, dir, f) ==
    (rest \ {f}) \union (IF f \in dir /\ f \notin Without(dir, f) THEN {}
                                                             ELSE {Self})

(* Mutant of ListStaging: what a killed installation left is kept. *)
ListStagingKept(t) ==
    /\ pc[t] = "listStaging"
    /\ Goto(t, "listPrefix")
    /\ UNCHANGED <<disk, alive, screen, entry, todo, main, env, counts>>

ListStaging(t) ==
    /\ pc[t] = "listStaging"
    /\ todo' = [todo EXCEPT ![t] = staging \ {Self}]
    /\ Goto(t, IF staging = {} THEN "listPrefix" ELSE "deleteStaging")
    /\ UNCHANGED <<disk, alive, screen, entry, main, env, counts>>

DeleteStaging(t, f) ==
    /\ pc[t] = "deleteStaging" /\ f \in Deletable(todo[t])
    /\ staging' = Without(staging, f)
    /\ todo' = [todo EXCEPT ![t] = AfterDelete(@, staging, f)]
    /\ UNCHANGED <<prefix, alive, screen, pc, entry, main, env, counts>>

RemoveStaging(t) ==
    /\ pc[t] = "deleteStaging" /\ Deletable(todo[t]) = {}
    /\ IF todo[t] = {} /\ staging = {Self}
       THEN staging' = {} /\ Goto(t, "listPrefix") /\ UNCHANGED screen
       ELSE Error(t) /\ UNCHANGED staging
    /\ todo' = [todo EXCEPT ![t] = {}]
    /\ UNCHANGED <<prefix, alive, entry, main, env, counts>>

ListPrefix(t) ==
    /\ pc[t] = "listPrefix"
    /\ todo' = [todo EXCEPT ![t] = prefix \ {Self}]
    /\ Goto(t, IF prefix = {} THEN "mkdirs" ELSE "deletePrefix")
    /\ UNCHANGED <<disk, alive, screen, entry, main, env, counts>>

DeletePrefix(t, f) ==
    /\ pc[t] = "deletePrefix" /\ f \in Deletable(todo[t])
    /\ prefix' = Without(prefix, f)
    /\ todo' = [todo EXCEPT ![t] = AfterDelete(@, prefix, f)]
    /\ UNCHANGED <<staging, alive, screen, pc, entry, main, env, counts>>

RemovePrefix(t) ==
    /\ pc[t] = "deletePrefix" /\ Deletable(todo[t]) = {}
    /\ IF todo[t] = {} /\ prefix = {Self}
       THEN prefix' = {} /\ Goto(t, "mkdirs") /\ UNCHANGED screen
       ELSE Error(t) /\ UNCHANGED prefix
    /\ todo' = [todo EXCEPT ![t] = {}]
    /\ UNCHANGED <<staging, alive, entry, main, env, counts>>

(* isTermuxPrefix[Staging]DirectoryAccessible(true, true) *)
Mkdirs(t) ==
    /\ pc[t] = "mkdirs"
    /\ staging' = staging \union {Self}
    /\ prefix' = prefix \union {Self}
    /\ Goto(t, "extract")
    /\ UNCHANGED <<alive, screen, entry, todo, main, env, counts>>

(* One zip entry; ensureDirectoryExists() makes its directory. *)
Extract(t) ==
    /\ pc[t] = "extract" /\ entry[t] <= Entries
    /\ staging' = staging \union {Self, entry[t]}
    /\ entry' = [entry EXCEPT ![t] = @ + 1]
    /\ UNCHANGED <<prefix, alive, screen, pc, todo, main, env, counts>>

(* Mutant of Symlink: the last entry is not waited for. *)
SymlinkEarly(t) ==
    /\ pc[t] = "extract" /\ entry[t] >= Entries
    /\ staging' = staging \union {Link}
    /\ Goto(t, "rename")
    /\ UNCHANGED <<prefix, alive, screen, entry, todo, main, env, counts>>

(* Os.symlink() overwrites nothing and makes no directory. *)
Symlink(t) ==
    /\ pc[t] = "extract" /\ entry[t] = Entries + 1
    /\ IF Self \in staging /\ Link \notin staging
       THEN /\ staging' = staging \union {Link}
            /\ Goto(t, "rename")
            /\ UNCHANGED screen
       ELSE Error(t) /\ UNCHANGED staging
    /\ UNCHANGED <<prefix, alive, entry, todo, main, env, counts>>

(* renameTo() replaces an empty directory only. *)
Rename(t) ==
    /\ pc[t] = "rename"
    /\ IF Self \in staging /\ prefix \subseteq {Self}
       THEN /\ prefix' = staging /\ staging' = {}
            /\ Goto(t, "env")
            /\ UNCHANGED screen
       ELSE Error(t) /\ UNCHANGED disk
    /\ UNCHANGED <<alive, entry, todo, main, env, counts>>

(* Mutant of InstallEnv: an error here is one of the installation. *)
InstallEnvFails(t) ==
    /\ pc[t] = "env" /\ pcE = "idle"
    /\ Error(t)
    /\ UNCHANGED <<disk, alive, entry, todo, main, env, counts>>

(* writeEnvironmentToFile() is synchronized. *)
InstallEnv(t) ==
    /\ pc[t] = "env" /\ pcE = "idle"
    /\ pcE' = "mkdir" /\ envBy' = t
    /\ Goto(t, "done")
    /\ UNCHANGED <<disk, alive, screen, entry, todo, main, counts>>

(* runOnUiThread(whenDone) *)
Done(t) ==
    /\ pc[t] = "done" /\ envBy # t
    /\ Goto(t, "none")
    /\ ui' = IF owner = t THEN "shell" ELSE ui
    /\ UNCHANGED <<disk, alive, owner, entry, todo, main, env, counts>>

(* An I/O error, at any of the steps that report one. *)
Fault(t) ==
    /\ pc[t] \notin {"none", "env", "done"} /\ faults < MaxFaults
    /\ faults' = faults + 1
    /\ Error(t)
    /\ UNCHANGED <<disk, alive, entry, todo, main, env, crashes, events>>

-----------------------------------------------------------------------------
(* Android kills the process. *)
Crash ==
    /\ alive /\ crashes < MaxCrashes
    /\ crashes' = crashes + 1
    /\ alive' = FALSE
    /\ ui' = "closed" /\ owner' = "nobody"
    /\ pc' = [t \in Threads |-> "none"]
    /\ entry' = [t \in Threads |-> 1]
    /\ todo' = [t \in Threads |-> {}]
    /\ pcM' = "idle" /\ todoM' = {} /\ pcE' = "idle" /\ envBy' = "nobody"
    /\ UNCHANGED <<disk, faults, events>>

Env == EnvMkdir \/ EnvWrite
Again == TryAgainSetup \/ SetupAgain \/ \E f \in Paths : TryAgainDelete(f)
Install(t) ==
    \/ ListStaging(t) \/ RemoveStaging(t) \/ ListPrefix(t) \/ RemovePrefix(t)
    \/ \E f \in Paths : DeleteStaging(t, f) \/ DeletePrefix(t, f)
    \/ Mkdirs(t) \/ Extract(t) \/ Symlink(t) \/ Rename(t) \/ InstallEnv(t)
    \/ Done(t)

Next ==
    \/ StartProcess \/ PackageEvent \/ Open \/ Close \/ TryAgain
    \/ Env \/ Again
    \/ \E t \in Threads : Install(t) \/ Fault(t)
    \/ Crash

Spec == Init /\ [][Next]_vars

(* The threads run; the user opens the application again whenever it is    *)
(* closed, and presses "try again" in a dialog left open.                  *)
FairSpec ==
    /\ Spec
    /\ WF_vars(StartProcess) /\ WF_vars(Open) /\ WF_vars(TryAgain)
    /\ WF_vars(Env) /\ WF_vars(Again)
    /\ \A t \in Threads : WF_vars(Install(t))

-----------------------------------------------------------------------------
(* Every variable has the values its declaration says. *)
TypeOK ==
    /\ staging \subseteq Paths /\ prefix \subseteq Paths
    /\ alive \in BOOLEAN
    /\ ui \in {"closed", "progress", "dialog", "again", "shell"}
    /\ owner \in Threads \union {"nobody"}
    /\ pc \in [Threads -> {"none", "listStaging", "deleteStaging",
                "listPrefix", "deletePrefix", "mkdirs", "extract", "rename",
                "env", "done"}]
    /\ entry \in [Threads -> 1..Entries + 1]
    /\ todo \in [Threads -> SUBSET Paths]
    /\ pcM \in {"idle", "delete", "setup"} /\ todoM \subseteq Paths
    /\ pcE \in {"idle", "mkdir", "write"}
    /\ envBy \in Threads \union {"main", "nobody"}
    /\ crashes \in Nat /\ faults \in Nat /\ events \in Nat

(* $PREFIX holds the whole bootstrap or nothing of it, wherever the        *)
(* process is killed and whatever fails: the rename is the only step that  *)
(* brings it there, and the staging directory is complete by then.         *)
AllOrNothing == prefix \intersect Bootstrap \in {{}, Bootstrap}

(* An installed $PREFIX is not deleted again, by a retry that comes too    *)
(* late or by an installation that did not see it.                         *)
KeepsInstalled == [][Bootstrap \subseteq prefix => Bootstrap \subseteq prefix']_vars

(* A user who keeps opening the application and trying again gets a shell, *)
(* after any leftovers of killed or failed installations.                  *)
ShellReached == []<>(ui = "shell")

-----------------------------------------------------------------------------
(* What the class comment says and the code does not keep.                 *)

(* "If $PREFIX already exist, assume that it is correct and be done.  Note *)
(* that this relies on that we do not create a broken $PREFIX directory":  *)
(* a shell is started only in a $PREFIX with the bootstrap.                *)
AssumedCorrect == ui = "shell" => Bootstrap \subseteq prefix
=============================================================================
