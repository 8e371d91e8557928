--------------------------- MODULE TermuxService ---------------------------
(***************************************************************************)
(* com.termux.app.TermuxService with the commands it runs: ExecutionCommand*)
(* objects in the lists of TermuxShellManager, as AppShells (background    *)
(* tasks, each with a thread that waits for its process) or TermuxSessions *)
(* (terminal sessions), and the results sent back to the plugins that      *)
(* asked for them.                                                         *)
(*                                                                         *)
(* The main thread runs one callback after the other; only the loop that   *)
(* kills tasks is cut at the points where an AppShell thread can intervene.*)
(* The lists are sets: no property depends on their order.                 *)
(***************************************************************************)
EXTENDS ExecutionCommand

CONSTANTS
    Tasks, Sessions,          \* commands, by their runner
    Plugin,                   \* isPluginExecutionCommand
    Expecting,                \* isPluginExecutionCommandWithPendingResult()
    Rejected,                 \* shellCreateMode is unusable
    Namesakes,                \* commands whose shellName is a certain one
    Named,                    \* of them: shellCreateMode NO_SHELL_WITH_NAME
    MaxRestarts               \* bound: how often the service is recreated

Cmd == Tasks \union Sessions

ASSUME KindsAssumption ==
    /\ Tasks \intersect Sessions = {}
    /\ Tasks \subseteq Plugin /\ Plugin \subseteq Cmd
    /\ Expecting \subseteq Plugin /\ Rejected \subseteq Plugin
    /\ Namesakes \subseteq Cmd
    /\ Named \subseteq (Namesakes \intersect Plugin) \ Rejected
ASSUME RestartsAssumption == MaxRestarts \in Nat

VARIABLES
    state, exitCode,          \* of each command
    called,                   \* commands with processingResultsAlreadyCalled
    results,                  \* how often its plugin has been sent a result
    proc,                     \* its process, as the kernel and main see it
    pcT,                      \* the AppShell's thread
    pending, tasks, sessions, \* the lists of TermuxShellManager
    posted,                   \* onAppShellExited() posted to the main thread
    up, mWantsToStop, stopping, wakeLock, bound, restarts,
    orphans,                  \* commands of a destroyed service object
    pcM, cur,                 \* the main thread; the task it is killing
    killSessions, killTasks, killPending   \* what is left to kill

command == <<state, exitCode, called, results, proc, pcT>>
lists == <<pending, tasks, sessions>>
service == <<up, mWantsToStop, stopping, wakeLock, bound, restarts, orphans>>
main == <<pcM, cur, killSessions, killTasks, killPending>>
vars == <<command, lists, posted, service, main>>

Idle == pcM = "idle"
Alive == pcM # "dead"
NoCmd == "none"

Init ==
    /\ state = [c \in Cmd |-> "PRE_EXECUTION"]
    /\ exitCode = [c \in Cmd |-> "null"]
    /\ called = {}
    /\ results = [c \in Cmd |-> 0]
    /\ proc = [c \in Cmd |-> "none"]
    /\ pcT = [c \in Cmd |-> "none"]
    /\ pending = {} /\ tasks = {} /\ sessions = {} /\ posted = {}
    /\ up = TRUE /\ mWantsToStop = FALSE /\ stopping = FALSE
    /\ wakeLock = FALSE /\ bound = FALSE /\ restarts = 0 /\ orphans = {}
    /\ pcM = "idle" /\ cur = NoCmd
    /\ killSessions = {} /\ killTasks = {} /\ killPending = {}

-----------------------------------------------------------------------------
(* Parts of several handlers.                                              *)

(* ResultSender: the result of each command in cs goes to its plugin. *)
Send(cs) ==
    results' = [c \in Cmd |-> IF c \in cs \intersect Expecting
                              THEN results[c] + 1 ELSE results[c]]

(* updateNotification(), called after the lists or the lock have changed.  *)
UpdateNotification ==
    stopping' = (stopping \/ (~wakeLock' /\ sessions' = {} /\ tasks' = {}))

(* TermuxPluginUtils.processPluginExecutionCommandResult() for a plugin's  *)
(* command c: it is ignored unless the command has executed.               *)
ProcessResult(c) ==
    IF c \in Plugin /\ HasExecuted(state[c])
    THEN Send({c}) /\ state' = [state EXCEPT ![c] = SetState(@, "SUCCESS")]
    ELSE UNCHANGED <<results, state>>

(* shouldNotProcessResults() and, the first time, onAppShellExited(). *)
ProcessAppShellResult(c) ==
    /\ called' = called \union {c}
    /\ posted' = IF c \in called THEN posted ELSE posted \union {c}

Fresh(c) == state[c] = "PRE_EXECUTION" /\ c \notin pending

ShellWithName(c) ==
    (IF c \in Tasks THEN tasks ELSE sessions) \intersect Namesakes # {}

-----------------------------------------------------------------------------
(* onStartCommand() with ACTION_SERVICE_EXECUTE: actionServiceExecute().   *)

SubmitBadRunner(c) ==
    /\ Idle /\ up /\ c \in Plugin /\ Fresh(c)
    /\ state' = [state EXCEPT ![c] = SetState(@, "FAILED")]
    /\ Send({c})
    /\ UNCHANGED <<exitCode, called, proc, pcT, lists, posted, service, main>>

(* processShellCreateMode() answers with an error; the command stays in    *)
(* the pending list.                                                       *)
SubmitRejected(c) ==
    /\ Idle /\ up /\ c \in Rejected /\ Fresh(c)
    /\ pending' = pending \union {c}
    /\ state' = [state EXCEPT ![c] = SetState(@, "FAILED")]
    /\ Send({c})
    /\ UNCHANGED <<exitCode, called, proc, pcT, tasks, sessions, posted,
                   service, main>>

(* There is a shell of that name: nothing is run, and nobody is told. *)
SubmitNamesake(c) ==
    /\ Idle /\ up /\ c \in Named /\ Fresh(c) /\ ShellWithName(c)
    /\ pending' = pending \union {c}
    /\ UNCHANGED <<command, tasks, sessions, posted, service, main>>

Creates(c) ==
    /\ Idle /\ up /\ c \in Plugin \ Rejected /\ Fresh(c)
    /\ ~(c \in Named /\ ShellWithName(c))

(* AppShell.execute() returns null: no executable, or exec() failed. *)
SubmitTaskFails(c) ==
    /\ c \in Tasks /\ Creates(c)
    /\ pending' = pending \union {c}
    /\ state' = [state EXCEPT ![c] = SetState(@, "FAILED")]
    /\ called' = called \union {c}
    /\ Send({c})
    /\ UNCHANGED <<exitCode, proc, pcT, tasks, sessions, posted, service,
                   main>>

(* Mutant of SubmitTask: the command is not taken off the pending list. *)
SubmitTaskPending(c) ==
    /\ c \in Tasks /\ Creates(c)
    /\ state' = [state EXCEPT ![c] = SetState(@, "EXECUTING")]
    /\ proc' = [proc EXCEPT ![c] = "running"]
    /\ pcT' = [pcT EXCEPT ![c] = "start"]
    /\ tasks' = tasks \union {c}
    /\ pending' = pending \union {c}
    /\ UNCHANGED <<exitCode, called, results, sessions, posted, service, main>>

SubmitTask(c) ==
    /\ c \in Tasks /\ Creates(c)
    /\ state' = [state EXCEPT ![c] = SetState(@, "EXECUTING")]
    /\ proc' = [proc EXCEPT ![c] = "running"]
    /\ pcT' = [pcT EXCEPT ![c] = "start"]
    /\ tasks' = tasks \union {c}
    /\ UNCHANGED <<exitCode, called, results, pending, sessions, posted,
                   service, main>>

SubmitSession(c) ==
    /\ c \in Sessions /\ Creates(c)
    /\ state' = [state EXCEPT ![c] = SetState(@, "EXECUTING")]
    /\ sessions' = sessions \union {c}
    /\ UNCHANGED <<exitCode, called, results, proc, pcT, pending, tasks,
                   posted, service, main>>

(* The user adds a session in the activity. *)
NewSession(c) ==
    /\ Idle /\ bound /\ c \in Sessions \ Plugin /\ Fresh(c)
    /\ state' = [state EXCEPT ![c] = SetState(@, "EXECUTING")]
    /\ sessions' = sessions \union {c}
    /\ UNCHANGED <<exitCode, called, results, proc, pcT, pending, tasks,
                   posted, service, main>>

-----------------------------------------------------------------------------
(* AppShell.executeInner(), in the thread of task c.                       *)

(* The exit code is reset, while the main thread may be setting it. *)
ThreadStart(c) ==
    /\ Alive /\ pcT[c] = "start"
    /\ exitCode' = [exitCode EXCEPT ![c] = "null"]
    /\ pcT' = [pcT EXCEPT ![c] = "wait"]
    /\ UNCHANGED <<state, called, results, proc, lists, posted, service, main>>

(* The process ends by itself. *)
TaskExit(c) ==
    /\ c \in Tasks /\ proc[c] = "running"
    /\ proc' = [proc EXCEPT ![c] = "exited"]
    /\ UNCHANGED <<state, exitCode, called, results, pcT, lists, posted,
                   service, main>>

(* Writing stdin fails in a way the code does not expect. *)
ThreadStdinFails(c) ==
    /\ Alive /\ pcT[c] = "wait"
    /\ state' = [state EXCEPT ![c] = SetState(@, "FAILED")]
    /\ pcT' = [pcT EXCEPT ![c] = "failed"]
    /\ UNCHANGED <<exitCode, called, results, proc, lists, posted, service,
                   main>>

ThreadFailed(c) ==
    /\ Alive /\ pcT[c] = "failed"
    /\ exitCode' = [exitCode EXCEPT ![c] = "1"]
    /\ ProcessAppShellResult(c)
    /\ pcT' = [pcT EXCEPT ![c] = "kill"]
    /\ UNCHANGED <<state, results, proc, lists, service, main>>

ThreadKill(c) ==
    /\ Alive /\ pcT[c] = "kill"
    /\ proc' = [proc EXCEPT ![c] = "exited"]
    /\ pcT' = [pcT EXCEPT ![c] = "done"]
    /\ UNCHANGED <<state, exitCode, called, results, lists, posted, service,
                   main>>

(* waitFor() returned; a command that has failed is left alone. *)
ThreadWaited(c) ==
    /\ Alive /\ pcT[c] = "wait" /\ proc[c] = "exited"
    /\ pcT' = [pcT EXCEPT ![c] = IF state[c] = "FAILED" THEN "done"
                                                        ELSE "exitCode"]
    /\ UNCHANGED <<state, exitCode, called, results, proc, lists, posted,
                   service, main>>

ThreadExitCode(c) ==
    /\ Alive /\ pcT[c] = "exitCode"
    /\ exitCode' = [exitCode EXCEPT ![c] = "own"]
    /\ pcT' = [pcT EXCEPT ![c] = "executed"]
    /\ UNCHANGED <<state, called, results, proc, lists, posted, service, main>>

ThreadExecuted(c) ==
    /\ Alive /\ pcT[c] = "executed"
    /\ state' = [state EXCEPT ![c] = SetState(@, "EXECUTED")]
    /\ pcT' = [pcT EXCEPT ![c] = IF Accepts(state[c], "EXECUTED")
                                 THEN "process" ELSE "done"]
    /\ UNCHANGED <<exitCode, called, results, proc, lists, posted, service,
                   main>>

(* Mutant of ThreadProcess: the first call is not told from the others. *)
ThreadProcessAgain(c) ==
    /\ Alive /\ pcT[c] = "process"
    /\ called' = called \union {c}
    /\ posted' = posted \union {c}
    /\ pcT' = [pcT EXCEPT ![c] = "done"]
    /\ UNCHANGED <<state, exitCode, results, proc, lists, service, main>>

ThreadProcess(c) ==
    /\ Alive /\ pcT[c] = "process"
    /\ ProcessAppShellResult(c)
    /\ pcT' = [pcT EXCEPT ![c] = "done"]
    /\ UNCHANGED <<state, exitCode, results, proc, lists, service, main>>

Thread(c) == ThreadStart(c) \/ ThreadFailed(c) \/ ThreadKill(c)
             \/ ThreadWaited(c) \/ ThreadExitCode(c) \/ ThreadExecuted(c)
             \/ ThreadProcess(c)

(* onAppShellExited() as posted to the main thread. *)
AppShellExited(c) ==
    /\ Idle /\ c \in posted
    /\ posted' = posted \ {c}
    /\ ProcessResult(c)
    /\ tasks' = tasks \ {c}
    /\ IF up /\ c \notin orphans THEN UNCHANGED <<wakeLock, sessions>>
                                      /\ UpdateNotification
                                 ELSE UNCHANGED <<wakeLock, sessions, stopping>>
    /\ UNCHANGED <<exitCode, called, proc, pcT, pending, up, mWantsToStop,
                   bound, restarts, orphans, main>>

-----------------------------------------------------------------------------
(* Terminal sessions.                                                      *)

(* The view gives the session its size, which starts the shell. *)
SessionStart(c) ==
    /\ Idle /\ bound /\ c \in sessions /\ proc[c] = "none"
    /\ proc' = [proc EXCEPT ![c] = "running"]
    /\ UNCHANGED <<state, exitCode, called, results, pcT, lists, posted,
                   service, main>>

(* The shell ends, by itself or by the activity's "kill process". *)
SessionExit(c) ==
    /\ c \in Sessions /\ proc[c] = "running"
    /\ proc' = [proc EXCEPT ![c] = "exited"]
    /\ UNCHANGED <<state, exitCode, called, results, pcT, lists, posted,
                   service, main>>

(* removeTermuxSession(), TermuxSession.finish(), onTermuxSessionExited(). *)
Finish(c) ==
    IF c \in sessions /\ Accepts(state[c], "EXECUTED")
    THEN /\ exitCode' = [exitCode EXCEPT ![c] = "own"]
         /\ called' = called \union {c}
         /\ state' = [state EXCEPT ![c] = IF c \in Plugin \ called
                                          THEN "SUCCESS" ELSE "EXECUTED"]
         /\ Send({c} \ called)
         /\ sessions' = IF c \in called THEN sessions ELSE sessions \ {c}
         /\ UNCHANGED <<wakeLock, tasks>>
         /\ UpdateNotification
    ELSE UNCHANGED <<exitCode, called, state, results, sessions, wakeLock,
                     tasks, stopping>>

(* MSG_PROCESS_EXITED: TerminalSession cleans up and tells its client; the *)
(* activity's client closes the session if the exit status is one of those *)
(* it closes by itself, or if a result is due; the service's does nothing. *)
SessionFinished(c, auto) ==
    /\ Idle /\ c \in Sessions /\ proc[c] = "exited"
    /\ proc' = [proc EXCEPT ![c] = "cleaned"]
    /\ IF bound /\ ~mWantsToStop /\ (auto \/ c \in Expecting)
       THEN Finish(c)
       ELSE UNCHANGED <<exitCode, called, state, results, sessions, wakeLock,
                        tasks, stopping>>
    /\ UNCHANGED <<pcT, pending, posted, up, mWantsToStop, bound, restarts,
                   orphans, main>>

(* The user presses Enter in a session that is not running any more. *)
PressEnter(c) ==
    /\ Idle /\ bound /\ c \in sessions /\ proc[c] = "cleaned"
    /\ Finish(c)
    /\ UNCHANGED <<proc, pcT, pending, posted, up, mWantsToStop, bound,
                   restarts, orphans, main>>

-----------------------------------------------------------------------------
(* killAllTermuxExecutionCommands(), from copies of the three lists.       *)

KillAll ==
    /\ pcM' = "kill"
    /\ killSessions' = sessions
    /\ killTasks' = tasks
    /\ killPending' = pending
    /\ UNCHANGED cur

ActionStopService ==
    /\ Idle /\ up
    /\ mWantsToStop' = TRUE
    /\ KillAll
    /\ UNCHANGED <<command, lists, posted, up, stopping, wakeLock, bound,
                   restarts, orphans>>

(* onUnbind() and onDestroy(): Android destroys the service because it     *)
(* was asked to, or for reasons of its own.                                *)
OnDestroy ==
    /\ Idle /\ up
    /\ bound' = FALSE /\ wakeLock' = FALSE
    /\ IF mWantsToStop
       THEN /\ up' = FALSE
            /\ orphans' = {c \in Cmd : state[c] # "PRE_EXECUTION"}
            /\ UNCHANGED main
       ELSE KillAll /\ UNCHANGED <<up, orphans>>
    /\ UNCHANGED <<command, lists, posted, mWantsToStop, stopping, restarts>>

(* TermuxSession.killIfExecuting(): the result, if it is wanted, and       *)
(* SIGKILL; for a shell that has not been started finishIfRunning() sends  *)
(* it to the application's own process group.                              *)
KillSession(c) ==
    /\ pcM = "kill" /\ c \in killSessions
    /\ killSessions' = killSessions \ {c}
    /\ LET wanted == mWantsToStop \/ c \in Expecting
           kills == ~HasExecuted(state[c])
           first == kills /\ wanted /\ c \notin called IN
        /\ state' = [state EXCEPT ![c] = IF kills THEN SetState(@, "FAILED")
                                                  ELSE @]
        /\ exitCode' = [exitCode EXCEPT ![c] = IF kills /\ wanted THEN "137"
                                                                  ELSE @]
        /\ called' = IF kills /\ wanted THEN called \union {c} ELSE called
        /\ Send(IF first THEN {c} ELSE {})
        /\ sessions' = IF first \/ ~wanted THEN sessions \ {c} ELSE sessions
        /\ UNCHANGED <<wakeLock, tasks>>
        /\ IF first THEN UpdateNotification ELSE UNCHANGED stopping
        /\ proc' = [proc EXCEPT ![c] = IF kills /\ @ = "running" THEN "exited"
                                                                 ELSE @]
        /\ pcM' = IF kills /\ proc[c] = "none" THEN "dead" ELSE pcM
    /\ UNCHANGED <<pcT, pending, posted, up, mWantsToStop, bound, restarts,
                   orphans, cur, killTasks, killPending>>

(* The tasks: AppShell.killIfExecuting() for those with a result ...       *)
KillTask(c) ==
    /\ pcM = "kill" /\ killSessions = {} /\ c \in killTasks
    /\ killTasks' = killTasks \ {c}
    /\ IF c \in Expecting
       THEN /\ UNCHANGED tasks
            /\ IF HasExecuted(state[c]) THEN UNCHANGED <<pcM, cur>>
                                        ELSE pcM' = "killFail" /\ cur' = c
       ELSE tasks' = tasks \ {c} /\ UNCHANGED <<pcM, cur>>
    /\ UNCHANGED <<command, pending, sessions, posted, service, killSessions,
                   killPending>>

(* Mutant of KillTaskFail: the result is processed by whoever waits. *)
KillTaskFailOnly ==
    /\ pcM = "killFail"
    /\ state' = [state EXCEPT ![cur] = SetState(@, "FAILED")]
    /\ pcM' = "killSignal"
    /\ UNCHANGED <<exitCode, called, results, proc, pcT, lists, posted,
                   service, cur, killSessions, killTasks, killPending>>

(* ... which first sets it to failed,                                      *)
KillTaskFail ==
    /\ pcM = "killFail"
    /\ state' = [state EXCEPT ![cur] = SetState(@, "FAILED")]
    /\ pcM' = IF Accepts(state[cur], "FAILED") THEN "killResult"
                                               ELSE "killSignal"
    /\ UNCHANGED <<exitCode, called, results, proc, pcT, lists, posted,
                   service, cur, killSessions, killTasks, killPending>>

(* Mutant of KillTaskResult: the client is not called. *)
KillTaskResultNoPost ==
    /\ pcM = "killResult"
    /\ exitCode' = [exitCode EXCEPT ![cur] = "137"]
    /\ called' = called \union {cur}
    /\ pcM' = "killSignal"
    /\ UNCHANGED <<state, results, proc, pcT, lists, posted, service, cur,
                   killSessions, killTasks, killPending>>

(* then processes the result,                                              *)
KillTaskResult ==
    /\ pcM = "killResult"
    /\ exitCode' = [exitCode EXCEPT ![cur] = "137"]
    /\ ProcessAppShellResult(cur)
    /\ pcM' = "killSignal"
    /\ UNCHANGED <<state, results, proc, pcT, lists, service, cur,
                   killSessions, killTasks, killPending>>

(* and then sends SIGKILL if the command is still executing.               *)
KillTaskSignal ==
    /\ pcM = "killSignal"
    /\ proc' = [proc EXCEPT ![cur] = IF state[cur] = "EXECUTING" THEN "exited"
                                                                 ELSE @]
    /\ pcM' = "kill" /\ cur' = NoCmd
    /\ UNCHANGED <<state, exitCode, called, results, pcT, lists, posted,
                   service, killSessions, killTasks, killPending>>

(* The pending commands; then actionStopService() asks to be stopped, and  *)
(* onDestroy() returns.                                                    *)
KillPending ==
    /\ pcM = "kill" /\ killSessions = {} /\ killTasks = {}
    /\ LET cancelled == {c \in killPending \ called :
                            c \in Expecting /\ Accepts(state[c], "FAILED")} IN
        /\ state' = [c \in Cmd |-> IF c \in cancelled THEN "FAILED"
                                                      ELSE state[c]]
        /\ Send(cancelled)
        /\ called' = called \union killPending
        /\ killPending' = {}
    /\ pcM' = "idle"
    /\ stopping' = (stopping \/ mWantsToStop)
    /\ up' = mWantsToStop
    /\ orphans' = IF mWantsToStop THEN orphans
                  ELSE {c \in Cmd : state'[c] # "PRE_EXECUTION"}
    /\ UNCHANGED <<exitCode, proc, pcT, lists, posted, mWantsToStop, wakeLock,
                   bound, restarts, cur, killSessions, killTasks>>

-----------------------------------------------------------------------------
(* The rest of the service's life.                                         *)

OnCreate ==
    /\ Idle /\ ~up /\ restarts < MaxRestarts
    /\ up' = TRUE /\ mWantsToStop' = FALSE /\ stopping' = FALSE
    /\ restarts' = restarts + 1
    /\ UNCHANGED <<command, lists, posted, wakeLock, bound, orphans, main>>

(* onServiceConnected() and onUnbind(): setTermuxTerminalSessionClient()   *)
(* and unsetTermuxTerminalSessionClient().                                 *)
SetClient(b) ==
    /\ Idle /\ up /\ bound # b
    /\ bound' = b
    /\ UNCHANGED <<command, lists, posted, up, mWantsToStop, stopping,
                   wakeLock, restarts, orphans, main>>

WakeLock(held) ==
    /\ Idle /\ up /\ wakeLock # held
    /\ wakeLock' = held
    /\ UNCHANGED <<tasks, sessions>>
    /\ UpdateNotification
    /\ UNCHANGED <<command, pending, posted, up, mWantsToStop, bound, restarts,
                   orphans, main>>

Kill == (\E c \in Cmd : KillSession(c) \/ KillTask(c))
        \/ KillTaskFail \/ KillTaskResult \/ KillTaskSignal \/ KillPending

Next ==
    \/ \E c \in Cmd :
        \/ SubmitBadRunner(c) \/ SubmitRejected(c) \/ SubmitNamesake(c)
        \/ SubmitTaskFails(c) \/ SubmitTask(c) \/ SubmitSession(c)
        \/ NewSession(c)
        \/ TaskExit(c) \/ ThreadStdinFails(c) \/ Thread(c)
        \/ AppShellExited(c)
        \/ SessionStart(c) \/ SessionExit(c) \/ PressEnter(c)
        \/ \E auto \in BOOLEAN : SessionFinished(c, auto)
    \/ Kill
    \/ ActionStopService \/ OnDestroy \/ OnCreate
    \/ \E b \in BOOLEAN : SetClient(b) \/ WakeLock(b)

Spec == Init /\ [][Next]_vars

(* The threads run, the main thread handles what is posted to it, and      *)
(* killAllTermuxExecutionCommands() runs to its end.                       *)
Fairness ==
    /\ \A c \in Cmd : /\ WF_vars(Thread(c)) /\ SF_vars(AppShellExited(c))
                      /\ SF_vars(\E auto \in BOOLEAN : SessionFinished(c, auto))
    /\ WF_vars(Kill)

FairSpec == Spec /\ Fairness

-----------------------------------------------------------------------------
(* The types of the variables, the Boolean ones apart. *)
Data ==
    /\ state \in [Cmd -> States]
    /\ exitCode \in [Cmd -> {"null", "own", "137", "1"}]
    /\ results \in [Cmd -> Nat]
    /\ proc \in [Cmd -> {"none", "running", "exited", "cleaned"}]
    /\ pcT \in [Cmd -> {"none", "start", "wait", "failed", "kill",
                        "exitCode", "executed", "process", "done"}]
    /\ called \subseteq Cmd /\ posted \subseteq Cmd
    /\ pending \subseteq Cmd /\ orphans \subseteq Cmd
    /\ tasks \subseteq Tasks /\ sessions \subseteq Sessions
    /\ restarts \in Nat
    /\ pcM \in {"idle", "kill", "killFail", "killResult", "killSignal", "dead"}
    /\ pcM \in {"killFail", "killResult", "killSignal"} => cur \in Tasks
    /\ killSessions \subseteq Sessions /\ killTasks \subseteq Tasks
    /\ killPending \subseteq Cmd
Flags ==
    /\ up \in BOOLEAN /\ mWantsToStop \in BOOLEAN /\ stopping \in BOOLEAN
    /\ wakeLock \in BOOLEAN /\ bound \in BOOLEAN

(* Every variable has the values its declaration says. *)
TypeOK == Data /\ Flags

(* However the end of a process, a failing thread, a kill and a stop of    *)
(* the service race, a plugin is sent the result of a command once at      *)
(* most.  Commands rejected by processShellCreateMode() are the exception. *)
AnsweredOnce == \A c \in Cmd \ Rejected : results[c] <= 1

(* processingResultsAlreadyCalled suppresses every later result, so when   *)
(* it is set the result has been sent or is on its way.                    *)
CalledIsAnswered ==
    \A c \in Expecting \intersect called : c \in posted \/ results[c] >= 1

(* A command is in one list at most; a listed session is executing and its *)
(* result has not been processed, so that it can still be finished.        *)
Lists ==
    /\ pending \intersect (tasks \union sessions) = {}
    /\ \A c \in sessions : /\ state[c] = "EXECUTING" /\ c \notin called
                           /\ results[c] = 0

(* SUCCESS is reported only with the process's own exit code, after it has *)
(* ended: a kill that comes too late does not mix into the result.         *)
SuccessIsReal ==
    \A c \in Cmd : state[c] = "SUCCESS" =>
        exitCode[c] = "own" /\ proc[c] \in {"exited", "cleaned"}

(* "The state transition cannot go back or change if already at SUCCESS",  *)
(* whoever of the three threads of a command sets it.                      *)
StateForward ==
    [][\A c \in Cmd : state'[c] # state[c] =>
            Value(state[c]) < Value(state'[c]) /\ state[c] # "SUCCESS"]_vars

(* killAllTermuxExecutionCommands() leaves no session in the list.         *)
AllSessionsKilled == [][KillPending => sessions' = {}]_vars

(* A plugin gets the result of a task that ends.                           *)
TaskAnswered ==
    \A c \in Tasks \intersect Expecting :
        (proc[c] = "exited" /\ pcT[c] \in {"start", "wait"}) ~>
            (results[c] >= 1 \/ pcM = "dead")

(* Every command that expects a result and is listed when the service is   *)
(* told to stop gets one: its own, or that it was killed or cancelled.     *)
StopAnswers ==
    \A c \in Expecting :
        (pcM = "kill" /\ c \in killSessions \union killTasks \union killPending)
            ~> (results[c] >= 1 \/ pcM = "dead")

-----------------------------------------------------------------------------
(* What comments say and the code does not do.                             *)

(* mPendingPluginExecutionCommands holds commands "that have yet to be     *)
(* processed": one that has been answered is not cancelled later on.       *)
AllAnsweredOnce == \A c \in Cmd : results[c] <= 1

(* killIfExecuting(): "Kill this AppShell by sending a SIGILL to its       *)
(* mProcess if its still executing."                                       *)
TaskIsKilled == [][KillTaskSignal => proc'[cur] # "running"]_vars
=============================================================================
