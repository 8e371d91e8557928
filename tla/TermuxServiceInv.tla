-------------------------- MODULE TermuxServiceInv --------------------------
(***************************************************************************)
(* The inductive invariant of the service, for any set of commands and any *)
(* number of restarts: who may still be sent a result, and why it is one   *)
(* result only.  Here: that the submissions, the sessions, the threads of  *)
(* the tasks, the results they post and the kill of a task keep it, one    *)
(* step of which may fall between any two steps of the thread.             *)
(* TermuxServiceProofs has the other actions.                              *)
(***************************************************************************)
EXTENDS TermuxService, TLAPS

(* The tasks' threads before and after waitFor(); those whose next step    *)
(* processes a result.                                                     *)
Running == {"start", "wait", "failed", "kill", "exitCode"}
Waited == {"exitCode", "executed", "process"}
Processing == {"failed", "kill", "process"}

(* The result of a command is sent from one place: from the submission,    *)
(* for what is not run; from onAppShellExited(), for what has a thread;    *)
(* from finish() or the kill, for a listed session; from the cancellation  *)
(* of the pending ones.  Until it is, nothing has been sent.               *)
Ledger(c) ==
    /\ c \notin Rejected => results[c] <= 1
    /\ state[c] = "PRE_EXECUTION" =>
        /\ results[c] = 0 /\ pcT[c] = "none"
        /\ c \notin pending => c \notin called
    /\ pcT[c] # "none" =>
        /\ c \in Tasks /\ c \notin pending
        /\ c \notin called => results[c] = 0
    /\ c \in posted => c \in called /\ results[c] = 0 /\ pcT[c] # "none"
    /\ c \in tasks \union killTasks => pcT[c] # "none"
    /\ c \in sessions =>
        /\ state[c] = "EXECUTING" /\ c \notin called /\ results[c] = 0
        /\ c \notin pending
    /\ c \in pending \ (Rejected \union called) => results[c] = 0

(* Where a result is on its way the command has executed or failed, so it  *)
(* is not ignored on arrival.                                              *)
Answer(c) ==
    /\ c \in Expecting \intersect called => c \in posted \/ results[c] >= 1
    /\ c \in posted \/ pcT[c] \in Processing => HasExecuted(state[c])
    /\ c \in pending => state[c] \in {"PRE_EXECUTION", "FAILED"}

(* A task counts as executed from its thread's setState() on, with the     *)
(* exit code in place; a kill sets it to failed before touching that.      *)
Success(c) ==
    /\ state[c] = "SUCCESS" =>
        exitCode[c] = "own" /\ proc[c] \in {"exited", "cleaned"}
    /\ c \in Tasks /\ state[c] \in {"EXECUTED", "SUCCESS"} =>
        /\ exitCode[c] = "own" /\ proc[c] = "exited"
        /\ pcT[c] \notin Running \union {"none"}
    /\ pcT[c] \in Waited => proc[c] = "exited"
    /\ pcT[c] = "executed" => exitCode[c] = "own" \/ state[c] = "FAILED"

(* The main thread in killAllTermuxExecutionCommands().                    *)
Killing ==
    /\ killSessions \subseteq sessions /\ killPending \subseteq pending
    /\ pcM = "idle" => killSessions = {}
    /\ pcM \notin {"idle", "dead"} => sessions \subseteq killSessions
    /\ pcM \in {"killFail", "killResult", "killSignal"} => pcT[cur] # "none"
    /\ pcM = "killResult" => state[cur] = "FAILED"

(* The inductive invariant.                                                *)
Command(c) == Ledger(c) /\ Answer(c) /\ Success(c)
IInv == Data /\ Killing /\ \A c \in Cmd : Command(c)

-----------------------------------------------------------------------------
(* The values of the states, without CASE.                                 *)
LEMMA ValueOf ==
    \A s \in States : Value(s) = IF s = "PRE_EXECUTION" THEN 0
                               ELSE IF s = "EXECUTING" THEN 1
                               ELSE IF s = "EXECUTED" THEN 2
                               ELSE IF s = "SUCCESS" THEN 3 ELSE 4
BY DEF States, Value

(* What setState() and hasExecuted() say of each state.                    *)
LEMMA StateFacts ==
    /\ \A s \in States :
        /\ Accepts(s, "EXECUTING") <=> s \in {"PRE_EXECUTION", "EXECUTING"}
        /\ Accepts(s, "EXECUTED") <=>
            s \in {"PRE_EXECUTION", "EXECUTING", "EXECUTED"}
        /\ Accepts(s, "SUCCESS") <=>
            s \in {"PRE_EXECUTION", "EXECUTING", "EXECUTED"}
        /\ Accepts(s, "FAILED") <=> s # "SUCCESS"
        /\ HasExecuted(s) <=> s \in {"EXECUTED", "SUCCESS", "FAILED"}
    /\ States = {"PRE_EXECUTION", "EXECUTING", "EXECUTED", "SUCCESS", "FAILED"}
BY ValueOf DEF States, Accepts, HasExecuted

(* Binding, wake locks and the recreation of the service touch no command. *)
LEMMA FrameKeeps ==
    ASSUME IInv, UNCHANGED <<command, lists, posted, main>>,
           orphans' \in SUBSET Cmd, restarts' \in Nat
    PROVE  IInv'
<1> USE DEF command, lists, main
<1>1. Data /\ Killing /\ \A d \in Cmd : Command(d)  BY DEF IInv
<1>2. Data'  BY <1>1 DEF Data
<1>3. Killing'  BY <1>1 DEF Killing
<1>4. ASSUME NEW d \in Cmd PROVE Command(d)'
  BY <1>1, <1>4 DEF Command, Ledger, Answer, Success
<1> QED  BY <1>2, <1>3, <1>4 DEF IInv

(* A command without a usable runner is answered before it is in any list. *)
LEMMA SubmitBadRunnerKeeps ==
    ASSUME IInv, NEW c \in Cmd, SubmitBadRunner(c)
    PROVE  IInv'
<1>1. Data /\ Killing /\ \A d \in Cmd : Command(d)  BY Zenon DEF IInv
<1>2. Data'
  BY <1>1, StateFacts, SMTT(30) DEF Data, SubmitBadRunner, Send, lists,
     service, main, SetState
<1>3. Killing'
  BY <1>1, SMTT(30) DEF Killing, SubmitBadRunner, Fresh, lists, main
<1>4. ASSUME NEW d \in Cmd PROVE Command(d)'
  BY <1>1, <1>4, StateFacts, SMTT(30) DEF Data, Command, Ledger, Answer,
     Success, SubmitBadRunner, Send, Fresh, lists, main, SetState
<1> QED  BY <1>2, <1>3, <1>4, Zenon DEF IInv

(* A rejected command is answered and stays pending: why Ledger excepts    *)
(* it.                                                                     *)
LEMMA SubmitRejectedKeeps ==
    ASSUME IInv, NEW c \in Cmd, SubmitRejected(c)
    PROVE  IInv'
<1>1. Data /\ Killing /\ \A d \in Cmd : Command(d)  BY Zenon DEF IInv
<1>2. Data'
  BY <1>1, StateFacts, SMTT(30) DEF Data, SubmitRejected, Send, service,
     main, SetState
<1>3. Killing'  BY <1>1, SMTT(30) DEF Killing, SubmitRejected, Fresh, main
<1>4. ASSUME NEW d \in Cmd PROVE Command(d)'
  BY <1>1, <1>4, StateFacts, SMTT(30) DEF Data, Command, Ledger, Answer,
     Success, SubmitRejected, Send, Fresh, main, SetState
<1> QED  BY <1>2, <1>3, <1>4, Zenon DEF IInv

(* A command kept from running by a shell of its name is pending, not      *)
(* sent.                                                                   *)
LEMMA SubmitNamesakeKeeps ==
    ASSUME IInv, NEW c \in Cmd, SubmitNamesake(c)
    PROVE  IInv'
<1>1. Data /\ Killing /\ \A d \in Cmd : Command(d)  BY Zenon DEF IInv
<1>2. Data'  BY <1>1, Zenon DEF Data, SubmitNamesake, command, service, main
<1>3. Killing'  BY <1>1, Zenon DEF Killing, SubmitNamesake, Idle, main
<1>4. ASSUME NEW d \in Cmd PROVE Command(d)'
  BY <1>1, <1>4, Zenon DEF Command, Ledger, Answer, Success, SubmitNamesake,
     Fresh, command, main
<1> QED  BY <1>2, <1>3, <1>4, Zenon DEF IInv

(* A task that cannot be run is answered and marked, so it is not          *)
(* cancelled.                                                              *)
LEMMA SubmitTaskFailsKeeps ==
    ASSUME IInv, NEW c \in Cmd, SubmitTaskFails(c)
    PROVE  IInv'
<1>1. Data /\ Killing /\ \A d \in Cmd : Command(d)  BY Zenon DEF IInv
<1>2. Data'
  BY <1>1, StateFacts, SMTT(30) DEF Data, SubmitTaskFails, Send, service,
     main, SetState
<1>3. Killing'
  BY <1>1, SMTT(30) DEF Killing, SubmitTaskFails, Creates, Fresh, main
<1>4. ASSUME NEW d \in Cmd PROVE Command(d)'
  BY <1>1, <1>4, StateFacts, SMTT(30) DEF Data, Command, Ledger, Answer,
     Success, SubmitTaskFails, Send, Creates, Fresh, main, SetState
<1> QED  BY <1>2, <1>3, <1>4, Zenon DEF IInv

(* A new task has a thread, which will answer it, and is not pending.      *)
LEMMA SubmitTaskKeeps ==
    ASSUME IInv, NEW c \in Cmd, SubmitTask(c)
    PROVE  IInv'
<1>1. Data /\ Killing /\ \A d \in Cmd : Command(d)  BY Zenon DEF IInv
<1>2. Data'
  BY <1>1, StateFacts, Zenon DEF Data, SubmitTask, service, main, SetState
<1>3. Killing'
  BY <1>1, SMTT(30) DEF Killing, SubmitTask, Creates, Fresh, main
<1>4. ASSUME NEW d \in Cmd PROVE Command(d)'
  BY <1>1, <1>4, StateFacts, SMTT(30) DEF Data, Command, Ledger, Answer,
     Success, Processing, Waited, SubmitTask, Creates, Fresh, main, SetState
<1> QED  BY <1>2, <1>3, <1>4, Zenon DEF IInv

(* A new session of a plugin is listed, executing and not answered.        *)
LEMMA SubmitSessionKeeps ==
    ASSUME IInv, NEW c \in Cmd, SubmitSession(c)
    PROVE  IInv'
<1>1. Data /\ Killing /\ \A d \in Cmd : Command(d)  BY Zenon DEF IInv
<1>2. Data'
  BY <1>1, StateFacts, Zenon DEF Data, SubmitSession, service, main, SetState
<1>3. Killing'
  BY <1>1, Zenon DEF Killing, SubmitSession, Creates, Idle, main
<1>4. ASSUME NEW d \in Cmd PROVE Command(d)'
  BY <1>1, <1>4, StateFacts, SMTT(30) DEF Data, Command, Ledger, Answer,
     Success, SubmitSession, Creates, Fresh, main, SetState
<1> QED  BY <1>2, <1>3, <1>4, Zenon DEF IInv

(* So is a session the user opens.                                         *)
LEMMA NewSessionKeeps ==
    ASSUME IInv, NEW c \in Cmd, NewSession(c)
    PROVE  IInv'
<1>1. Data /\ Killing /\ \A d \in Cmd : Command(d)  BY Zenon DEF IInv
<1>2. Data'
  BY <1>1, StateFacts, Zenon DEF Data, NewSession, service, main, SetState
<1>3. Killing'  BY <1>1, Zenon DEF Killing, NewSession, Idle, main
<1>4. ASSUME NEW d \in Cmd PROVE Command(d)'
  BY <1>1, <1>4, StateFacts, SMTT(30) DEF Data, Command, Ledger, Answer,
     Success, NewSession, Fresh, main, SetState
<1> QED  BY <1>2, <1>3, <1>4, Zenon DEF IInv

(* A session that gets its shell stays as it is.                           *)
LEMMA SessionStartKeeps ==
    ASSUME IInv, NEW c \in Cmd, SessionStart(c)
    PROVE  IInv'
<1>1. Data /\ Killing /\ \A d \in Cmd : Command(d)  BY Zenon DEF IInv
<1>2. Data'  BY <1>1, Zenon DEF Data, SessionStart, lists, service, main
<1>3. Killing'  BY <1>1, Zenon DEF Killing, SessionStart, lists, main
<1>4. ASSUME NEW d \in Cmd PROVE Command(d)'
  BY <1>1, <1>4, SMTT(30) DEF Data, Command, Ledger, Answer, Success,
     SessionStart, lists, main
<1> QED  BY <1>2, <1>3, <1>4, Zenon DEF IInv

(* So does one whose shell ends.                                           *)
LEMMA SessionExitKeeps ==
    ASSUME IInv, NEW c \in Cmd, SessionExit(c)
    PROVE  IInv'
<1>1. Data /\ Killing /\ \A d \in Cmd : Command(d)  BY Zenon DEF IInv
<1>2. Data'  BY <1>1, Zenon DEF Data, SessionExit, lists, service, main
<1>3. Killing'  BY <1>1, Zenon DEF Killing, SessionExit, lists, main
<1>4. ASSUME NEW d \in Cmd PROVE Command(d)'
  BY <1>1, <1>4, SMTT(30) DEF Data, Command, Ledger, Answer, Success,
     SessionExit, lists, main
<1> QED  BY <1>2, <1>3, <1>4, Zenon DEF IInv

(* Enter in a dead session: it leaves the list with its result.            *)
LEMMA PressEnterKeeps ==
    ASSUME IInv, NEW c \in Cmd, PressEnter(c)
    PROVE  IInv'
<1>1. Data /\ Killing /\ \A d \in Cmd : Command(d)  BY Zenon DEF IInv
<1>2. Data'
  BY <1>1, StateFacts, SMTT(30) DEF Data, PressEnter, Finish, Send, main
<1>3. Killing'  BY <1>1, Zenon DEF Killing, PressEnter, Idle, main
<1>4. ASSUME NEW d \in Cmd PROVE Command(d)'
  <2>1. Ledger(d)'
    BY <1>1, <1>4, SMTT(30) DEF Data, Command, Ledger, PressEnter, Finish,
       Send, main
  <2>2. Answer(d)'
    BY <1>1, <1>4, StateFacts, SMTT(30) DEF Data, Command, Ledger, Answer,
       PressEnter, Finish, Send
  <2>3. Success(d)'
    BY <1>1, <1>4, KindsAssumption, SMTT(30) DEF Data, Command, Success,
       PressEnter, Finish
  <2> QED  BY <2>1, <2>2, <2>3, Zenon DEF Command
<1> QED  BY <1>2, <1>3, <1>4, Zenon DEF IInv

(* The same when the end of the shell is noticed.                          *)
LEMMA SessionFinishedKeeps ==
    ASSUME IInv, NEW c \in Cmd, NEW auto \in BOOLEAN, SessionFinished(c, auto)
    PROVE  IInv'
<1>1. Data /\ Killing /\ \A d \in Cmd : Command(d)  BY Zenon DEF IInv
<1>2. Data'
  BY <1>1, StateFacts, SMTT(30) DEF Data, SessionFinished, Finish, Send, main
<1>3. Killing'  BY <1>1, Zenon DEF Killing, SessionFinished, Idle, main
<1>4. ASSUME NEW d \in Cmd PROVE Command(d)'
  <2>1. Ledger(d)'
    BY <1>1, <1>4, SMTT(30) DEF Data, Command, Ledger, SessionFinished,
       Finish, Send, main
  <2>2. Answer(d)'
    BY <1>1, <1>4, StateFacts, SMTT(30) DEF Data, Command, Ledger, Answer,
       SessionFinished, Finish, Send
  <2>3. Success(d)'
    BY <1>1, <1>4, KindsAssumption, SMTT(30) DEF Data, Command, Ledger,
       Success, Waited, SessionFinished, Finish
  <2> QED  BY <2>1, <2>2, <2>3, Zenon DEF Command
<1> QED  BY <1>2, <1>3, <1>4, Zenon DEF IInv

-----------------------------------------------------------------------------
(* The tasks. *)

(* The reset of the exit code comes before the task has executed.          *)
LEMMA ThreadStartKeeps ==
    ASSUME IInv, NEW c \in Cmd, ThreadStart(c)
    PROVE  IInv'
<1>1. Data /\ Killing /\ \A d \in Cmd : Command(d)  BY Zenon DEF IInv
<1>2. Data'  BY <1>1, Zenon DEF Data, ThreadStart, lists, service, main
<1>3. Killing'  BY <1>1, SMTT(30) DEF Killing, ThreadStart, lists, main
<1>4. ASSUME NEW d \in Cmd PROVE Command(d)'
  BY <1>1, <1>4, SMTT(30) DEF Data, Command, Ledger, Answer, Success,
     Processing, Running, Waited, ThreadStart, lists, main
<1> QED  BY <1>2, <1>3, <1>4, Zenon DEF IInv

(* The end of a process takes nothing back.                                *)
LEMMA TaskExitKeeps ==
    ASSUME IInv, NEW c \in Cmd, TaskExit(c)
    PROVE  IInv'
<1>1. Data /\ Killing /\ \A d \in Cmd : Command(d)  BY Zenon DEF IInv
<1>2. Data'  BY <1>1, Zenon DEF Data, TaskExit, lists, service, main
<1>3. Killing'  BY <1>1, Zenon DEF Killing, TaskExit, lists, main
<1>4. ASSUME NEW d \in Cmd PROVE Command(d)'
  BY <1>1, <1>4, SMTT(30) DEF Data, Command, Ledger, Answer, Success,
     TaskExit, lists, main
<1> QED  BY <1>2, <1>3, <1>4, Zenon DEF IInv

(* A thread whose stdin fails has set its command to failed.               *)
LEMMA ThreadStdinFailsKeeps ==
    ASSUME IInv, NEW c \in Cmd, ThreadStdinFails(c)
    PROVE  IInv'
<1>1. Data /\ Killing /\ \A d \in Cmd : Command(d)  BY Zenon DEF IInv
<1>2. Data'
  BY <1>1, StateFacts, Zenon DEF Data, ThreadStdinFails, lists, service,
     main, SetState
<1>3. Killing'
  BY <1>1, SMTT(30) DEF Killing, ThreadStdinFails, lists, main, SetState
<1>4. ASSUME NEW d \in Cmd PROVE Command(d)'
  BY <1>1, <1>4, StateFacts, KindsAssumption, SMTT(30) DEF Data, Command,
     Ledger, Answer, Success, Running, Waited, ThreadStdinFails, lists, main,
     SetState
<1> QED  BY <1>2, <1>3, <1>4, Zenon DEF IInv

(* It then posts the result, unless a kill has.                            *)
LEMMA ThreadFailedKeeps ==
    ASSUME IInv, NEW c \in Cmd, ThreadFailed(c)
    PROVE  IInv'
<1>1. Data /\ Killing /\ \A d \in Cmd : Command(d)  BY Zenon DEF IInv
<1>2. Data'
  BY <1>1, Zenon DEF Data, ThreadFailed, ProcessAppShellResult, lists,
     service, main
<1>3. Killing'  BY <1>1, SMTT(30) DEF Killing, ThreadFailed, lists, main
<1>4. ASSUME NEW d \in Cmd PROVE Command(d)'
  BY <1>1, <1>4, StateFacts, SMTT(30) DEF Command, Ledger, Answer, Success,
     Processing, Running, Waited, ThreadFailed, ProcessAppShellResult, lists,
     main
<1> QED  BY <1>2, <1>3, <1>4, Zenon DEF IInv

(* It kills a process nobody waits for.                                    *)
LEMMA ThreadKillKeeps ==
    ASSUME IInv, NEW c \in Cmd, ThreadKill(c)
    PROVE  IInv'
<1>1. Data /\ Killing /\ \A d \in Cmd : Command(d)  BY Zenon DEF IInv
<1>2. Data'  BY <1>1, Zenon DEF Data, ThreadKill, lists, service, main
<1>3. Killing'  BY <1>1, SMTT(30) DEF Killing, ThreadKill, lists, main
<1>4. ASSUME NEW d \in Cmd PROVE Command(d)'
  BY <1>1, <1>4, SMTT(30) DEF Data, Command, Ledger, Answer, Success,
     Processing, Running, ThreadKill, lists, main
<1> QED  BY <1>2, <1>3, <1>4, Zenon DEF IInv

(* After waitFor() the process has ended.                                  *)
LEMMA ThreadWaitedKeeps ==
    ASSUME IInv, NEW c \in Cmd, ThreadWaited(c)
    PROVE  IInv'
<1>1. Data /\ Killing /\ \A d \in Cmd : Command(d)  BY Zenon DEF IInv
<1>2. Data'  BY <1>1, Zenon DEF Data, ThreadWaited, lists, service, main
<1>3. Killing'  BY <1>1, SMTT(30) DEF Killing, ThreadWaited, lists, main
<1>4. ASSUME NEW d \in Cmd PROVE Command(d)'
  BY <1>1, <1>4, SMTT(30) DEF Data, Command, Ledger, Answer, Success,
     Processing, Running, ThreadWaited, lists, main
<1> QED  BY <1>2, <1>3, <1>4, Zenon DEF IInv

(* The exit code is read after that.                                       *)
LEMMA ThreadExitCodeKeeps ==
    ASSUME IInv, NEW c \in Cmd, ThreadExitCode(c)
    PROVE  IInv'
<1>1. Data /\ Killing /\ \A d \in Cmd : Command(d)  BY Zenon DEF IInv
<1>2. Data'  BY <1>1, Zenon DEF Data, ThreadExitCode, lists, service, main
<1>3. Killing'  BY <1>1, SMTT(30) DEF Killing, ThreadExitCode, lists, main
<1>4. ASSUME NEW d \in Cmd PROVE Command(d)'
  BY <1>1, <1>4, SMTT(30) DEF Data, Command, Ledger, Answer, Success,
     Processing, Running, Waited, ThreadExitCode, lists, main
<1> QED  BY <1>2, <1>3, <1>4, Zenon DEF IInv

(* The task has executed: from here on a kill leaves the exit code alone.  *)
LEMMA ThreadExecutedKeeps ==
    ASSUME IInv, NEW c \in Cmd, ThreadExecuted(c)
    PROVE  IInv'
<1>1. Data /\ Killing /\ \A d \in Cmd : Command(d)  BY Zenon DEF IInv
<1>2. Data'
  BY <1>1, StateFacts, Zenon DEF Data, ThreadExecuted, lists, service, main,
     SetState
<1>3. Killing'
  BY <1>1, StateFacts, SMTT(30) DEF Killing, ThreadExecuted, lists, main,
     SetState
<1>4. ASSUME NEW d \in Cmd PROVE Command(d)'
  BY <1>1, <1>4, StateFacts, KindsAssumption, SMTT(30) DEF Data, Command,
     Ledger, Answer, Success, Running, Waited, ThreadExecuted, lists, main,
     SetState
<1> QED  BY <1>2, <1>3, <1>4, Zenon DEF IInv

(* The result is posted, unless a kill has.                                *)
LEMMA ThreadProcessKeeps ==
    ASSUME IInv, NEW c \in Cmd, ThreadProcess(c)
    PROVE  IInv'
<1>1. Data /\ Killing /\ \A d \in Cmd : Command(d)  BY Zenon DEF IInv
<1>2. Data'
  BY <1>1, Zenon DEF Data, ThreadProcess, ProcessAppShellResult, lists,
     service, main
<1>3. Killing'  BY <1>1, SMTT(30) DEF Killing, ThreadProcess, lists, main
<1>4. ASSUME NEW d \in Cmd PROVE Command(d)'
  <2>1. Ledger(d)'
    BY <1>1, <1>4, StateFacts, SMTT(30) DEF Command, Ledger, Answer,
       Processing, ThreadProcess, ProcessAppShellResult, lists, main
  <2>2. Answer(d)'
    BY <1>1, <1>4, SMTT(30) DEF Command, Answer, Processing, ThreadProcess,
       ProcessAppShellResult, lists, main
  <2>3. Success(d)'
    BY <1>1, <1>4, SMTT(30) DEF Command, Success, Running, Waited,
       ThreadProcess, lists, main
  <2> QED  BY <2>1, <2>2, <2>3, Zenon DEF Command
<1> QED  BY <1>2, <1>3, <1>4, Zenon DEF IInv

(* What is posted has not been sent, and is sent now.                      *)
LEMMA AppShellExitedKeeps ==
    ASSUME IInv, NEW c \in Cmd, AppShellExited(c)
    PROVE  IInv'
<1>1. Data /\ Killing /\ \A d \in Cmd : Command(d)  BY Zenon DEF IInv
<1>2. Data'
  BY <1>1, StateFacts, SMTT(30) DEF Data, AppShellExited, ProcessResult,
     Send, main, SetState
<1>3. Killing'  BY <1>1, Zenon DEF Killing, AppShellExited, Idle, main
<1>4. ASSUME NEW d \in Cmd PROVE Command(d)'
  <2>1. Ledger(d)'
    BY <1>1, <1>4, SMTT(30) DEF Data, Command, Ledger, AppShellExited,
       ProcessResult, Send, main, SetState
  <2>2. Answer(d)'
    BY <1>1, <1>4, StateFacts, KindsAssumption, SMTT(30) DEF Data, Command,
       Answer, AppShellExited, ProcessResult, Send, SetState
  <2>3. Success(d)'
    BY <1>1, <1>4, StateFacts, SMTT(30) DEF Data, Command, Ledger, Success,
       AppShellExited, ProcessResult, SetState
  <2> QED  BY <2>1, <2>2, <2>3, Zenon DEF Command
<1> QED  BY <1>2, <1>3, <1>4, Zenon DEF IInv

(* A task about to be killed has a thread.                                 *)
LEMMA KillTaskKeeps ==
    ASSUME IInv, NEW c \in Cmd, KillTask(c)
    PROVE  IInv'
<1>1. Data /\ Killing /\ \A d \in Cmd : Command(d)  BY Zenon DEF IInv
<1>2. Data'  BY <1>1, Zenon DEF Data, KillTask, command, service
<1>3. Killing'
  BY <1>1, Zenon DEF Killing, Command, Ledger, KillTask, command
<1>4. ASSUME NEW d \in Cmd PROVE Command(d)'
  BY <1>1, <1>4, Zenon DEF Command, Ledger, Answer, Success, KillTask,
     command
<1> QED  BY <1>2, <1>3, <1>4, Zenon DEF IInv

(* The kill fails the command, or finds it has succeeded.                  *)
LEMMA KillTaskFailKeeps ==
    ASSUME IInv, KillTaskFail
    PROVE  IInv'
<1>1. Data /\ Killing /\ \A d \in Cmd : Command(d)  BY Zenon DEF IInv
<1>2. Data'
  BY <1>1, StateFacts, Zenon DEF Data, Cmd, KillTaskFail, lists, service,
     SetState
<1>3. Killing'
  BY <1>1, Zenon DEF Data, Killing, Cmd, KillTaskFail, lists, SetState
<1>4. ASSUME NEW d \in Cmd PROVE Command(d)'
  BY <1>1, <1>4, StateFacts, KindsAssumption, SMTT(30) DEF Data, Command,
     Ledger, Answer, Success, KillTaskFail, lists, SetState
<1> QED  BY <1>2, <1>3, <1>4, Zenon DEF IInv

(* Having failed it, it may change the exit code and post the result.      *)
LEMMA KillTaskResultKeeps ==
    ASSUME IInv, KillTaskResult
    PROVE  IInv'
<1>1. Data /\ Killing /\ \A d \in Cmd : Command(d)  BY Zenon DEF IInv
<1>2. Data'
  BY <1>1, Zenon DEF Data, Cmd, KillTaskResult, ProcessAppShellResult, lists,
     service
<1>3. Killing'  BY <1>1, Zenon DEF Killing, KillTaskResult, lists
<1>4. ASSUME NEW d \in Cmd PROVE Command(d)'
  BY <1>1, <1>4, StateFacts, SMTT(30) DEF Killing, Command, Ledger, Answer,
     Success, KillTaskResult, ProcessAppShellResult, lists
<1> QED  BY <1>2, <1>3, <1>4, Zenon DEF IInv

(* The signal changes neither.                                             *)
LEMMA KillTaskSignalKeeps ==
    ASSUME IInv, KillTaskSignal
    PROVE  IInv'
<1>1. Data /\ Killing /\ \A d \in Cmd : Command(d)  BY Zenon DEF IInv
<1>2. Data'  BY <1>1, Zenon DEF Data, Cmd, KillTaskSignal, lists, service
<1>3. Killing'  BY <1>1, Zenon DEF Killing, KillTaskSignal, lists
<1>4. ASSUME NEW d \in Cmd PROVE Command(d)'
  BY <1>1, <1>4, SMTT(30) DEF Command, Ledger, Answer, Success,
     KillTaskSignal, lists
<1> QED  BY <1>2, <1>3, <1>4, Zenon DEF IInv
=============================================================================
