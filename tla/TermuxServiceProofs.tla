------------------------ MODULE TermuxServiceProofs -------------------------
(***************************************************************************)
(* The invariant is kept by the stop of the service; what it gives: the    *)
(* safety properties of TermuxService for any set of commands and any      *)
(* number of restarts.  Last, the order of the states of a command, which  *)
(* needs only the types.                                                   *)
(***************************************************************************)
EXTENDS TermuxServiceInv

(* A killed session leaves both lists; its result is sent if it is wanted. *)
LEMMA KillSessionKeeps ==
    ASSUME IInv, NEW c \in Cmd, KillSession(c)
    PROVE  IInv'
<1>1. Data /\ Killing /\ \A d \in Cmd : Command(d)  BY Zenon DEF IInv
<1>2. Data'
  BY <1>1, StateFacts, SMTT(30) DEF Data, KillSession, Send, SetState
<1>3. Killing'
  BY <1>1, StateFacts, Zenon DEF Data, Killing, Command, Ledger, KillSession
<1>4. ASSUME NEW d \in Cmd PROVE Command(d)'
  <2>1. Ledger(d)'
    BY <1>1, <1>4, SMTT(30) DEF Killing, Command, Ledger, KillSession, Send,
       SetState
  <2>2. Answer(d)'
    BY <1>1, <1>4, SMTT(30) DEF Data, Command, Answer, KillSession, Send,
       SetState
  <2>3. Success(d)'
    BY <1>1, <1>4, StateFacts, SMTT(30) DEF Data, Command, Success,
       KillSession, SetState
  <2> QED  BY <2>1, <2>2, <2>3, Zenon DEF Command
<1> QED  BY <1>2, <1>3, <1>4, Zenon DEF IInv

(* The cancelled commands have not been answered, the rejected ones apart. *)
LEMMA KillPendingKeeps ==
    ASSUME IInv, KillPending
    PROVE  IInv'
<1>1. Data /\ Killing /\ \A d \in Cmd : Command(d)  BY Zenon DEF IInv
<1>2. Data'  BY <1>1, StateFacts, SMTT(30) DEF Data, KillPending, Send, lists
<1>3. Killing'  BY Zenon DEF Killing, KillPending
<1>4. ASSUME NEW d \in Cmd PROVE Command(d)'
  <2>1. Ledger(d)'
    BY <1>1, <1>4, SMTT(30) DEF Killing, Command, Ledger, KillPending, Send,
       lists
  <2>2. Answer(d)'
    BY <1>1, <1>4, StateFacts, SMTT(30) DEF Data, Killing, Command, Answer,
       KillPending, Send, lists
  <2>3. Success(d)'
    BY <1>1, <1>4, SMTT(30) DEF Command, Success, KillPending
  <2> QED  BY <2>1, <2>2, <2>3, Zenon DEF Command
<1> QED  BY <1>2, <1>3, <1>4, Zenon DEF IInv

(* A stop starts from copies of the lists.                                 *)
LEMMA ActionStopServiceKeeps ==
    ASSUME IInv, ActionStopService
    PROVE  IInv'
<1>1. Data /\ Killing /\ \A d \in Cmd : Command(d)  BY Zenon DEF IInv
<1>2. Data'
  BY <1>1, Zenon DEF Data, ActionStopService, KillAll, command, lists
<1>3. Killing'  BY Zenon DEF Killing, ActionStopService, KillAll, lists
<1>4. ASSUME NEW d \in Cmd PROVE Command(d)'
  BY <1>1, <1>4, Zenon DEF Command, Ledger, Answer, Success,
     ActionStopService, KillAll, command, lists
<1> QED  BY <1>2, <1>3, <1>4, Zenon DEF IInv

(* onDestroy() starts the same loop, unless there has been a stop.         *)
LEMMA OnDestroyKeeps ==
    ASSUME IInv, OnDestroy
    PROVE  IInv'
<1>0. Data /\ Killing /\ \A d \in Cmd : Command(d)  BY DEF IInv
<1>1. UNCHANGED <<command, lists, posted>> /\ restarts' = restarts /\ Idle
  BY Zenon DEF OnDestroy
<1>2. \/ UNCHANGED main /\ orphans' \in SUBSET Cmd
      \/ KillAll /\ orphans' = orphans
  BY Zenon DEF OnDestroy
<1>3. CASE UNCHANGED main /\ orphans' \in SUBSET Cmd
  <2>1. restarts' \in Nat  BY <1>0, <1>1 DEF Data
  <2> QED  BY <1>1, <1>3, <2>1, FrameKeeps
<1>4. CASE KillAll /\ orphans' = orphans
  <2> USE <1>0, <1>1, <1>4 DEF KillAll, Idle, command, lists
  <2>1. Data'  BY DEF Data
  <2>2. Killing'  BY DEF Killing
  <2>3. ASSUME NEW d \in Cmd PROVE Command(d)'
    BY <2>3 DEF Data, Command, Ledger, Answer, Success
  <2> QED  BY <2>1, <2>2, <2>3 DEF IInv
<1> QED  BY <1>2, <1>3, <1>4

(* Every step keeps the invariant.                                         *)
LEMMA Step == ASSUME IInv, [Next]_vars PROVE IInv'
<1>0. Data  BY DEF IInv
<1>1. CASE UNCHANGED vars
  <2>1. orphans' \in SUBSET Cmd /\ restarts' \in Nat
    BY <1>0, <1>1 DEF vars, service, Data
  <2> QED  BY <1>1, <2>1, FrameKeeps, Zenon DEF vars
<1>2. ASSUME NEW c \in Cmd, SubmitBadRunner(c) \/ SubmitRejected(c)
            \/ SubmitNamesake(c) \/ SubmitTaskFails(c) \/ SubmitTask(c)
            \/ SubmitSession(c) \/ NewSession(c)
      PROVE IInv'
  BY ONLY IInv, <1>2, SubmitBadRunnerKeeps, SubmitRejectedKeeps,
     SubmitNamesakeKeeps, SubmitTaskFailsKeeps, SubmitTaskKeeps,
     SubmitSessionKeeps, NewSessionKeeps, Zenon
<1>3. ASSUME NEW c \in Cmd, TaskExit(c) \/ ThreadStdinFails(c) \/ Thread(c)
            \/ AppShellExited(c)
      PROVE IInv'
  BY ONLY IInv, <1>3, TaskExitKeeps, ThreadStdinFailsKeeps, ThreadStartKeeps,
     ThreadFailedKeeps, ThreadKillKeeps, ThreadWaitedKeeps,
     ThreadExitCodeKeeps, ThreadExecutedKeeps, ThreadProcessKeeps,
     AppShellExitedKeeps, Zenon DEF Thread
<1>4. ASSUME NEW c \in Cmd, SessionStart(c) \/ SessionExit(c)
            \/ PressEnter(c) \/ \E auto \in BOOLEAN : SessionFinished(c, auto)
      PROVE IInv'
  BY ONLY IInv, <1>4, SessionStartKeeps, SessionExitKeeps, PressEnterKeeps,
     SessionFinishedKeeps, Zenon
<1>5. CASE Kill
  BY ONLY IInv, <1>5, KillSessionKeeps, KillTaskKeeps, KillTaskFailKeeps,
     KillTaskResultKeeps, KillTaskSignalKeeps, KillPendingKeeps, Zenon DEF Kill
<1>6. CASE ActionStopService  BY ONLY IInv, <1>6, ActionStopServiceKeeps
<1>7. CASE OnDestroy  BY ONLY IInv, <1>7, OnDestroyKeeps
<1>8. CASE OnCreate
  <2>1. orphans' \in SUBSET Cmd /\ restarts' \in Nat
    BY <1>0, <1>8 DEF OnCreate, Data
  <2> QED  BY <1>8, <2>1, FrameKeeps, Zenon DEF OnCreate
<1>9. ASSUME NEW b \in BOOLEAN, SetClient(b) \/ WakeLock(b) PROVE IInv'
  <2>1. UNCHANGED <<command, lists, posted, main, orphans, restarts>>
    BY <1>9, Zenon DEF SetClient, WakeLock, lists
  <2>2. orphans' \in SUBSET Cmd /\ restarts' \in Nat
    BY <1>0, <2>1 DEF Data
  <2> QED  BY <2>1, <2>2, FrameKeeps, Zenon
<1> QED
  BY ONLY [Next]_vars, <1>1, <1>2, <1>3, <1>4, <1>5, <1>6, <1>7, <1>8, <1>9,
     Zenon DEF Next

(* The Boolean variables stay Boolean.                                     *)
LEMMA FlagsStep == ASSUME Flags, [Next]_vars PROVE Flags'
<1> USE DEF Flags
<1>1. CASE UNCHANGED vars  BY <1>1, Zenon DEF vars, service
<1>2. ASSUME NEW c \in Cmd, SubmitBadRunner(c) \/ SubmitRejected(c)
            \/ SubmitNamesake(c) \/ SubmitTaskFails(c) \/ SubmitTask(c)
            \/ SubmitSession(c) \/ NewSession(c)
      PROVE UNCHANGED service
  BY <1>2, Zenon DEF SubmitBadRunner, SubmitRejected, SubmitNamesake,
     SubmitTaskFails, SubmitTask, SubmitSession, NewSession
<1>3. ASSUME NEW c \in Cmd, TaskExit(c) \/ ThreadStdinFails(c) \/ Thread(c)
            \/ SessionStart(c) \/ SessionExit(c) \/ KillTask(c)
      PROVE UNCHANGED service
  BY <1>3, Zenon DEF Thread, TaskExit, ThreadStdinFails, ThreadStart,
     ThreadFailed, ThreadKill, ThreadWaited, ThreadExitCode, ThreadExecuted,
     ThreadProcess, SessionStart, SessionExit, KillTask
<1>4. ASSUME NEW c \in Cmd, AppShellExited(c) PROVE Flags'
  BY <1>4, Zenon DEF AppShellExited, UpdateNotification
<1>5. ASSUME NEW c \in Cmd, PressEnter(c) PROVE Flags'
  BY <1>5, Zenon DEF PressEnter, Finish, UpdateNotification
<1>6. ASSUME NEW c \in Cmd, NEW auto \in BOOLEAN, SessionFinished(c, auto)
      PROVE Flags'
  BY <1>6, Zenon DEF SessionFinished, Finish, UpdateNotification
<1>7. ASSUME NEW c \in Cmd, KillSession(c) PROVE Flags'
  BY <1>7, Zenon DEF KillSession, UpdateNotification
<1>8. CASE KillTaskFail \/ KillTaskResult \/ KillTaskSignal
  BY <1>8, Zenon DEF KillTaskFail, KillTaskResult, KillTaskSignal, service
<1>9. CASE KillPending  BY <1>9, Zenon DEF KillPending
<1>10. CASE ActionStopService \/ OnDestroy \/ OnCreate
  BY <1>10, Zenon DEF ActionStopService, OnDestroy, OnCreate
<1>11. ASSUME NEW b \in BOOLEAN, SetClient(b) \/ WakeLock(b) PROVE Flags'
  BY <1>11, Zenon DEF SetClient, WakeLock, UpdateNotification
<1>12. ASSUME UNCHANGED service PROVE Flags'  BY <1>12, Zenon DEF service
<1> QED
  BY ONLY [Next]_vars, <1>1, <1>2, <1>3, <1>4, <1>5, <1>6, <1>7, <1>8, <1>9,
     <1>10, <1>11, <1>12, Zenon DEF Next, Kill

(* The invariant holds at the start and from then on.                      *)
THEOREM Invariance == Spec => [](IInv /\ Flags)
<1>1. Init => IInv
  <2> SUFFICES ASSUME Init PROVE IInv  OBVIOUS
  <2> USE DEF Init
  <2>1. Data  BY StateFacts DEF Data
  <2>2. Killing  BY DEF Killing
  <2>3. ASSUME NEW d \in Cmd PROVE Command(d)
    BY <2>3 DEF Command, Ledger, Answer, Success, Processing, Waited
  <2> QED  BY <2>1, <2>2, <2>3 DEF IInv
<1>2. Init => Flags  BY Zenon DEF Init, Flags
<1>3. IInv /\ [Next]_vars => IInv'  BY Step
<1>4. Flags /\ [Next]_vars => Flags'  BY FlagsStep
<1> QED  BY <1>1, <1>2, <1>3, <1>4, PTL DEF Spec

-----------------------------------------------------------------------------
(* Type correctness of the service.                                        *)
THEOREM TypeCorrect == Spec => []TypeOK
<1>1. IInv /\ Flags => TypeOK  BY DEF IInv, TypeOK
<1> QED  BY <1>1, Invariance, PTL

(* For any number of commands, however their threads, the kills and the    *)
(* stops interleave: at most one result for each that is not rejected.     *)
THEOREM AnsweredOnceCorrect == Spec => []AnsweredOnce
<1>1. IInv => AnsweredOnce  BY DEF IInv, Command, Ledger, AnsweredOnce
<1> QED  BY <1>1, Invariance, PTL

(* processingResultsAlreadyCalled never suppresses the only result.        *)
THEOREM CalledIsAnsweredCorrect == Spec => []CalledIsAnswered
<1>1. IInv => CalledIsAnswered
  BY DEF IInv, Data, Command, Answer, CalledIsAnswered
<1> QED  BY <1>1, Invariance, PTL

(* The three lists of TermuxShellManager stay consistent.                  *)
THEOREM ListsCorrect == Spec => []Lists
<1>1. IInv => Lists
  BY DEF IInv, Data, Command, Ledger, Lists, Cmd
<1> QED  BY <1>1, Invariance, PTL

(* SUCCESS comes with the process's own exit code, after its end.          *)
THEOREM SuccessIsRealCorrect == Spec => []SuccessIsReal
<1>1. IInv => SuccessIsReal  BY DEF IInv, Command, Success, SuccessIsReal
<1> QED  BY <1>1, Invariance, PTL

(* After killAllTermuxExecutionCommands() no session is listed.            *)
THEOREM AllSessionsKilledCorrect == Spec => AllSessionsKilled
<1>1. IInv /\ [Next]_vars => [KillPending => sessions' = {}]_vars
  BY DEF IInv, Killing, KillPending, lists
<1> QED  BY <1>1, Invariance, PTL DEF Spec, AllSessionsKilled

-----------------------------------------------------------------------------
(* The states are ordered by their values.                                 *)
LEMMA ValueFacts ==
    /\ \A s \in States : Value(s) \in Nat
    /\ \A s, n \in States : s # n => Value(s) # Value(n)
    /\ \A s \in States : s # "FAILED" => Value(s) < Value("FAILED")
BY ValueOf DEF States

(* A transition that setState() accepts goes forward.                      *)
LEMMA AcceptsForward ==
    \A s, n \in States : Accepts(s, n) /\ s # n =>
        Value(s) < Value(n) /\ s # "SUCCESS"
BY ValueFacts DEF Accepts

(* What StateForward says of one step.                                     *)
Forward ==
    \A c \in Cmd : state'[c] # state[c] =>
        Value(state[c]) < Value(state'[c]) /\ state[c] # "SUCCESS"

(* A call of setState() moves a command forward or leaves it alone.        *)
LEMMA SetStateForward ==
    ASSUME Data, NEW c \in Cmd, NEW n \in States,
           state' = [state EXCEPT ![c] = SetState(@, n)]
    PROVE  Forward
<1>1. state[c] \in States  BY DEF Data
<1>2. SetState(state[c], n) # state[c] =>
        Value(state[c]) < Value(SetState(state[c], n)) /\ state[c] # "SUCCESS"
  BY <1>1, AcceptsForward DEF SetState
<1> QED  BY <1>2 DEF Data, Forward

(* TermuxSession.finish() goes on from EXECUTED to SUCCESS in one step.    *)
LEMMA FinishForward ==
    ASSUME Data, NEW c \in Cmd, Finish(c)
    PROVE  Forward
<1>1. CASE state' = state  BY <1>1 DEF Forward
<1>2. CASE /\ Accepts(state[c], "EXECUTED")
           /\ \E n \in {"SUCCESS", "EXECUTED"} :
                state' = [state EXCEPT ![c] = n]
  <2>1. PICK n \in {"SUCCESS", "EXECUTED"} : state' = [state EXCEPT ![c] = n]
    BY <1>2, Zenon
  <2>2. n \in States /\ state[c] \in States  BY StateFacts DEF Data
  <2>3. Accepts(state[c], n)  BY <1>2, <2>2, StateFacts
  <2>4. n # state[c] => Value(state[c]) < Value(n) /\ state[c] # "SUCCESS"
    BY <2>2, <2>3, AcceptsForward, Zenon
  <2> QED  BY <2>1, <2>4 DEF Data, Forward
<1> QED  BY <1>1, <1>2, Zenon DEF Finish

(* No step takes a state back or changes SUCCESS.                          *)
LEMMA ForwardStep == ASSUME Data, [Next]_vars PROVE Forward
<1> USE DEF command
<1>1. ASSUME state' = state PROVE Forward  BY <1>1 DEF Forward
<1>2. ASSUME NEW c \in Cmd, SubmitBadRunner(c) \/ SubmitRejected(c)
            \/ SubmitTaskFails(c) \/ ThreadStdinFails(c)
      PROVE Forward
  <2>1. state' = [state EXCEPT ![c] = SetState(@, "FAILED")]
    BY <1>2, Zenon DEF SubmitBadRunner, SubmitRejected, SubmitTaskFails,
       ThreadStdinFails
  <2> QED  BY <2>1, SetStateForward, Zenon DEF States
<1>3. ASSUME NEW c \in Cmd, SubmitTask(c) \/ SubmitSession(c) \/ NewSession(c)
      PROVE Forward
  <2>1. state' = [state EXCEPT ![c] = SetState(@, "EXECUTING")]
    BY <1>3, Zenon DEF SubmitTask, SubmitSession, NewSession
  <2> QED  BY <2>1, SetStateForward, Zenon DEF States
<1>4. ASSUME NEW c \in Cmd, ThreadExecuted(c) PROVE Forward
  BY <1>4, SetStateForward, Zenon DEF ThreadExecuted, States
<1>5. ASSUME NEW c \in Cmd, AppShellExited(c) PROVE Forward
  <2>1. \/ state' = state
        \/ state' = [state EXCEPT ![c] = SetState(@, "SUCCESS")]
    BY <1>5, Zenon DEF AppShellExited, ProcessResult
  <2> QED  BY <1>1, <2>1, SetStateForward DEF States
<1>6. ASSUME NEW c \in Cmd, PressEnter(c)
            \/ \E auto \in BOOLEAN : SessionFinished(c, auto)
      PROVE Forward
  <2>1. state' = state \/ Finish(c)
    BY <1>6, Zenon DEF PressEnter, SessionFinished
  <2> QED  BY <1>1, <2>1, FinishForward
<1>7. ASSUME NEW c \in Cmd, KillSession(c) PROVE Forward
  <2>1. \/ state' = [state EXCEPT ![c] = SetState(@, "FAILED")]
        \/ state' = [state EXCEPT ![c] = @]
    BY <1>7, Zenon DEF KillSession
  <2>2. CASE state' = [state EXCEPT ![c] = @]  BY <2>2 DEF Data, Forward
  <2> QED  BY <2>1, <2>2, SetStateForward DEF States
<1>8. CASE KillTaskFail
  <2>1. cur \in Cmd  BY <1>8 DEF KillTaskFail, Data, Cmd
  <2> QED  BY <1>8, <2>1, SetStateForward, Zenon
     DEF KillTaskFail, States
<1>9. CASE KillPending
  <2> SUFFICES
        ASSUME NEW c \in Cmd, state'[c] # state[c]
        PROVE  Value(state[c]) < Value(state'[c]) /\ state[c] # "SUCCESS"
    BY DEF Forward
  <2>1. state'[c] = "FAILED" /\ Accepts(state[c], "FAILED")
    BY <1>9 DEF KillPending
  <2>2. state[c] \in States  BY DEF Data
  <2> QED  BY <2>1, <2>2, ValueFacts, StateFacts
<1>10. ASSUME NEW c \in Cmd, SubmitNamesake(c) \/ TaskExit(c) \/ ThreadStart(c)
            \/ ThreadFailed(c) \/ ThreadKill(c) \/ ThreadWaited(c)
            \/ ThreadExitCode(c) \/ ThreadProcess(c) \/ SessionStart(c)
            \/ SessionExit(c) \/ KillTask(c)
       PROVE state' = state
  BY <1>10, Zenon DEF SubmitNamesake, TaskExit, ThreadStart, ThreadFailed,
     ThreadKill, ThreadWaited, ThreadExitCode, ThreadProcess, SessionStart,
     SessionExit, KillTask
<1>11. ASSUME NEW b \in BOOLEAN, SetClient(b) \/ WakeLock(b)
       PROVE state' = state
  BY <1>11, Zenon DEF SetClient, WakeLock
<1>12. ASSUME KillTaskResult \/ KillTaskSignal \/ ActionStopService
            \/ OnDestroy \/ OnCreate \/ UNCHANGED vars
       PROVE state' = state
  BY <1>12, Zenon DEF KillTaskResult, KillTaskSignal, ActionStopService,
     OnDestroy, OnCreate, vars
<1> QED
  BY ONLY [Next]_vars, <1>1, <1>2, <1>3, <1>4, <1>5, <1>6, <1>7, <1>8, <1>9,
     <1>10, <1>11, <1>12, Zenon DEF Next, Kill, Thread

(* The state of a command only goes forward and ends with SUCCESS.         *)
THEOREM StateForwardCorrect == Spec => StateForward
<1>1. IInv /\ [Next]_vars => [Forward]_vars
  BY ForwardStep DEF IInv
<1> QED  BY <1>1, Invariance, PTL DEF Spec, StateForward, Forward
=============================================================================
