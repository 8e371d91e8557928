-------------------------- MODULE ExecutionCommand --------------------------
(***************************************************************************)
(* The life of com.termux.shared.shell.command.ExecutionCommand.  Each of  *)
(* these methods is synchronized on the command, so each is one step.      *)
(***************************************************************************)
EXTENDS Integers

States == {"PRE_EXECUTION", "EXECUTING", "EXECUTED", "SUCCESS", "FAILED"}

(* ExecutionState.getValue() *)
Value(s) == CASE s = "PRE_EXECUTION" -> 0
              [] s = "EXECUTING" -> 1
              [] s = "EXECUTED" -> 2
              [] s = "SUCCESS" -> 3
              [] s = "FAILED" -> 4

(* Mutant of Accepts: a command that has failed may still succeed. *)
AcceptsAny(s, new) == s # "SUCCESS"

(* What setState(new) returns in state s ... *)
Accepts(s, new) == Value(new) >= Value(s) /\ s # "SUCCESS"

(* ... and the state it leaves. *)
SetState(s, new) == IF Accepts(s, new) THEN new ELSE s

HasExecuted(s) == Value(s) >= Value("EXECUTED")
=============================================================================
