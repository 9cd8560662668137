------------------------------- MODULE MCTaskRun -------------------------------
(***************************************************************************)
(* The step runner and the log of one of its tasks, checked in one run: the *)
(* runner reads the log and decides nothing by it, so a behaviour is one of *)
(* the runner or one of the log, and the other stands still.                *)
(***************************************************************************)
EXTENDS StepRunner, TaskLog

VARIABLE on   \* the part that runs

RunInit ==
  /\ Init /\ LogInit
  /\ on \in IF framed THEN {"runner", "log"} ELSE {"runner"}

RunNext ==
  /\ UNCHANGED on
  /\ \/ on = "runner" /\ Next /\ UNCHANGED logVars
     \/ on = "log" /\ LogNext /\ UNCHANGED vars

RunSpec == RunInit /\ [][RunNext]_<<on, vars, logVars>>

RunTypeOK == TypeOK /\ LogTypeOK
=============================================================================
