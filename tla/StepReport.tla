------------------------------ MODULE StepReport ------------------------------
(***************************************************************************)
(* What the step runner promises the reader of its stream                   *)
(* (src/internal/output/run.go, "One owner"): the tasks come in order, each *)
(* with one result line, a task's messages come after its result line and   *)
(* before the next task, in the order they were sent, and the tasks that    *)
(* did not run are listed at the end.                                       *)
(***************************************************************************)
EXTENDS Naturals, Sequences, FiniteSets

CONSTANT N   \* the number of tasks of the Run

VARIABLES starts,  \* whether a task has a start line (off a terminal)
          lines,   \* what has been written, the oldest line first
          sent,    \* how many messages were sent
          phase    \* where the report is

vars == <<starts, lines, sent, phase>>

Verdicts == {"ok", "fail", "interrupted"}

StartLine(t)     == [kind |-> "start", n |-> t, v |-> "busy"]
ResultLine(t, v) == [kind |-> "result", n |-> t, v |-> v]
IdleLine(t)      == [kind |-> "idle", n |-> t, v |-> "idle"]
MessageLine(m)   == [kind |-> "message", n |-> m, v |-> "said"]

(* How many lines of a kind have been written.                               *)
Written(k) == Cardinality({i \in DOMAIN lines : lines[i].kind = k})

Task == Written("result") + 1

(***************************************************************************)
(* "between" two tasks, "inTask" (its result line is still to come),        *)
(* "closing" (after it), "failed" (only idle lines follow), "interrupted".  *)
(***************************************************************************)
Phases == {"between", "inTask", "closing", "failed", "interrupted"}

Init == starts \in BOOLEAN /\ lines = <<>> /\ sent = 0 /\ phase = "between"

Begin ==
  /\ phase \in {"between", "closing"}
  /\ Written("message") = sent
  /\ Task <= N
  /\ lines' = IF starts THEN Append(lines, StartLine(Task)) ELSE lines
  /\ phase' = "inTask"
  /\ UNCHANGED <<starts, sent>>

(* A task sends a message; one that a signal has ended may still run.        *)
Send ==
  /\ phase \in {"inTask", "interrupted"}
  /\ sent' = sent + 1
  /\ \/ UNCHANGED lines
     \/ /\ phase = "interrupted" /\ Written("message") = sent
        /\ lines' = Append(lines, MessageLine(sent + 1))
  /\ UNCHANGED <<starts, phase>>

Result(v) ==
  /\ phase = "inTask"
  /\ lines' = Append(lines, ResultLine(Task, v))
  /\ phase' = CASE v = "ok" -> "closing"
                [] v = "fail" -> "failed"
                [] v = "interrupted" -> "interrupted"
  /\ UNCHANGED <<starts, sent>>

Message ==
  /\ phase \in {"closing", "failed", "interrupted"}
  /\ Written("message") < sent
  /\ lines' = Append(lines, MessageLine(Written("message") + 1))
  /\ UNCHANGED <<starts, sent, phase>>

(* The tasks not run, after a failure or when no log can be made.            *)
Idle ==
  /\ phase \in {"between", "closing", "failed"}
  /\ Written("message") = sent
  /\ LET t == Task + Written("idle") IN
       t <= N /\ lines' = Append(lines, IdleLine(t))
  /\ phase' = "failed"
  /\ UNCHANGED <<starts, sent>>

Next == Begin \/ Send \/ (\E v \in Verdicts : Result(v)) \/ Message \/ Idle

Spec == Init /\ [][Next]_vars
=============================================================================
