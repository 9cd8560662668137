------------------------------ MODULE StepRunner ------------------------------
(***************************************************************************)
(* The step runner (src/internal/output/run.go): the goroutine that called  *)
(* Run and runs the tasks, the ticker that redraws the frame, the watcher   *)
(* of the signals, and the interrupt it starts at the first one.            *)
(*                                                                         *)
(* Each action is a section under one lock, or one write to the stream.     *)
(***************************************************************************)
EXTENDS Naturals, Sequences, SequencesExt

CONSTANTS N,            \* tasks of the outermost Run
          M,            \* tasks of a Run called inside a task
          MaxNested,    \* bound on those Runs
          MaxMessages,  \* bound on messages
          MaxSignals,   \* bound on signals; at most the channel's three places
          MayStall      \* whether the stream can stop draining (Ctrl-S)

ASSUME BoundsAssumption == /\ N \in Nat \ {0}
                           /\ M \in Nat \ {0}
                           /\ MaxNested \in Nat
                           /\ MaxMessages \in Nat
                           /\ MaxSignals \in 0..3
                           /\ MayStall \in BOOLEAN

VARIABLES framed,  \* the stream is a terminal the frame can be drawn on
          main,    \* the goroutine that called Run
          run,     \* runner.state and runner.pending, under runner.mu
          gate,    \* owner.open and owner.queue, under owner.mu
          frame,   \* whether it is on screen, f.stop, and its ticker goroutine
          drain,   \* where each of the two that can drain is in it
          sig,     \* the signals, the watcher and the interrupt
          screen,  \* what has been written
          end      \* how the Run ended

vars == <<framed, main, run, gate, frame, drain, sig, screen, end>>

Drainers == {"main", "interrupt"}

InBody   == {"body", "nestCheck", "nestLine", "nestReserve", "nestBody",
             "nestFill", "nestQueue", "nestRest"}
Begun    == {"opening", "drawing", "publishing", "leaving", "draining",
             "parked"} \cup InBody
MainPc   == {"next", "claimed", "barred", "listing", "stopping", "stopped"}
              \cup Begun
States   == {"closed", "starting", "running", "draining", "interrupted"}
Verdicts == {"ok", "fail", "panic", "interrupted"}

(***************************************************************************)
(* A line: of task t of the Run, or of the task that is number nest of the  *)
(* Runs inside it, counted on from one to the next; a message has a number  *)
(* n besides.                                                               *)
(***************************************************************************)
Kinds == {"start", "result", "idle", "message", "place"}
Line  == [kind : Kinds, t : 1..N, nest : 0..(M * MaxNested), n : 0..MaxMessages,
          v : Verdicts \cup {"busy", "idle", "said"}]

Step(k, t, j, v) == [kind |-> k, t |-> t, nest |-> j, n |-> 0, v |-> v]
Said(n)          == [kind |-> "message", t |-> main.task, nest |-> main.nest,
                     n |-> n, v |-> "said"]

TypeOK ==
  /\ framed \in BOOLEAN
  /\ main \in [pc : MainPc, task : 1..(N + 1), nest : 0..(M * MaxNested), verdict : Verdicts,
               nested : 0..MaxNested, said : 0..MaxMessages]
  /\ run \in [state : States, pending : BOOLEAN]
  /\ gate \in [open : BOOLEAN, queue : Seq(Line)]
  /\ frame \in [drawn : BOOLEAN, stop : BOOLEAN,
                ticker : {"off", "idle", "writing"}]
  /\ drain \in [Drainers -> [at : {"no", "stop", "wait", "result", "take",
                                   "write", "done"},
                             batch : Seq(Line)]]
  /\ sig \in [waiting : 0..MaxSignals, sent : 0..MaxSignals, quit : BOOLEAN,
              watch : {"wait", "second", "grace", "done"},
              intr : {"off", "start", "wait", "drain", "die"}]
  /\ screen \in [lines : Seq(Line), torn : BOOLEAN, stuck : BOOLEAN]
  /\ end \in {"no", "returned", "panicked", "first", "second"}

Init ==
  /\ framed \in BOOLEAN
  /\ main = [pc |-> "next", task |-> 1, nest |-> 0, verdict |-> "ok",
             nested |-> 0, said |-> 0]
  /\ run = [state |-> "closed", pending |-> FALSE]
  /\ gate = [open |-> FALSE, queue |-> <<>>]
  /\ frame = [drawn |-> FALSE, stop |-> FALSE, ticker |-> "off"]
  /\ drain = [d \in Drainers |-> [at |-> "no", batch |-> <<>>]]
  /\ sig = [waiting |-> 0, sent |-> 0, quit |-> FALSE, watch |-> "wait",
            intr |-> "off"]
  /\ screen = [lines |-> <<>>, torn |-> FALSE, stuck |-> FALSE]
  /\ end = "no"

-----------------------------------------------------------------------------
(* Writing and queueing.                                                     *)

(* writeLine: blocks while the stream does not drain.                        *)
Write(l) ==
  /\ ~screen.stuck
  /\ screen' = [screen EXCEPT !.lines = Append(@, l), !.torn = @ \/ frame.drawn]

(* queueLine, and emit: the line is queued while the gate is open.           *)
Queue(l) ==
  IF gate.open THEN gate' = [gate EXCEPT !.queue = Append(@, l)] /\ UNCHANGED screen
  ELSE Write(l) /\ UNCHANGED gate

Blank(l)   == l.kind = "place"
HasPlace   == \E k \in DOMAIN gate.queue : Blank(gate.queue[k])
Pc(p)      == main' = [main EXCEPT !.pc = p]
At(p)      == end = "no" /\ main.pc = p
Others     == UNCHANGED <<framed, frame, drain, sig, end>>

-----------------------------------------------------------------------------
(* run and runTask: the owner between its tasks.                             *)

(***************************************************************************)
(* Not even the null device can be opened as the task's log: the task did   *)
(* not start, and is listed with those that did not run.                    *)
(***************************************************************************)
NoLog ==
  /\ At("next") /\ main.task <= N
  /\ Pc("listing")
  /\ Others /\ UNCHANGED <<run, gate, screen>>

Claim ==
  /\ At("next") /\ main.task <= N
  /\ IF run.pending \/ run.state = "interrupted"
     THEN Pc("barred") /\ UNCHANGED run
     ELSE Pc("claimed") /\ run' = [run EXCEPT !.state = "starting"]
  /\ Others /\ UNCHANGED <<gate, screen>>

WriteStart ==
  /\ At("claimed") /\ ~framed
  /\ Write(Step("start", main.task, 0, "busy"))
  /\ Pc("opening")
  /\ Others /\ UNCHANGED <<run, gate>>

OpenGate ==
  /\ At("opening") \/ (At("claimed") /\ framed)
  /\ gate' = [gate EXCEPT !.open = TRUE]
  /\ Pc(IF framed THEN "drawing" ELSE "publishing")
  /\ Others /\ UNCHANGED <<run, screen>>

(* startFrame draws the frame, then starts its ticker.                       *)
StartFrame ==
  /\ At("drawing") /\ ~screen.stuck
  /\ frame' = [drawn |-> TRUE, stop |-> FALSE, ticker |-> "idle"]
  /\ Pc("publishing")
  /\ UNCHANGED <<framed, run, gate, drain, sig, screen, end>>

Publish ==
  /\ At("publishing")
  /\ run' = [run EXCEPT !.state = "running"]
  /\ Pc("body")
  /\ Others /\ UNCHANGED <<gate, screen>>

(* The tasks that did not run are listed after a failure.                    *)
ListUnbounded ==
  /\ At("listing")
  /\ Write(Step("idle", main.task, 0, "idle"))
  /\ main' = [main EXCEPT !.task = @ + 1]
  /\ Others /\ UNCHANGED <<run, gate>>

List ==
  /\ At("listing")
  /\ IF main.task > N THEN Pc("stopping") /\ UNCHANGED screen
     ELSE /\ Write(Step("idle", main.task, 0, "idle"))
          /\ main' = [main EXCEPT !.task = @ + 1]
  /\ Others /\ UNCHANGED <<run, gate>>

AllRun ==
  /\ At("next") /\ main.task > N
  /\ Pc("stopping")
  /\ Others /\ UNCHANGED <<run, gate, screen>>

(* stop() and close(quit), then the wait for the watcher.                    *)
StopWatching ==
  /\ At("stopping")
  /\ sig' = [sig EXCEPT !.quit = TRUE]
  /\ Pc("stopped")
  /\ UNCHANGED <<framed, run, gate, frame, drain, screen, end>>

Return ==
  /\ At("stopped") /\ sig.watch = "done"
  /\ end' = IF main.verdict = "panic" THEN "panicked" ELSE "returned"
  /\ gate' = [open |-> FALSE, queue |-> <<>>]
  /\ UNCHANGED <<framed, main, run, frame, drain, sig, screen>>

-----------------------------------------------------------------------------
(* A task: t.Run, on the goroutine that called Run.                          *)

(* A message helper: it queues while the gate is open, and else writes.      *)
Say ==
  /\ end = "no" /\ main.pc \in {"body", "nestBody"}
  /\ main.said < MaxMessages
  /\ Queue(Said(main.said + 1))
  /\ main' = [main EXCEPT !.said = @ + 1]
  /\ Others /\ UNCHANGED run

TaskEnds ==
  /\ At("body")
  /\ \E v \in {"ok", "fail", "panic"} :
       main' = [main EXCEPT !.pc = "leaving", !.verdict = v]
  /\ Others /\ UNCHANGED <<run, gate, screen>>

(* runNested: a Run called inside a task.                                    *)
CallRun ==
  /\ At("body") /\ main.nested < MaxNested
  /\ main' = [main EXCEPT !.pc = "nestCheck", !.nest = M * main.nested + 1, !.nested = @ + 1]
  /\ Others /\ UNCHANGED <<run, gate, screen>>

BackInTask == main' = [main EXCEPT !.pc = "body", !.nest = 0]

(* outer.barred(), under a lock it then releases.                            *)
NestCheck ==
  /\ At("nestCheck")
  /\ IF run.pending \/ run.state = "interrupted" THEN BackInTask
     ELSE Pc(IF framed THEN "nestReserve" ELSE "nestLine")
  /\ Others /\ UNCHANGED <<run, gate, screen>>

NestLine ==
  /\ At("nestLine")
  /\ Queue(Step("start", main.task, main.nest, "busy"))
  /\ Pc("nestReserve")
  /\ Others /\ UNCHANGED run

(* Mutant: no place is reserved.                                             *)
NestReserveNot ==
  /\ At("nestReserve")
  /\ Pc("nestBody")
  /\ Others /\ UNCHANGED <<run, gate, screen>>

(* A place for the result line, if anything queues; then the task runs.      *)
NestReserve ==
  /\ At("nestReserve")
  /\ gate' = IF gate.open
             THEN [gate EXCEPT !.queue =
                     Append(@, Step("place", main.task, main.nest, "busy"))]
             ELSE gate
  /\ Pc("nestBody")
  /\ Others /\ UNCHANGED <<run, screen>>

NestEnds ==
  /\ At("nestBody")
  /\ \/ \E v \in {"ok", "fail"} :
          main' = [main EXCEPT !.pc = "nestFill", !.verdict = v]
     \/ main' = [main EXCEPT !.pc = "leaving", !.nest = 0, !.verdict = "panic"]
  /\ Others /\ UNCHANGED <<run, gate, screen>>

LastNested == main.nest = M * main.nested

NestResult == Step("result", main.task, main.nest, main.verdict)

(* The next task of the nested Run, its last ones unrun, or back.            *)
NestOn ==
  main' = IF LastNested THEN [main EXCEPT !.pc = "body", !.nest = 0]
          ELSE [main EXCEPT !.nest = @ + 1,
                            !.pc = IF main.verdict = "ok" THEN "nestCheck"
                                   ELSE "nestRest"]

(* fill: the place, unless a drain took it empty.                            *)
NestFill ==
  /\ At("nestFill")
  /\ IF HasPlace
     THEN /\ gate' = [gate EXCEPT !.queue =
                        [k \in DOMAIN @ |-> IF Blank(@[k]) THEN NestResult
                                            ELSE @[k]]]
          /\ NestOn
     ELSE Pc("nestQueue") /\ UNCHANGED gate
  /\ Others /\ UNCHANGED <<run, screen>>

NestQueue ==
  /\ At("nestQueue")
  /\ Queue(NestResult)
  /\ NestOn
  /\ Others /\ UNCHANGED run

NestRest ==
  /\ At("nestRest")
  /\ Queue(Step("idle", main.task, main.nest, "idle"))
  /\ main' = IF LastNested THEN [main EXCEPT !.pc = "body", !.nest = 0]
             ELSE [main EXCEPT !.nest = @ + 1]
  /\ Others /\ UNCHANGED run

-----------------------------------------------------------------------------
(* leave, drain and settle.                                                  *)

DrainFrom == IF framed THEN "stop" ELSE "result"

(* Mutant: the owner does not look whether an interrupt took the task.       *)
LeaveUnchecked ==
  /\ At("leaving")
  /\ Pc("draining")
  /\ run' = [run EXCEPT !.state = "draining"]
  /\ drain' = [drain EXCEPT !["main"].at = DrainFrom]
  /\ UNCHANGED <<framed, gate, frame, sig, screen, end>>

Leave ==
  /\ At("leaving")
  /\ IF run.state = "interrupted"
     THEN Pc("parked") /\ UNCHANGED <<run, drain>>
     ELSE /\ Pc("draining")
          /\ run' = [run EXCEPT !.state = "draining"]
          /\ drain' = [drain EXCEPT !["main"].at = DrainFrom]
  /\ UNCHANGED <<framed, gate, frame, sig, screen, end>>

DrainAt(d, a) == end = "no" /\ drain[d].at = a
DrainTo(d, a) == drain' = [drain EXCEPT ![d].at = a]

StopFrame(d) ==
  /\ DrainAt(d, "stop")
  /\ frame' = [frame EXCEPT !.stop = TRUE]
  /\ DrainTo(d, "wait")
  /\ UNCHANGED <<framed, main, run, gate, sig, screen, end>>

(* Mutant: the frame is erased while the ticker may be writing it.           *)
EraseAtOnce(d) ==
  /\ DrainAt(d, "wait")
  /\ ~screen.stuck
  /\ frame' = [frame EXCEPT !.drawn = FALSE]
  /\ DrainTo(d, "result")
  /\ UNCHANGED <<framed, main, run, gate, sig, screen, end>>

(* <-f.done, and the bytes that erase the frame.                             *)
Erase(d) ==
  /\ DrainAt(d, "wait") /\ frame.ticker = "off"
  /\ ~screen.stuck
  /\ frame' = [frame EXCEPT !.drawn = FALSE]
  /\ DrainTo(d, "result")
  /\ UNCHANGED <<framed, main, run, gate, sig, screen, end>>

Verdict(d) == IF d = "interrupt" THEN "interrupted"
              ELSE IF main.verdict = "panic" THEN "fail" ELSE main.verdict

WriteResult(d) ==
  /\ DrainAt(d, "result")
  /\ Write(Step("result", main.task, 0, Verdict(d)))
  /\ DrainTo(d, "take")
  /\ UNCHANGED <<framed, main, run, gate, frame, sig, end>>

(* The queue without the place not filled yet: a Run inside a task has one   *)
(* task at a time, so one place at most.                                     *)
Place == CHOOSE k \in DOMAIN gate.queue : Blank(gate.queue[k])
Batch == IF HasPlace THEN RemoveAt(gate.queue, Place) ELSE gate.queue

(* Mutants: one batch is taken and the gate closes with it; the gate closes  *)
(* before what was taken is written.                                         *)
TakeOnce(d) ==
  /\ DrainAt(d, "take")
  /\ gate' = [gate EXCEPT !.queue = <<>>]
  /\ drain' = [drain EXCEPT ![d] = [at |-> "done", batch |-> <<>>]]
  /\ UNCHANGED <<framed, main, run, frame, sig, screen, end>>

TakeAndClose(d) ==
  /\ DrainAt(d, "take")
  /\ gate' = [open |-> FALSE, queue |-> <<>>]
  /\ drain' = [drain EXCEPT ![d] =
                 [at |-> IF gate.queue = <<>> THEN "done"
                         ELSE IF Batch = <<>> THEN "take" ELSE "write",
                  batch |-> Batch]]
  /\ UNCHANGED <<framed, main, run, frame, sig, screen, end>>

(***************************************************************************)
(* A batch of the queue, its unfilled places left out; or the gate closes   *)
(* in the step that finds the queue empty.                                  *)
(***************************************************************************)
Take(d) ==
  /\ DrainAt(d, "take")
  /\ gate' = [open |-> gate.open /\ gate.queue # <<>>, queue |-> <<>>]
  /\ drain' = [drain EXCEPT ![d] =
                 [at |-> IF gate.queue = <<>> THEN "done"
                         ELSE IF Batch = <<>> THEN "take" ELSE "write",
                  batch |-> Batch]]
  /\ UNCHANGED <<framed, main, run, frame, sig, screen, end>>

WriteTaken(d) ==
  /\ DrainAt(d, "write")
  /\ Write(Head(drain[d].batch))
  /\ drain' = [drain EXCEPT ![d] =
                 [at |-> IF Len(@.batch) = 1 THEN "take" ELSE "write",
                  batch |-> Tail(@.batch)]]
  /\ UNCHANGED <<framed, main, run, gate, frame, sig, end>>

Settle ==
  /\ DrainAt("main", "done")
  /\ DrainTo("main", "no")
  /\ run' = [run EXCEPT !.state = "closed"]
  /\ main' = [main EXCEPT
       !.task = IF main.verdict = "panic" THEN @ ELSE @ + 1,
       !.pc = CASE main.verdict = "ok"    -> "next"
                [] main.verdict = "fail"  -> "listing"
                [] main.verdict = "panic" -> "stopping"]
  /\ UNCHANGED <<framed, gate, frame, sig, screen, end>>

(* The ticker's goroutine; a redraw it has begun goes on after f.stop.       *)
Tick ==
  /\ end = "no" /\ frame.ticker = "idle"
  /\ frame' = [frame EXCEPT !.ticker = "writing"]
  /\ UNCHANGED <<framed, main, run, gate, drain, sig, screen, end>>

Redraw ==
  /\ end = "no" /\ frame.ticker = "writing" /\ ~screen.stuck
  /\ frame' = [frame EXCEPT !.ticker = "idle", !.drawn = TRUE]
  /\ UNCHANGED <<framed, main, run, gate, drain, sig, screen, end>>

TickerStops ==
  /\ end = "no" /\ frame.ticker = "idle" /\ frame.stop
  /\ frame' = [frame EXCEPT !.ticker = "off"]
  /\ UNCHANGED <<framed, main, run, gate, drain, sig, screen, end>>

-----------------------------------------------------------------------------
(* Signals: the watcher, and the interrupt it starts at the first one.       *)

(* A signal is put into the channel until stop() is called.                  *)
Deliver ==
  /\ end = "no" /\ ~sig.quit /\ sig.sent < MaxSignals
  /\ sig' = [sig EXCEPT !.sent = @ + 1, !.waiting = @ + 1]
  /\ UNCHANGED <<framed, main, run, gate, frame, drain, screen, end>>

WatchSees ==
  /\ end = "no" /\ sig.watch = "wait" /\ sig.waiting > 0
  /\ sig' = [sig EXCEPT !.waiting = @ - 1, !.watch = "second", !.intr = "start"]
  /\ UNCHANGED <<framed, main, run, gate, frame, drain, screen, end>>

(* Mutant: a signal that came before the end is dropped.                     *)
WatchQuitsAtOnce ==
  /\ end = "no" /\ sig.watch = "wait" /\ sig.quit
  /\ sig' = [sig EXCEPT !.watch = "done"]
  /\ UNCHANGED <<framed, main, run, gate, frame, drain, screen, end>>

WatchQuits ==
  /\ end = "no" /\ sig.watch = "wait" /\ sig.quit /\ sig.waiting = 0
  /\ sig' = [sig EXCEPT !.watch = "done"]
  /\ UNCHANGED <<framed, main, run, gate, frame, drain, screen, end>>

(* Mutant: the watcher runs the interrupt itself and hears nothing more.     *)
WatchDeaf ==
  /\ end = "no" /\ sig.watch = "second" /\ sig.waiting > 0
  /\ sig.intr = "die"
  /\ sig' = [sig EXCEPT !.waiting = @ - 1, !.watch = "grace"]
  /\ UNCHANGED <<framed, main, run, gate, frame, drain, screen, end>>

WatchSecond ==
  /\ end = "no" /\ sig.watch = "second" /\ sig.waiting > 0
  /\ sig' = [sig EXCEPT !.waiting = @ - 1, !.watch = "grace"]
  /\ UNCHANGED <<framed, main, run, gate, frame, drain, screen, end>>

(* The grace has run out: the process dies of the second signal.             *)
DieOfSecond ==
  /\ end = "no" /\ sig.watch = "grace"
  /\ end' = "second"
  /\ UNCHANGED <<framed, main, run, gate, frame, drain, sig, screen>>

(* The interrupt takes over from whatever state the task is in.              *)
TakeOver ==
  /\ run' = [state |-> "interrupted", pending |-> TRUE]
  /\ IF run.state = "running"
     THEN /\ DrainTo("interrupt", DrainFrom)
          /\ sig' = [sig EXCEPT !.intr = "drain"]
     ELSE /\ sig' = [sig EXCEPT !.intr = "die"]
          /\ UNCHANGED drain

Interrupt ==
  /\ end = "no" /\ sig.intr = "start"
  /\ IF run.state \in {"starting", "draining"}
     THEN /\ run' = [run EXCEPT !.pending = TRUE]
          /\ sig' = [sig EXCEPT !.intr = "wait"]
          /\ UNCHANGED drain
     ELSE TakeOver
  /\ UNCHANGED <<framed, main, gate, frame, screen, end>>

(* cond.Wait: publish and settle wake it.                                    *)
Wake ==
  /\ end = "no" /\ sig.intr = "wait"
  /\ run.state \notin {"starting", "draining"}
  /\ TakeOver
  /\ UNCHANGED <<framed, main, gate, frame, screen, end>>

InterruptDrained ==
  /\ DrainAt("interrupt", "done")
  /\ DrainTo("interrupt", "no")
  /\ sig' = [sig EXCEPT !.intr = "die"]
  /\ UNCHANGED <<framed, main, run, gate, frame, screen, end>>

DieOfFirst ==
  /\ end = "no" /\ sig.intr = "die"
  /\ end' = "first"
  /\ UNCHANGED <<framed, main, run, gate, frame, drain, sig, screen>>

(* The stream stops draining: a terminal stopped with Ctrl-S.                *)
Stall ==
  /\ end = "no" /\ MayStall /\ ~screen.stuck
  /\ screen' = [screen EXCEPT !.stuck = TRUE]
  /\ UNCHANGED <<framed, main, run, gate, frame, drain, sig, end>>

-----------------------------------------------------------------------------
Between == NoLog \/ Claim \/ WriteStart \/ OpenGate \/ StartFrame \/ Publish
           \/ List \/ AllRun \/ StopWatching \/ Return
Body    == Say \/ TaskEnds \/ CallRun \/ NestCheck \/ NestLine \/ NestReserve
           \/ NestEnds \/ NestFill \/ NestQueue \/ NestRest
Drain(d) == StopFrame(d) \/ Erase(d) \/ WriteResult(d) \/ Take(d) \/ WriteTaken(d)
Owner   == Between \/ Leave \/ Drain("main") \/ Settle
Watcher == WatchSees \/ WatchQuits \/ WatchSecond \/ DieOfSecond
Interrupter == Interrupt \/ Wake \/ Drain("interrupt") \/ InterruptDrained
               \/ DieOfFirst

Next == Owner \/ Body \/ Tick \/ Redraw \/ TickerStops \/ Deliver \/ Watcher \/ Interrupter
        \/ Stall

Spec == Init /\ [][Next]_vars

(***************************************************************************)
(* Every goroutine the Go scheduler can run is run.  Nothing is assumed of  *)
(* a task: it may run for ever.  The ticker's select takes f.stop in the    *)
(* end: a tick comes every 100 ms, and select draws among what is ready.    *)
(***************************************************************************)
FairSpec == Spec /\ WF_vars(Owner) /\ WF_vars(Redraw) /\ SF_vars(TickerStops)
                 /\ WF_vars(Watcher) /\ WF_vars(Interrupter)
-----------------------------------------------------------------------------
(* Properties.                                                               *)

Lines   == screen.lines
Ended   == end # "no"
Drained == end \in {"returned", "panicked", "first"}

Count(P(_)) == Cardinality({k \in DOMAIN Lines : P(Lines[k])})

(***************************************************************************)
(* No line is written under a live frame, by whichever goroutine, and no    *)
(* redraw lands after the frame was erased ("a message written under a live *)
(* frame would tear it", message.go).                                       *)
(***************************************************************************)
NeverTorn == ~screen.torn

(***************************************************************************)
(* However the Run ends, but for a second signal: a task that was begun has *)
(* exactly one result line, and a Run that returns accounts for every task, *)
(* by a result line or an idle one.                                         *)
(***************************************************************************)
OneResult ==
  \A t \in 1..N :
    LET c == Count(LAMBDA l : l.t = t /\ l.nest = 0 /\ l.kind \in {"result", "idle"})
    IN /\ c <= 1
       /\ end = "returned" => c = 1
       /\ (Drained /\ t = main.task /\ main.pc \in Begun) => c = 1

(***************************************************************************)
(* Every message sent from a task reaches the stream, once, before Run      *)
(* returns or the process dies of the first signal ("the messages a task    *)
(* queued would otherwise die with the process").                           *)
(***************************************************************************)
NothingLost ==
  \A m \in 1..main.said :
    LET c == Count(LAMBDA l : l.kind = "message" /\ l.n = m)
    IN c <= 1 /\ (Drained => c = 1)

(***************************************************************************)
(* The result line of a nested Run's task stands ahead of the messages the  *)
(* task queued, unless a signal drained the queue while it ran (runNested). *)
(***************************************************************************)
NestedResultFirst ==
  \A j, k \in DOMAIN Lines :
    (/\ j < k
     /\ Lines[j].kind = "message" /\ Lines[k].kind = "result"
     /\ Lines[j].t = Lines[k].t /\ Lines[j].nest = Lines[k].nest
     /\ Lines[k].nest > 0)
      => run.state = "interrupted"

(***************************************************************************)
(* "A signal already delivered when Run finishes is still handled, not      *)
(* dropped" (watch): a Run that was sent one never returns.                 *)
(***************************************************************************)
SignalHandled == end \in {"returned", "panicked"} => sig.sent = 0

(***************************************************************************)
(* A signal ends the process, whatever the task does, if the stream drains; *)
(* a second one ends it even if the stream never drains again; and a Run    *)
(* whose tasks are done returns (watch, "as a stream that does not drain    *)
(* would otherwise hold the first one back").                               *)
(***************************************************************************)
EndsBySignal ==
  /\ (sig.sent > 0) ~> (Ended \/ screen.stuck)
  /\ (sig.sent > 1) ~> Ended
  /\ (main.pc = "stopping") ~> (Ended \/ screen.stuck)

(***************************************************************************)
(* The reader's view of the stream: a nested Run's own lines left out.      *)
(***************************************************************************)
IsTop(l) == l.kind = "message" \/ l.nest = 0
Seen(l)  == [kind |-> l.kind, n |-> IF l.kind = "message" THEN l.n ELSE l.t, v |-> l.v]

TopOf(s) ==
  LET top[k \in 0..Len(s)] ==
        IF k = 0 THEN <<>>
        ELSE IF IsTop(s[k]) THEN Append(top[k - 1], Seen(s[k])) ELSE top[k - 1]
  IN top[Len(s)]

TopLines == TopOf(Lines)

Results == {k \in DOMAIN Lines : Lines[k].kind = "result" /\ Lines[k].nest = 0}
Idles   == {k \in DOMAIN Lines : Lines[k].kind = "idle" /\ Lines[k].nest = 0}

Phase ==
  IF \E k \in Results : Lines[k].v = "interrupted" THEN "interrupted"
  ELSE IF Idles # {} \/ \E k \in Results : Lines[k].v = "fail" THEN "failed"
  ELSE IF main.pc \in Begun /\ Cardinality(Results) < main.task THEN "inTask"
  ELSE IF Results = {} THEN "between" ELSE "closing"

Report == INSTANCE StepReport
            WITH starts <- ~framed, lines <- TopLines, sent <- main.said,
                 phase <- Phase

(***************************************************************************)
(* The stream shows what StepReport promises its reader; its messages are   *)
(* in the order they were sent, those a drain writes and those written once *)
(* the gate has closed ("a message that arrives later is written directly   *)
(* and after the drained ones").                                            *)
(***************************************************************************)
ReportKept == Report!Spec

(***************************************************************************)
(* "Once the owner has caught a signal it starts none of its tasks: a task  *)
(* started then could fork a child the terminal's signal never reached"     *)
(* (runNested).                                                             *)
(***************************************************************************)
NestedTasksBarred ==
  [][(main.pc # "nestBody" /\ main'.pc = "nestBody") => ~run.pending]_vars
=============================================================================
