--------------------------- MODULE StepRunnerProofs ---------------------------
(***************************************************************************)
(* What the step runner keeps to, for any number of tasks, nested Runs,     *)
(* messages and signals: a Run that was sent a signal never returns, no     *)
(* line is written under a live frame, every task that was begun has one    *)
(* result line, no message is lost or written twice, the result of a task   *)
(* of a nested Run stands ahead of its messages, and what is on the stream  *)
(* is what StepReport promises its reader.                                  *)
(***************************************************************************)
EXTENDS StepRunner, FiniteSetTheorems, WellFoundedInduction, TLAPS

MainFields == {"pc", "task", "nest", "verdict", "nested", "said"}
FrameFields == {"drawn", "stop", "ticker"}
SigFields == {"waiting", "sent", "quit", "watch", "intr"}
ScreenFields == {"lines", "torn", "stuck"}

(* The records have their fields.                                            *)
Formed ==
  /\ main = [f \in MainFields |-> main[f]]
  /\ run = [f \in {"state", "pending"} |-> run[f]]
  /\ gate = [f \in {"open", "queue"} |-> gate[f]]
  /\ frame = [f \in FrameFields |-> frame[f]]
  /\ drain = [d \in Drainers |-> [f \in {"at", "batch"} |-> drain[d][f]]]
  /\ sig = [f \in SigFields |-> sig[f]]
  /\ screen = [f \in ScreenFields |-> screen[f]]

-----------------------------------------------------------------------------
(* The inductive invariants.                                                 *)

(***************************************************************************)
(* The watcher leaves its wait with a signal or after the last one: none is *)
(* left when it is done, and none is delivered any more.                    *)
(***************************************************************************)
Watched ==
  /\ sig.waiting \in Nat /\ sig.sent \in Nat
  /\ sig.watch = "wait" => sig.sent = sig.waiting /\ sig.intr = "off"
  /\ sig.watch = "done" => sig.quit /\ sig.sent = 0 /\ sig.intr = "off"
  /\ end \in {"returned", "panicked"} => sig.watch = "done"

(***************************************************************************)
(* Who has the task: the owner while it starts and drains it, the interrupt *)
(* once it took over, and then for good.                                    *)
(***************************************************************************)
Starting == {"claimed", "opening", "drawing", "publishing"}
Working  == InBody \cup {"leaving"}
InTask   == Starting \cup Working \cup {"draining", "parked"}

Owned ==
  /\ main.pc \in MainPc /\ run.state \in States /\ main.verdict \in {"ok", "fail", "panic"}
  /\ main.pc \in Starting => run.state = "starting"
  /\ main.pc \in Working => run.state \in {"running", "interrupted"}
  /\ main.pc = "draining" => run.state = "draining"
  /\ main.pc = "parked" => run.state = "interrupted"
  /\ main.pc \notin InTask => run.state \in {"closed", "interrupted"}
  /\ drain["main"].at # "no" <=> main.pc = "draining"
  /\ drain["interrupt"].at # "no" => run.state = "interrupted"
  /\ sig.intr \in {"off", "start", "wait"} => drain["interrupt"].at = "no"
  /\ run.state = "interrupted" => sig.intr \in {"drain", "die"}

(***************************************************************************)
(* The frame is on the screen, or its ticker can still draw it, only on a   *)
(* terminal, inside a task, while the gate is open and no drain has come to *)
(* the result line.                                                         *)
(***************************************************************************)
OnScreen == frame.drawn \/ frame.ticker # "off"

Behind ==
  /\ OnScreen => /\ framed /\ gate.open
              /\ main.pc \in {"publishing", "draining", "parked"} \cup Working
              /\ \A d \in Drainers : drain[d].at \in {"no", "stop", "wait"}
  /\ main.pc = "drawing" => framed /\ gate.open

(***************************************************************************)
(* The gate is open from the start of a task to the end of the drain that   *)
(* finds its queue empty; a batch that was taken is written before the next *)
(* is, and nothing waits behind a closed gate.                              *)
(***************************************************************************)
Gated ==
  /\ ~gate.open => gate.queue = <<>>
  /\ \A d \in Drainers :
       /\ drain[d].at \in {"no", "stop", "wait", "result", "take", "write", "done"}
       /\ drain[d].at = "write" <=> drain[d].batch # <<>>
       /\ drain[d].at \in {"stop", "wait", "result", "take", "write"} => gate.open
       /\ drain[d].at = "done" => ~gate.open
  /\ run.state = "running" \/ main.pc \in {"drawing", "publishing"} => gate.open
  /\ main.pc \notin {"drawing", "publishing", "draining", "parked"} \cup Working => ~gate.open
  /\ sig.intr = "drain" => drain["interrupt"].at # "no"
  /\ drain["interrupt"].at # "no" => main.pc \in Working \cup {"parked"}
  /\ sig.intr = "die" => drain["interrupt"].at = "no" /\ ~gate.open
  /\ sig.intr \in {"drain", "die"} => run.state = "interrupted"
  /\ end \in {"returned", "panicked"} => main.pc = "stopped"
  /\ end = "first" => sig.intr = "die"

(***************************************************************************)
(* The stream, and what waits for it: the batch one of the two drains took, *)
(* and the queue.                                                           *)
(***************************************************************************)
Entry == {l \in [kind : Kinds, t : Nat, nest : Nat, n : Nat,
                 v : Verdicts \cup {"busy", "idle", "said"}] :
            l.kind = "message" => l.v = "said"}

Queued == gate.queue
Taken  == IF drain["main"].batch = <<>> THEN drain["interrupt"].batch
          ELSE drain["main"].batch

(* A place is never written: the queue has one at most, and a batch none.    *)
Streamed ==
  /\ Lines \in Seq(Entry) /\ Taken \in Seq(Entry) /\ Queued \in Seq(Entry)
  /\ \A j, k \in DOMAIN Queued : Blank(Queued[j]) /\ Blank(Queued[k]) => j = k
  /\ \A k \in DOMAIN Taken : ~Blank(Taken[k])
  /\ \A k \in DOMAIN Lines : ~Blank(Lines[k])

(* It is there while a task inside runs, and after one that panicked.        *)
Listed ==
  /\ Streamed
  /\ HasPlace => main.pc \in {"nestBody", "nestFill", "leaving", "draining", "parked"}
  /\ main.task \in Nat /\ main.nest \in Nat /\ main.nested \in Nat /\ main.said \in Nat

(* The messages of s are those from a + 1 to b, in the order they were sent. *)
Holds(s, a, b) ==
  /\ \A k \in DOMAIN s : s[k].kind = "message" => s[k].n \in (a + 1)..b
  /\ \A j, k \in DOMAIN s :
       j < k /\ s[j].kind = "message" /\ s[k].kind = "message" => s[j].n < s[k].n
  /\ \A m \in (a + 1)..b : \E k \in DOMAIN s : s[k].kind = "message" /\ s[k].n = m

(* Every message that was sent is on the stream, in the batch or queued, in  *)
(* this order.                                                               *)
Sent ==
  \E x, y \in Nat : /\ x <= y /\ y <= main.said
                    /\ Holds(Lines, 0, x) /\ Holds(Taken, x, y)
                    /\ Holds(Queued, y, main.said)

(***************************************************************************)
(* The line that ends a task: a result, or that it did not run.  Those of   *)
(* the tasks before the one the owner is at are written, and its own once   *)
(* its drain, or the interrupt's, has come past it.                         *)
(***************************************************************************)
Final(l, t) == l.t = t /\ l.nest = 0 /\ l.kind \in {"result", "idle"}
HasFinal(t) == \E k \in DOMAIN Lines : Final(Lines[k], t)

Past == {"take", "write", "done"}
Resulted ==
  \/ \E d \in Drainers : drain[d].at \in Past
  \/ /\ run.state = "interrupted" /\ main.pc \in Working \cup {"parked"}
     /\ drain["interrupt"].at = "no"
  \/ main.pc \in {"stopping", "stopped"} /\ main.verdict = "panic"

Ends ==
  /\ \A t \in 1..N : HasFinal(t) <=> t < main.task \/ (t = main.task /\ Resulted)
  /\ \A t \in 1..N : \A j, k \in DOMAIN Lines : Final(Lines[j], t) /\ Final(Lines[k], t) => j = k

(* Only messages of the task itself are queued beside the lines of those in it. *)
Queues ==
  /\ \A k \in DOMAIN Taken : Taken[k].nest = 0 => Taken[k].kind = "message"
  /\ \A k \in DOMAIN Queued : Queued[k].nest = 0 => Queued[k].kind = "message"

(* Where the owner is in the list of the tasks.                              *)
Along ==
  /\ main.nest > 0 <=> main.pc \in InBody \ {"body"}
  /\ main.pc \in InTask => main.task <= N
  /\ main.verdict = "panic" => main.pc \in {"leaving", "draining", "parked", "stopping", "stopped"}
  /\ main.pc \in {"stopping", "stopped"} /\ main.verdict # "panic" => main.task > N
  /\ end = "returned" => main.verdict # "panic"

Counted == Ends /\ Queues /\ Along

(***************************************************************************)
(* A message of a task inside and the result of the same: the first must    *)
(* not stand ahead of the second.                                           *)
(***************************************************************************)
Pair(a, b) == /\ a.kind = "message" /\ b.kind = "result"
              /\ a.t = b.t /\ a.nest = b.nest /\ b.nest > 0
Apart(s) == \A j, k \in DOMAIN s : j < k => ~Pair(s[j], s[k])
Before(r, s) == \A j \in DOMAIN r, k \in DOMAIN s : ~Pair(r[j], s[k])

(* The numbers of the tasks inside that have sent a message.                 *)
Inner(s) == {s[k].nest : k \in {j \in DOMAIN s : s[j].kind = "message"}}
Heard == Inner(Lines) \cup Inner(Taken) \cup Inner(Queued)
Latest == IF main.nest > 0 THEN main.nest ELSE M * main.nested

New == {"nestCheck", "nestLine", "nestReserve"}
Numbered ==
  /\ \A h \in Heard : h <= Latest
  /\ main.pc \in New => main.nest \notin Heard
  /\ main.nest <= M * main.nested

Ordered == /\ Apart(Lines) /\ Apart(Taken) /\ Apart(Queued)
           /\ Before(Lines, Taken) /\ Before(Lines, Queued) /\ Before(Taken, Queued)

(* While a task inside runs, its place is ahead of what it has said.         *)
Roomed ==
  main.pc \in {"nestBody", "nestFill"} =>
    \E p \in DOMAIN Queued :
      /\ Blank(Queued[p]) /\ main.nest \notin Inner(Lines) \cup Inner(Taken)
      /\ \A k \in DOMAIN Queued : k < p => main.nest # Queued[k].nest \/ Queued[k].kind # "message"

Placed ==
  /\ Numbered
  /\ run.state # "interrupted" => Ordered /\ Roomed /\ main.pc # "nestQueue"

RunInv == /\ Watched /\ Owned /\ Behind /\ NeverTorn
          /\ Gated /\ Listed /\ Sent /\ Counted /\ Placed
-----------------------------------------------------------------------------
(* Sequences of lines.                                                       *)

(* A line appended comes after the others, which stay where they are.        *)
LEMMA AppendIs ==
  ASSUME NEW s \in Seq(Entry), NEW e \in Entry
  PROVE  /\ Append(s, e) \in Seq(Entry) /\ DOMAIN Append(s, e) = DOMAIN s \cup {Len(s) + 1}
         /\ \A k \in DOMAIN s : Append(s, e)[k] = s[k] /\ k < Len(s) + 1 /\ k \in Nat
         /\ Append(s, e)[Len(s) + 1] = e /\ Len(s) + 1 \in Nat
<1>1. /\ Append(s, e) \in Seq(Entry) /\ Len(Append(s, e)) = Len(s) + 1 /\ Len(s) \in Nat
      /\ DOMAIN Append(s, e) = 1..(Len(s) + 1) /\ DOMAIN s = 1..Len(s)
  OBVIOUS
<1>2. \A k \in 1..Len(s) : Append(s, e)[k] = s[k]
  OBVIOUS
<1>3. Append(s, e)[Len(s) + 1] = e
  OBVIOUS
<1> QED BY <1>1, <1>2, <1>3

(* A sequence of no length is the empty one.                                 *)
LEMMA EmptyIs == ASSUME NEW s \in Seq(Entry) PROVE Len(s) = 0 <=> s = <<>>
OBVIOUS

(* The rest of a sequence.                                                   *)
LEMMA TailIs ==
  ASSUME NEW s \in Seq(Entry), s # <<>>
  PROVE  /\ Tail(s) \in Seq(Entry) /\ Head(s) = s[1] /\ 1 \in DOMAIN s /\ Head(s) \in Entry
         /\ \A k \in DOMAIN Tail(s) : k \in Nat /\ k + 1 \in DOMAIN s /\ Tail(s)[k] = s[k + 1]
         /\ \A k \in DOMAIN s : k \in Nat /\ (k = 1 \/ (k > 1 /\ k - 1 \in DOMAIN Tail(s)))
         /\ (Len(s) = 1) <=> (Tail(s) = <<>>)
<1>1. /\ Len(s) \in Nat /\ Len(s) >= 1 /\ Len(Tail(s)) = Len(s) - 1 /\ Tail(s) \in Seq(Entry)
      /\ DOMAIN Tail(s) = 1..(Len(s) - 1) /\ DOMAIN s = 1..Len(s)
  OBVIOUS
<1>2. \A k \in 1..(Len(s) - 1) : Tail(s)[k] = s[k + 1]
  OBVIOUS
<1>3. (Len(s) = 1) <=> (Tail(s) = <<>>)
  <2>1. (Len(Tail(s)) = 0) <=> (Tail(s) = <<>>)
    BY <1>1, EmptyIs
  <2> QED BY <1>1, <2>1
<1>4. Head(s) = s[1]
  OBVIOUS
<1> QED BY <1>1, <1>2, <1>3, <1>4

(* A sequence with one of its places removed.                                *)
LEMMA RemoveAtIs ==
  ASSUME NEW s \in Seq(Entry), NEW p \in DOMAIN s
  PROVE  /\ RemoveAt(s, p) \in Seq(Entry) /\ DOMAIN RemoveAt(s, p) = 1..(Len(s) - 1)
         /\ \A k \in 1..(Len(s) - 1) : RemoveAt(s, p)[k] = IF k < p THEN s[k] ELSE s[k + 1]
<1> DEFINE a == SubSeq(s, 1, p - 1)
<1> DEFINE b == SubSeq(s, p + 1, Len(s))
<1>1. p \in 1..Len(s) /\ Len(s) \in Nat
  OBVIOUS
<1>2. a \in Seq(Entry) /\ Len(a) = p - 1 /\ \A k \in 1..(p - 1) : a[k] = s[k]
  BY <1>1
<1>3. b \in Seq(Entry) /\ Len(b) = Len(s) - p /\ \A k \in 1..(Len(s) - p) : b[k] = s[p + k]
  BY <1>1
<1> HIDE DEF a, b
<1>4. /\ a \o b \in Seq(Entry) /\ Len(a \o b) = Len(s) - 1
      /\ \A k \in 1..(Len(s) - 1) : (a \o b)[k] = IF k <= p - 1 THEN a[k] ELSE b[k - (p - 1)]
  BY <1>1, <1>2, <1>3
<1>5. \A k \in 1..(Len(s) - 1) : (a \o b)[k] = IF k < p THEN s[k] ELSE s[k + 1]
  <2> TAKE k \in 1..(Len(s) - 1)
  <2>1. CASE k < p
    <3>1. k \in 1..(p - 1) /\ k <= p - 1
      BY <1>1, <2>1
    <3> QED BY <1>2, <1>4, <2>1, <3>1
  <2>2. CASE ~(k < p)
    <3>1. k - (p - 1) \in 1..(Len(s) - p) /\ ~(k <= p - 1) /\ p + (k - (p - 1)) = k + 1
      BY <1>1, <2>2
    <3> QED BY <1>3, <1>4, <2>2, <3>1
  <2> QED BY <2>1, <2>2
<1>6. DOMAIN (a \o b) = 1..(Len(s) - 1)
  BY <1>4
<1>7. RemoveAt(s, p) = a \o b
  BY DEF RemoveAt, a, b
<1> QED BY <1>4, <1>5, <1>6, <1>7

(***************************************************************************)
(* A batch is the queue without its place: what is in it stands in the      *)
(* order of the queue, and every other line of the queue is in it.          *)
(***************************************************************************)
Thins(f, r, s) ==
  /\ f \in [DOMAIN r -> DOMAIN s]
  /\ \A j, k \in DOMAIN r : j < k => f[j] < f[k]
  /\ \A k \in DOMAIN r : r[k] = s[f[k]]
  /\ \A i \in DOMAIN s : Blank(s[i]) \/ \E k \in DOMAIN r : f[k] = i

(* A batch has no place in it, and thins the queue out.                      *)
LEMMA BatchIs ==
  ASSUME Listed
  PROVE  /\ Batch \in Seq(Entry) /\ \A k \in DOMAIN Batch : ~Blank(Batch[k])
         /\ \E f : Thins(f, Batch, Queued)
<1>1. Queued \in Seq(Entry) /\ DOMAIN Queued = 1..Len(Queued) /\ Len(Queued) \in Nat
  BY DEF Listed, Streamed
<1>2. CASE ~HasPlace
  <2> DEFINE f == [k \in DOMAIN Queued |-> k]
  <2>1. Batch = Queued /\ \A k \in DOMAIN Queued : ~Blank(Queued[k])
    BY <1>2 DEF Batch, HasPlace, Queued
  <2>2. Thins(f, Batch, Queued)
    BY <2>1 DEF Thins
  <2> QED BY <1>1, <2>1, <2>2
<1>3. CASE HasPlace
  <2>1. Place \in DOMAIN Queued /\ Blank(Queued[Place])
    BY <1>3 DEF HasPlace, Place, Queued
  <2> DEFINE p == Place
  <2> HIDE DEF p
  <2>2. p \in DOMAIN Queued /\ Blank(Queued[p]) /\ Batch = RemoveAt(Queued, p)
    BY <1>3, <2>1 DEF Batch, Queued, p
  <2>3. \A k \in DOMAIN Queued : Blank(Queued[k]) => k = p
    BY <2>2 DEF Listed, Streamed
  <2> DEFINE f == [k \in 1..(Len(Queued) - 1) |-> IF k < p THEN k ELSE k + 1]
  <2>4. /\ Batch \in Seq(Entry) /\ DOMAIN Batch = 1..(Len(Queued) - 1)
        /\ \A k \in DOMAIN Batch : Batch[k] = Queued[f[k]]
    <3>1. /\ Batch \in Seq(Entry) /\ DOMAIN Batch = 1..(Len(Queued) - 1)
          /\ \A k \in 1..(Len(Queued) - 1) :
               Batch[k] = IF k < p THEN Queued[k] ELSE Queued[k + 1]
      BY <1>1, <2>2, RemoveAtIs
    <3> QED BY <3>1
  <2>5. f \in [DOMAIN Batch -> DOMAIN Queued] /\ \A k \in DOMAIN Batch : f[k] # p
    BY <1>1, <2>2, <2>4
  <2>6. \A j, k \in DOMAIN Batch : j < k => f[j] < f[k]
    BY <1>1, <2>2, <2>4
  <2>7. ASSUME NEW i \in DOMAIN Queued, ~Blank(Queued[i]) PROVE \E k \in DOMAIN Batch : f[k] = i
    <3>1. i # p
      BY <2>2, <2>7
    <3>2. CASE i < p
      <4>1. i \in DOMAIN Batch /\ f[i] = i
        BY <1>1, <2>2, <2>4, <3>2
      <4> QED BY <4>1
    <3>3. CASE i > p
      <4>1. i - 1 \in DOMAIN Batch /\ f[i - 1] = i
        BY <1>1, <2>2, <2>4, <3>3
      <4> QED BY <4>1
    <3> QED BY <1>1, <2>2, <3>1, <3>2, <3>3
  <2> HIDE DEF f
  <2>8. Thins(f, Batch, Queued)
    BY <2>4, <2>5, <2>6, <2>7 DEF Thins
  <2>9. \A k \in DOMAIN Batch : ~Blank(Batch[k])
    BY <2>3, <2>4, <2>5
  <2> QED BY <2>4, <2>8, <2>9
<1> QED BY <1>2, <1>3

-----------------------------------------------------------------------------
(* Every step.                                                               *)

(* A drain goes on to another place, and the other stays where it is.        *)
LEMMA DrainMoves ==
  ASSUME Formed, NEW d \in Drainers, NEW a, DrainTo(d, a)
  PROVE  /\ drain' = [e \in Drainers |-> [f \in {"at", "batch"} |-> drain'[e][f]]]
         /\ drain'[d].at = a /\ drain'[d].batch = drain[d].batch
         /\ \A e \in Drainers : e # d => drain'[e] = drain[e]
<1>1. drain' = [e \in Drainers |-> IF e = d THEN [drain[d] EXCEPT !.at = a] ELSE drain[e]]
  BY DEF Formed, DrainTo
<1>2. /\ \A e \in Drainers : drain[e] = [f \in {"at", "batch"} |-> drain[e][f]]
      /\ \A e \in Drainers : drain'[e] = IF e = d THEN [drain[d] EXCEPT !.at = a] ELSE drain[e]
  BY <1>1 DEF Formed
<1>3. drain'[d] = [drain[d] EXCEPT !.at = a]
  BY <1>2
<1>4. drain'[d] = [f \in {"at", "batch"} |-> drain'[d][f]]
      /\ drain'[d].at = a /\ drain'[d].batch = drain[d].batch
  BY <1>2, <1>3
<1>5. \A e \in Drainers : drain'[e] = [f \in {"at", "batch"} |-> drain'[e][f]]
  BY <1>2, <1>4
<1> QED BY <1>1, <1>2, <1>4, <1>5

(* Every step keeps the fields of the records.                              *)
LEMMA FormedStep ==
  ASSUME Formed, [Next]_vars
  PROVE  Formed'
<1> USE DEF Formed, MainFields, FrameFields, SigFields, ScreenFields, At, Pc, Others,
            DrainAt, BackInTask, Drainers
<1>1. CASE UNCHANGED vars
  BY <1>1 DEF vars
<1>2. CASE NoLog
  BY <1>2 DEF NoLog
<1>3. CASE Claim
  BY <1>3 DEF Claim
<1>4. CASE AllRun
  BY <1>4 DEF AllRun
<1>5. CASE WriteStart
  BY <1>5 DEF WriteStart, Write
<1>6. CASE List
  BY <1>6 DEF List, Write
<1>7. CASE OpenGate
  BY <1>7 DEF OpenGate
<1>8. CASE StartFrame
  BY <1>8 DEF StartFrame
<1>9. CASE Publish
  BY <1>9 DEF Publish
<1>10. CASE StopWatching
  BY <1>10 DEF StopWatching
<1>11. CASE Return
  BY <1>11 DEF Return
<1>12. CASE Say
  BY <1>12 DEF Say, Queue, Write
<1>13. CASE TaskEnds
  <2>1. main' = [f \in MainFields |-> main'[f]]
    BY <1>13 DEF TaskEnds
  <2> QED BY <1>13, <2>1 DEF TaskEnds
<1>14. CASE CallRun
  BY <1>14 DEF CallRun
<1>15. CASE NestCheck
  BY <1>15 DEF NestCheck, BackInTask
<1>16. CASE NestLine
  BY <1>16 DEF NestLine, Queue, Write
<1>17. CASE NestRest
  BY <1>17 DEF NestRest, LastNested, Queue, Write
<1>18. CASE NestQueue
  BY <1>18 DEF NestQueue, NestOn, LastNested, Queue, Write
<1>19. CASE NestReserve
  BY <1>19 DEF NestReserve
<1>20. CASE NestEnds
  <2>1. main' = [f \in MainFields |-> main'[f]]
    BY <1>20 DEF NestEnds
  <2> QED BY <1>20, <2>1 DEF NestEnds
<1>21. CASE NestFill
  BY <1>21 DEF NestFill, NestOn, LastNested
<1>22. CASE Leave
  BY <1>22 DEF Leave
<1>23. CASE Settle
  <2> DEFINE t == IF main.verdict = "panic" THEN main.task ELSE main.task + 1
  <2> DEFINE pc == CASE main.verdict = "ok"    -> "next"
                     [] main.verdict = "fail"  -> "listing"
                     [] main.verdict = "panic" -> "stopping"
  <2>3. main' = [main EXCEPT !.task = t, !.pc = pc]
    BY <1>23 DEF Settle
  <2> HIDE DEF t, pc
  <2>1. main' = [f \in MainFields |-> main'[f]]
    BY <2>3
  <2>2. run' = [f \in {"state", "pending"} |-> run'[f]]
    BY <1>23 DEF Settle
  <2> QED BY <1>23, <2>1, <2>2, DrainMoves DEF Settle
<1>24. ASSUME NEW d \in Drainers, StopFrame(d) PROVE Formed'
  BY <1>24, DrainMoves DEF StopFrame
<1>25. ASSUME NEW d \in Drainers, Erase(d) PROVE Formed'
  BY <1>25, DrainMoves DEF Erase
<1>26. ASSUME NEW d \in Drainers, WriteResult(d) PROVE Formed'
  BY <1>26, DrainMoves DEF WriteResult, Write
<1>27. ASSUME NEW d \in Drainers, Take(d) PROVE Formed'
  BY <1>27 DEF Take
<1>28. ASSUME NEW d \in Drainers, WriteTaken(d) PROVE Formed'
  BY <1>28 DEF WriteTaken, Write
<1>29. CASE Tick
  BY <1>29 DEF Tick
<1>30. CASE Redraw
  BY <1>30 DEF Redraw
<1>31. CASE TickerStops
  BY <1>31 DEF TickerStops
<1>32. CASE Deliver
  BY <1>32 DEF Deliver
<1>33. CASE WatchSees
  BY <1>33 DEF WatchSees
<1>34. CASE WatchQuits
  BY <1>34 DEF WatchQuits
<1>35. CASE WatchSecond
  BY <1>35 DEF WatchSecond
<1>36. CASE DieOfSecond
  BY <1>36 DEF DieOfSecond
<1>37. CASE Interrupt
  BY <1>37, DrainMoves DEF Interrupt, TakeOver
<1>38. CASE Wake
  BY <1>38, DrainMoves DEF Wake, TakeOver
<1>39. CASE InterruptDrained
  BY <1>39, DrainMoves DEF InterruptDrained
<1>40. CASE DieOfFirst
  BY <1>40 DEF DieOfFirst
<1>41. CASE Stall
  BY <1>41 DEF Stall
<1> QED BY <1>1, <1>2, <1>3, <1>4, <1>5, <1>6, <1>7, <1>8, <1>9, <1>10, <1>11, <1>12,
           <1>13, <1>14, <1>15, <1>16, <1>17, <1>18, <1>19, <1>20, <1>21, <1>22, <1>23,
           <1>24, <1>25, <1>26, <1>27, <1>28, <1>29, <1>30, <1>31, <1>32, <1>33, <1>34,
           <1>35, <1>36, <1>37, <1>38, <1>39, <1>40, <1>41
       DEF Next, Owner, Between, Body, Drain, Watcher, Interrupter, Drainers

(* Every step keeps account of the signals the watcher has not seen.        *)
LEMMA WatchedStep ==
  ASSUME Formed, Watched, Owned, [Next]_vars
  PROVE  Watched'
<1> USE DEF Formed, SigFields, Watched, Owned, At, Pc, Others, DrainAt, BackInTask, Drainers
<1>1. CASE UNCHANGED vars
  BY <1>1 DEF vars
<1>2. CASE NoLog \/ Claim \/ AllRun
  BY <1>2 DEF NoLog, Claim, AllRun
<1>3. CASE WriteStart \/ List
  BY <1>3 DEF WriteStart, Write, List
<1>4. CASE OpenGate \/ StartFrame \/ Publish
  BY <1>4 DEF OpenGate, StartFrame, Publish
<1>5. CASE StopWatching \/ Return
  BY <1>5 DEF StopWatching, Return
<1>6. CASE Say
  BY <1>6 DEF Say, Queue, Write
<1>7. CASE TaskEnds \/ CallRun \/ NestCheck
  BY <1>7 DEF TaskEnds, CallRun, NestCheck, BackInTask
<1>8. CASE NestLine \/ NestRest \/ NestQueue
  BY <1>8 DEF NestLine, Queue, Write, NestRest, LastNested, NestQueue, NestOn
<1>9. CASE NestReserve \/ NestEnds \/ NestFill
  BY <1>9 DEF NestReserve, NestEnds, NestFill, NestOn, LastNested
<1>10. CASE Leave \/ Settle
  BY <1>10, DrainMoves DEF Leave, Settle
<1>11. ASSUME NEW d \in Drainers, StopFrame(d) \/ Erase(d) PROVE Watched'
  BY <1>11, DrainMoves DEF StopFrame, Erase
<1>12. ASSUME NEW d \in Drainers, WriteResult(d) PROVE Watched'
  BY <1>12, DrainMoves DEF WriteResult, Write
<1>13. ASSUME NEW d \in Drainers, Take(d) PROVE Watched'
  BY <1>13 DEF Take
<1>14. ASSUME NEW d \in Drainers, WriteTaken(d) PROVE Watched'
  BY <1>14 DEF WriteTaken, Write
<1>15. CASE Tick \/ Redraw \/ TickerStops
  BY <1>15 DEF Tick, Redraw, TickerStops
<1>16. CASE Deliver
  BY <1>16 DEF Deliver
<1>17. CASE WatchSees
  BY <1>17 DEF WatchSees
<1>18. CASE WatchQuits
  BY <1>18 DEF WatchQuits
<1>19. CASE WatchSecond
  BY <1>19 DEF WatchSecond
<1>20. CASE DieOfSecond
  BY <1>20 DEF DieOfSecond
<1>21. CASE Interrupt \/ Wake
  BY <1>21, DrainMoves DEF Interrupt, TakeOver, Wake
<1>22. CASE InterruptDrained
  <2>1. sig' = [sig EXCEPT !.intr = "die"] /\ end' = end /\ drain["interrupt"].at = "done"
    BY <1>22 DEF InterruptDrained
  <2> QED BY <2>1
<1>23. CASE DieOfFirst
  BY <1>23 DEF DieOfFirst
<1>24. CASE Stall
  BY <1>24 DEF Stall
<1> QED BY <1>1, <1>2, <1>3, <1>4, <1>5, <1>6, <1>7, <1>8, <1>9, <1>10, <1>11, <1>12,
           <1>13, <1>14, <1>15, <1>16, <1>17, <1>18, <1>19, <1>20, <1>21, <1>22, <1>23,
           <1>24
       DEF Next, Owner, Between, Body, Drain, Watcher, Interrupter, Drainers

(* Every step keeps the task with the one that has it.                      *)
LEMMA OwnedStep ==
  ASSUME Formed, Watched, Owned, [Next]_vars
  PROVE  Owned'
<1> USE DEF Formed, MainFields, SigFields, Owned, Watched, Starting, Working, InTask,
            InBody, Begun, MainPc, States, DrainFrom, At, Pc, Others, DrainAt,
            BackInTask, Drainers
<1>1. CASE UNCHANGED vars
  BY <1>1 DEF vars
<1>2. CASE NoLog \/ Claim \/ AllRun
  BY <1>2 DEF NoLog, Claim, AllRun
<1>3. CASE WriteStart \/ List
  BY <1>3 DEF WriteStart, Write, List
<1>4. CASE OpenGate \/ StartFrame \/ Publish
  BY <1>4 DEF OpenGate, StartFrame, Publish
<1>5. CASE StopWatching \/ Return
  BY <1>5 DEF StopWatching, Return
<1>6. CASE Say
  BY <1>6 DEF Say, Queue, Write
<1>7. CASE TaskEnds \/ CallRun \/ NestCheck
  BY <1>7 DEF TaskEnds, CallRun, NestCheck, BackInTask
<1>8. CASE NestLine \/ NestRest \/ NestQueue
  BY <1>8 DEF NestLine, Queue, Write, NestRest, LastNested, NestQueue, NestOn
<1>9. CASE NestReserve \/ NestEnds \/ NestFill
  BY <1>9 DEF NestReserve, NestEnds, NestFill, NestOn, LastNested
<1>10. CASE Leave
  BY <1>10 DEF Leave
<1>11. CASE Settle
  <2>1. DrainTo("main", "no") /\ main.pc = "draining" /\ run.state = "draining"
    BY <1>11 DEF Settle
  <2>2. drain'["main"].at = "no" /\ drain'["interrupt"] = drain["interrupt"]
    BY <2>1, DrainMoves
  <2>3. main'.pc \in {"next", "listing", "stopping"} /\ main'.verdict = main.verdict
    BY <1>11 DEF Settle
  <2>4. run'.state = "closed" /\ sig' = sig
    BY <1>11 DEF Settle
  <2> QED BY <2>1, <2>2, <2>3, <2>4
<1>12. ASSUME NEW d \in Drainers, StopFrame(d) \/ Erase(d) PROVE Owned'
  BY <1>12, DrainMoves DEF StopFrame, Erase
<1>13. ASSUME NEW d \in Drainers, WriteResult(d) PROVE Owned'
  BY <1>13, DrainMoves DEF WriteResult, Write
<1>14. ASSUME NEW d \in Drainers, Take(d) PROVE Owned'
  BY <1>14 DEF Take
<1>15. ASSUME NEW d \in Drainers, WriteTaken(d) PROVE Owned'
  BY <1>15 DEF WriteTaken, Write
<1>16. CASE Tick \/ Redraw \/ TickerStops
  BY <1>16 DEF Tick, Redraw, TickerStops
<1>17. CASE Deliver \/ WatchSees \/ WatchQuits \/ WatchSecond \/ DieOfSecond
  BY <1>17 DEF Deliver, WatchSees, WatchQuits, WatchSecond, DieOfSecond
<1>18. CASE Interrupt \/ Wake
  BY <1>18, DrainMoves DEF Interrupt, TakeOver, Wake
<1>19. CASE InterruptDrained \/ DieOfFirst \/ Stall
  BY <1>19, DrainMoves DEF InterruptDrained, DieOfFirst, Stall
<1> QED BY <1>1, <1>2, <1>3, <1>4, <1>5, <1>6, <1>7, <1>8, <1>9, <1>10, <1>11, <1>12,
           <1>13, <1>14, <1>15, <1>16, <1>17, <1>18, <1>19
       DEF Next, Owner, Between, Body, Drain, Watcher, Interrupter, Drainers

(* Every step keeps the frame behind the gate.                              *)
LEMMA BehindStep ==
  ASSUME Formed, Watched, Owned, Behind, [Next]_vars
  PROVE  Behind'
<1> USE DEF Formed, MainFields, FrameFields, Behind, OnScreen, Owned, Starting, Working,
            InTask, InBody, DrainFrom, At, Pc, Others, DrainAt, BackInTask, Drainers
<1>1. CASE UNCHANGED vars
  BY <1>1 DEF vars
<1>2. CASE NoLog \/ Claim \/ AllRun
  BY <1>2 DEF NoLog, Claim, AllRun
<1>3. CASE WriteStart \/ List
  BY <1>3 DEF WriteStart, Write, List
<1>4. CASE OpenGate
  BY <1>4 DEF OpenGate
<1>5. CASE StartFrame
  <2>1. main.pc = "drawing" /\ main'.pc = "publishing"
    BY <1>5 DEF StartFrame
  <2>2. drain["main"].at = "no" /\ drain["interrupt"].at = "no"
    BY <2>1
  <2>3. framed /\ gate.open /\ UNCHANGED <<framed, gate, drain>>
    BY <1>5, <2>1 DEF StartFrame
  <2> QED BY <2>1, <2>2, <2>3
<1>6. CASE Publish
  BY <1>6 DEF Publish
<1>7. CASE StopWatching \/ Return
  BY <1>7 DEF StopWatching, Return
<1>8. CASE Say
  BY <1>8 DEF Say, Queue, Write
<1>9. CASE TaskEnds \/ CallRun \/ NestCheck
  BY <1>9 DEF TaskEnds, CallRun, NestCheck, BackInTask
<1>10. CASE NestLine \/ NestRest \/ NestQueue
  BY <1>10 DEF NestLine, Queue, Write, NestRest, LastNested, NestQueue, NestOn
<1>11. CASE NestReserve \/ NestEnds \/ NestFill
  BY <1>11 DEF NestReserve, NestEnds, NestFill, NestOn, LastNested
<1>12. CASE Leave
  BY <1>12 DEF Leave
<1>13. CASE Settle
  BY <1>13, DrainMoves DEF Settle
<1>14. ASSUME NEW d \in Drainers, StopFrame(d) \/ Erase(d) PROVE Behind'
  BY <1>14, DrainMoves DEF StopFrame, Erase
<1>15. ASSUME NEW d \in Drainers, WriteResult(d) PROVE Behind'
  BY <1>15, DrainMoves DEF WriteResult, Write
<1>16. ASSUME NEW d \in Drainers, Take(d) PROVE Behind'
  BY <1>16 DEF Take
<1>17. ASSUME NEW d \in Drainers, WriteTaken(d) PROVE Behind'
  BY <1>17 DEF WriteTaken, Write
<1>18. CASE Tick \/ Redraw \/ TickerStops
  BY <1>18 DEF Tick, Redraw, TickerStops
<1>19. CASE Deliver \/ WatchSees \/ WatchQuits \/ WatchSecond \/ DieOfSecond
  BY <1>19 DEF Deliver, WatchSees, WatchQuits, WatchSecond, DieOfSecond
<1>20. CASE Interrupt \/ Wake
  BY <1>20, DrainMoves DEF Interrupt, TakeOver, Wake
<1>21. CASE InterruptDrained \/ DieOfFirst \/ Stall
  BY <1>21, DrainMoves DEF InterruptDrained, DieOfFirst, Stall
<1> QED BY <1>1, <1>2, <1>3, <1>4, <1>5, <1>6, <1>7, <1>8, <1>9, <1>10, <1>11, <1>12,
           <1>13, <1>14, <1>15, <1>16, <1>17, <1>18, <1>19, <1>20, <1>21
       DEF Next, Owner, Between, Body, Drain, Watcher, Interrupter, Drainers

(* Every step keeps the lines from being torn.                              *)
LEMMA TornStep ==
  ASSUME Formed, Owned, Behind, NeverTorn, [Next]_vars
  PROVE  NeverTorn'
<1> USE DEF Formed, ScreenFields, Behind, OnScreen, NeverTorn, Owned, Starting, Working,
            InTask, InBody, At, Pc, Others, DrainAt, BackInTask, Drainers
<1>1. CASE UNCHANGED vars
  BY <1>1 DEF vars
<1>2. CASE NoLog \/ Claim \/ AllRun
  BY <1>2 DEF NoLog, Claim, AllRun
<1>3. CASE WriteStart \/ List
  BY <1>3 DEF WriteStart, Write, List
<1>4. CASE OpenGate \/ StartFrame \/ Publish
  BY <1>4 DEF OpenGate, StartFrame, Publish
<1>5. CASE StopWatching \/ Return
  BY <1>5 DEF StopWatching, Return
<1>6. CASE Say
  BY <1>6 DEF Say, Queue, Write
<1>7. CASE TaskEnds \/ CallRun \/ NestCheck
  BY <1>7 DEF TaskEnds, CallRun, NestCheck, BackInTask
<1>8. CASE NestLine \/ NestRest \/ NestQueue
  BY <1>8 DEF NestLine, Queue, Write, NestRest, LastNested, NestQueue, NestOn
<1>9. CASE NestReserve \/ NestEnds \/ NestFill
  BY <1>9 DEF NestReserve, NestEnds, NestFill, NestOn, LastNested
<1>10. CASE Leave \/ Settle
  BY <1>10, DrainMoves DEF Leave, Settle
<1>11. ASSUME NEW d \in Drainers, StopFrame(d) \/ Erase(d) PROVE NeverTorn'
  BY <1>11, DrainMoves DEF StopFrame, Erase
<1>12. ASSUME NEW d \in Drainers, WriteResult(d) PROVE NeverTorn'
  BY <1>12, DrainMoves DEF WriteResult, Write
<1>13. ASSUME NEW d \in Drainers, Take(d) PROVE NeverTorn'
  BY <1>13 DEF Take
<1>14. ASSUME NEW d \in Drainers, WriteTaken(d) PROVE NeverTorn'
  BY <1>14 DEF WriteTaken, Write
<1>15. CASE Tick \/ Redraw \/ TickerStops
  BY <1>15 DEF Tick, Redraw, TickerStops
<1>16. CASE Deliver \/ WatchSees \/ WatchQuits \/ WatchSecond \/ DieOfSecond
  BY <1>16 DEF Deliver, WatchSees, WatchQuits, WatchSecond, DieOfSecond
<1>17. CASE Interrupt \/ Wake
  BY <1>17, DrainMoves DEF Interrupt, TakeOver, Wake
<1>18. CASE InterruptDrained \/ DieOfFirst \/ Stall
  BY <1>18, DrainMoves DEF InterruptDrained, DieOfFirst, Stall
<1> QED BY <1>1, <1>2, <1>3, <1>4, <1>5, <1>6, <1>7, <1>8, <1>9, <1>10, <1>11, <1>12,
           <1>13, <1>14, <1>15, <1>16, <1>17, <1>18
       DEF Next, Owner, Between, Body, Drain, Watcher, Interrupter, Drainers

(***************************************************************************)
(* One drain is under way at most, and what it took is the batch.           *)
(***************************************************************************)
LEMMA TakenIs ==
  ASSUME Owned, Gated
  PROVE  /\ \A d \in Drainers : drain[d].at # "no" => Taken = drain[d].batch
         /\ \A d \in Drainers : drain[d].at # "write" => drain[d].batch = <<>>
         /\ (\A d \in Drainers : drain[d].at # "write") => Taken = <<>>
         /\ ~gate.open => Taken = <<>> /\ Queued = <<>>
         /\ \A d, e \in Drainers : drain[d].at # "no" /\ drain[e].at # "no" => d = e
<1>1. \A d, e \in Drainers : drain[d].at # "no" /\ drain[e].at # "no" => d = e
  BY DEF Owned, Drainers
<1>2. \A d \in Drainers : drain[d].at # "write" => drain[d].batch = <<>>
  BY DEF Gated
<1>3. \A d \in Drainers : drain[d].at # "no" => Taken = drain[d].batch
  BY <1>1, <1>2 DEF Taken, Drainers
<1>4. (\A d \in Drainers : drain[d].at # "write") => Taken = <<>>
  BY <1>2 DEF Taken, Drainers
<1>5. ~gate.open => \A d \in Drainers : drain[d].at # "write"
  BY DEF Gated
<1> QED BY <1>1, <1>2, <1>3, <1>4, <1>5 DEF Gated, Queued

(* What a step does to the stream and to what waits for it.                  *)
Same        == Lines' = Lines /\ Taken' = Taken /\ Queued' = Queued
Writes(e)   == e \in Entry /\ Lines' = Append(Lines, e) /\ Taken' = Taken /\ Queued' = Queued
Adds(e)     == \/ /\ gate.open /\ e \in Entry /\ Queued' = Append(Queued, e)
                  /\ Lines' = Lines /\ Taken' = Taken
               \/ ~gate.open /\ Taken = <<>> /\ Queued = <<>> /\ Writes(e)
Fills(e)    == /\ e \in Entry /\ HasPlace /\ Lines' = Lines /\ Taken' = Taken
               /\ Queued' = [k \in DOMAIN Queued |-> IF Blank(Queued[k]) THEN e ELSE Queued[k]]
Takes       == /\ Taken = <<>> /\ Taken' = Batch /\ Queued' = <<>> /\ Lines' = Lines
WritesTaken == /\ Taken # <<>> /\ Lines' = Append(Lines, Head(Taken)) /\ Taken' = Tail(Taken)
               /\ Queued' = Queued

(* The steps that leave the stream, the batch and the queue alone.           *)
Quiet ==
  \/ NoLog \/ Claim \/ OpenGate \/ StartFrame \/ Publish \/ AllRun \/ StopWatching \/ Return
  \/ TaskEnds \/ CallRun \/ NestCheck \/ NestEnds \/ Leave \/ Settle
  \/ (\E d \in Drainers : StopFrame(d) \/ Erase(d)) \/ Tick \/ Redraw \/ TickerStops
  \/ Deliver \/ Watcher \/ Interrupt \/ Wake \/ InterruptDrained \/ DieOfFirst \/ Stall
  \/ UNCHANGED vars

(* They do, and no message is sent by them.                                  *)
LEMMA QuietIsSame ==
  ASSUME Formed, Owned, Gated, Quiet
  PROVE  Same /\ main'.said = main.said
<1> USE DEF Formed, Same, Queued, Others, Pc, At, DrainAt
<1>1. ASSUME drain' = drain PROVE Taken' = Taken
  BY <1>1 DEF Taken
<1>2. ASSUME NEW d \in Drainers, NEW a, DrainTo(d, a) PROVE Taken' = Taken
  <2>1. \A e \in Drainers : drain'[e].batch = drain[e].batch
    BY <1>2, DrainMoves
  <2> QED BY <2>1 DEF Taken, Drainers
<1>3. CASE NoLog \/ Claim \/ AllRun
  BY <1>1, <1>3 DEF NoLog, Claim, AllRun, Lines, MainFields
<1>4. CASE OpenGate \/ StartFrame \/ Publish
  BY <1>1, <1>4 DEF OpenGate, StartFrame, Publish, Lines, MainFields
<1>5. CASE StopWatching \/ Return
  BY <1>1, <1>5 DEF StopWatching, Return, Lines, MainFields, Gated, Working, InBody
<1>6. CASE TaskEnds \/ CallRun \/ NestCheck \/ NestEnds
  BY <1>1, <1>6 DEF TaskEnds, CallRun, NestCheck, NestEnds, BackInTask, Lines, MainFields
<1>7. CASE Leave
  <2>1. drain' = drain \/ DrainTo("main", DrainFrom)
    BY <1>7 DEF Leave, DrainTo
  <2>2. Taken' = Taken
    BY <1>1, <1>2, <2>1 DEF Drainers
  <2> QED BY <1>7, <2>2 DEF Leave, Lines, MainFields
<1>8. CASE Settle
  <2>1. Taken' = Taken
    BY <1>2, <1>8 DEF Settle, Drainers
  <2> QED BY <1>8, <2>1 DEF Settle, Lines, MainFields
<1>9. CASE \E d \in Drainers : StopFrame(d) \/ Erase(d)
  BY <1>2, <1>9 DEF StopFrame, Erase, Lines
<1>10. CASE Tick \/ Redraw \/ TickerStops \/ DieOfFirst
  BY <1>1, <1>10 DEF Tick, Redraw, TickerStops, DieOfFirst, Lines
<1>11. CASE Deliver \/ Watcher
  BY <1>1, <1>11 DEF Deliver, Watcher, WatchSees, WatchQuits, WatchSecond, DieOfSecond, Lines
<1>12. CASE Interrupt \/ Wake
  <2>1. drain' = drain \/ DrainTo("interrupt", DrainFrom)
    BY <1>12 DEF Interrupt, Wake, TakeOver
  <2>2. Taken' = Taken
    BY <1>1, <1>2, <2>1 DEF Drainers
  <2> QED BY <1>12, <2>2 DEF Interrupt, Wake, TakeOver, Lines
<1>13. CASE InterruptDrained
  <2>1. Taken' = Taken
    BY <1>2, <1>13 DEF InterruptDrained, Drainers
  <2> QED BY <1>13, <2>1 DEF InterruptDrained, Lines
<1>14. CASE Stall \/ UNCHANGED vars
  BY <1>1, <1>14 DEF Stall, vars, Lines, ScreenFields
<1> QED BY <1>3, <1>4, <1>5, <1>6, <1>7, <1>8, <1>9, <1>10, <1>11, <1>12, <1>13, <1>14 DEF Quiet

(* A line of the task is queued while the gate is open, and else written.    *)
LEMMA QueueAdds ==
  ASSUME Formed, Owned, Gated, NEW e \in Entry, Queue(e), UNCHANGED drain
  PROVE  Adds(e)
<1>1. Taken' = Taken
  BY DEF Taken
<1>2. CASE gate.open
  BY <1>1, <1>2 DEF Queue, Adds, Queued, Lines, Formed
<1>3. CASE ~gate.open
  <2>1. Writes(e)
    BY <1>1, <1>3 DEF Queue, Write, Writes, Queued, Lines, Formed, ScreenFields
  <2> QED BY <1>3, <2>1, TakenIs DEF Adds
<1> QED BY <1>2, <1>3

(* The lines a task makes are lines.                                         *)
LEMMA StepIsEntry ==
  ASSUME NEW k \in Kinds \ {"message"}, NEW t \in Nat, NEW j \in Nat,
         NEW v \in Verdicts \cup {"busy", "idle", "said"}
  PROVE  /\ Step(k, t, j, v) \in Entry
         /\ Step(k, t, j, v).kind = k /\ Step(k, t, j, v).t = t /\ Step(k, t, j, v).nest = j
BY DEF Step, Entry

(* So is a message.                                                          *)
LEMMA SaidIsEntry ==
  ASSUME Listed, NEW n \in Nat
  PROVE  /\ Said(n) \in Entry /\ Said(n).kind = "message" /\ Said(n).n = n
         /\ Said(n).t = main.task /\ Said(n).nest = main.nest
BY DEF Said, Entry, Listed, Kinds

(* A message is added, and counted.                                          *)
LEMMA SayAdds ==
  ASSUME Formed, Owned, Gated, Listed, Say
  PROVE  Adds(Said(main.said + 1)) /\ main' = [main EXCEPT !.said = @ + 1]
<1>1. main.said + 1 \in Nat
  BY DEF Listed
<1> QED BY <1>1, SaidIsEntry, QueueAdds DEF Say, Others

(* A line of a task inside is added, with the number of the task.            *)
Inside(e) == /\ e \in Entry /\ e.kind \in {"start", "result", "idle"} /\ e.nest = main.nest
             /\ main'.said = main.said

(* Each of the three steps that queue one adds it.                           *)
LEMMA NestAdds ==
  ASSUME Formed, Owned, Gated, Listed, NestLine \/ NestQueue \/ NestRest
  PROVE  \E e : Inside(e) /\ Adds(e) /\ (e.kind = "result" => NestQueue)
<1>1. main.task \in Nat /\ main.nest \in Nat /\ main.verdict \in Verdicts
  BY DEF Listed, Owned, Verdicts
<1>2. CASE NestLine
  <2> DEFINE e == Step("start", main.task, main.nest, "busy")
  <2>1. e \in Entry /\ e.kind = "start" /\ e.nest = main.nest
    BY <1>1, StepIsEntry DEF Kinds
  <2>2. Queue(e) /\ UNCHANGED drain /\ main'.said = main.said
    BY <1>2 DEF NestLine, Others, Pc, Formed, MainFields
  <2> HIDE DEF e
  <2>3. Adds(e)
    BY <2>1, <2>2, QueueAdds
  <2> QED BY <2>1, <2>2, <2>3 DEF Inside
<1>3. CASE NestQueue
  <2> DEFINE e == NestResult
  <2>1. e \in Entry /\ e.kind = "result" /\ e.nest = main.nest
    BY <1>1, StepIsEntry DEF Kinds, NestResult
  <2>2. Queue(e) /\ UNCHANGED drain /\ main'.said = main.said
    BY <1>3 DEF NestQueue, NestOn, Others, Formed, MainFields
  <2> HIDE DEF e
  <2>3. Adds(e)
    BY <2>1, <2>2, QueueAdds
  <2> QED BY <1>3, <2>1, <2>2, <2>3 DEF Inside
<1>4. CASE NestRest
  <2> DEFINE e == Step("idle", main.task, main.nest, "idle")
  <2>1. e \in Entry /\ e.kind = "idle" /\ e.nest = main.nest
    BY <1>1, StepIsEntry DEF Kinds
  <2>2. Queue(e) /\ UNCHANGED drain /\ main'.said = main.said
    BY <1>4 DEF NestRest, Others, Formed, MainFields
  <2> HIDE DEF e
  <2>3. Adds(e)
    BY <2>1, <2>2, QueueAdds
  <2> QED BY <2>1, <2>2, <2>3 DEF Inside
<1> QED BY <1>2, <1>3, <1>4

(* The place for the result of a task inside, when anything queues.          *)
LEMMA ReserveAdds ==
  ASSUME Formed, Listed, NestReserve
  PROVE  /\ main.pc = "nestReserve" /\ main' = [main EXCEPT !.pc = "nestBody"]
         /\ \/ ~gate.open /\ Same
            \/ \E e : /\ e \in Entry /\ Blank(e) /\ e.nest = main.nest /\ gate.open
                      /\ Queued' = Append(Queued, e) /\ Lines' = Lines /\ Taken' = Taken
<1>1. main.task \in Nat /\ main.nest \in Nat
  BY DEF Listed
<1> DEFINE e == Step("place", main.task, main.nest, "busy")
<1>2. e \in Entry /\ Blank(e) /\ e.nest = main.nest
  BY <1>1, StepIsEntry DEF Kinds, Blank
<1>3. UNCHANGED <<screen, drain>> /\ main.pc = "nestReserve" /\ Pc("nestBody")
  BY DEF NestReserve, Others, At
<1>4. gate' = IF gate.open THEN [gate EXCEPT !.queue = Append(@, e)] ELSE gate
  BY DEF NestReserve
<1> HIDE DEF e
<1> QED BY <1>2, <1>3, <1>4 DEF Same, Queued, Lines, Taken, Formed, Pc

(* The result of a task inside fills its place, if it is still there.        *)
LEMMA FillMoves ==
  ASSUME Formed, Owned, Listed, NestFill
  PROVE  /\ main.pc = "nestFill"
         /\ \/ ~HasPlace /\ Same /\ main' = [main EXCEPT !.pc = "nestQueue"]
            \/ \E e : Fills(e) /\ Inside(e) /\ e.kind = "result" /\ NestOn
<1>1. main.task \in Nat /\ main.nest \in Nat /\ main.verdict \in Verdicts
  BY DEF Listed, Owned, Verdicts
<1> DEFINE e == NestResult
<1>2. e \in Entry /\ e.kind = "result" /\ e.nest = main.nest
  BY <1>1, StepIsEntry DEF Kinds, NestResult
<1>3. UNCHANGED <<screen, drain>> /\ main.pc = "nestFill"
  BY DEF NestFill, Others, At
<1>4. CASE ~HasPlace
  BY <1>3, <1>4 DEF NestFill, Pc, Same, Queued, Lines, Taken
<1>5. CASE HasPlace
  <2>1. /\ gate' = [gate EXCEPT !.queue = [k \in DOMAIN @ |-> IF Blank(@[k]) THEN e ELSE @[k]]]
        /\ NestOn
    BY <1>5 DEF NestFill
  <2>2. main'.said = main.said
    BY <2>1 DEF NestOn, Formed, MainFields
  <2> HIDE DEF e
  <2>3. Queued' = [k \in DOMAIN Queued |-> IF Blank(Queued[k]) THEN e ELSE Queued[k]]
    BY <2>1 DEF Queued, Formed
  <2> QED BY <1>2, <1>3, <1>5, <2>1, <2>2, <2>3 DEF Fills, Inside, Lines, Taken
<1> QED BY <1>4, <1>5

(* The lines written past the queue: of the task itself, or of one unrun.    *)
Own(e, k) == Writes(e) /\ main'.said = main.said /\ e.t = main.task /\ e.nest = 0 /\ e.kind = k

(* Each of the three steps that write one writes it.                         *)
LEMMA OwnWrites ==
  ASSUME Formed, Owned, Gated, Listed
  PROVE  /\ WriteStart => \E e : Own(e, "start")
         /\ List /\ main.task <= N => \E e : Own(e, "idle")
         /\ \A d \in Drainers : WriteResult(d) => \E e : Own(e, "result")
<1>1. main.task \in Nat /\ 0 \in Nat /\ \A d \in Drainers : Verdict(d) \in Verdicts
  BY DEF Listed, Verdict, Owned, Verdicts
<1>2. ASSUME WriteStart PROVE \E e : Own(e, "start")
  <2> DEFINE e == Step("start", main.task, 0, "busy")
  <2>1. e \in Entry /\ e.kind = "start" /\ e.nest = 0 /\ e.t = main.task
    BY <1>1, StepIsEntry DEF Kinds
  <2>2. Write(e) /\ UNCHANGED <<drain, gate>> /\ main'.said = main.said
    BY <1>2 DEF WriteStart, Others, Pc, Formed, MainFields
  <2> HIDE DEF e
  <2> QED BY <2>1, <2>2 DEF Own, Writes, Write, Lines, Taken, Queued, Formed, ScreenFields
<1>3. ASSUME List, main.task <= N PROVE \E e : Own(e, "idle")
  <2> DEFINE e == Step("idle", main.task, 0, "idle")
  <2>1. e \in Entry /\ e.kind = "idle" /\ e.nest = 0 /\ e.t = main.task
    BY <1>1, StepIsEntry DEF Kinds
  <2>2. Write(e) /\ UNCHANGED <<drain, gate>> /\ main'.said = main.said
    <3>1. ~(main.task > N)
      BY <1>1, <1>3, BoundsAssumption
    <3> QED BY <1>3, <3>1 DEF List, Others, Pc, Formed, MainFields
  <2> HIDE DEF e
  <2> QED BY <2>1, <2>2 DEF Own, Writes, Write, Lines, Taken, Queued, Formed, ScreenFields
<1>4. ASSUME NEW d \in Drainers, WriteResult(d) PROVE \E e : Own(e, "result")
  <2> DEFINE e == Step("result", main.task, 0, Verdict(d))
  <2>1. e \in Entry /\ e.kind = "result" /\ e.nest = 0 /\ e.t = main.task
    BY <1>1, StepIsEntry DEF Kinds
  <2>2. Write(e) /\ UNCHANGED <<main, gate>> /\ DrainTo(d, "take")
    BY <1>4 DEF WriteResult
  <2>3. Taken' = Taken
    <3>1. \A x \in Drainers : drain'[x].batch = drain[x].batch
      BY <2>2, DrainMoves
    <3> QED BY <3>1 DEF Taken, Drainers
  <2> HIDE DEF e
  <2> QED BY <2>1, <2>2, <2>3 DEF Own, Writes, Write, Lines, Queued, Formed, ScreenFields
<1> QED BY <1>2, <1>3, <1>4


(* A drain takes the queue, without its place.                               *)
LEMMA TakeMoves ==
  ASSUME Formed, Owned, Gated, Listed, NEW d \in Drainers, Take(d)
  PROVE  /\ Takes /\ main' = main /\ drain[d].at = "take"
         /\ drain' = [e \in Drainers |-> IF e = d
              THEN [at |-> IF Queued = <<>> THEN "done"
                           ELSE IF Batch = <<>> THEN "take" ELSE "write",
                    batch |-> Batch] ELSE drain[e]]
         /\ gate'.open = (gate.open /\ Queued # <<>>)
         /\ UNCHANGED <<run, sig, end, screen, framed, frame>>
<1>1. /\ drain[d].at = "take" /\ main' = main /\ UNCHANGED <<run, sig, end, screen, framed, frame>>
      /\ gate' = [open |-> gate.open /\ gate.queue # <<>>, queue |-> <<>>]
      /\ drain' = [drain EXCEPT ![d] =
                     [at |-> IF gate.queue = <<>> THEN "done"
                             ELSE IF Batch = <<>> THEN "take" ELSE "write",
                      batch |-> Batch]]
  BY DEF Take, DrainAt
<1>2. Queued' = <<>> /\ Lines' = Lines /\ gate'.open = (gate.open /\ Queued # <<>>)
  BY <1>1 DEF Queued, Lines
<1>3. drain' = [e \in Drainers |-> IF e = d
              THEN [at |-> IF Queued = <<>> THEN "done"
                           ELSE IF Batch = <<>> THEN "take" ELSE "write",
                    batch |-> Batch] ELSE drain[e]]
  BY <1>1 DEF Formed, Queued
<1>4. Taken = <<>> /\ \A e \in Drainers : drain[e].batch = <<>>
  <2>1. \A e \in Drainers : drain[e].at # "write"
    BY <1>1, TakenIs
  <2> QED BY <2>1, TakenIs
<1>5. drain'[d].batch = Batch /\ \A e \in Drainers : e # d => drain'[e].batch = <<>>
  BY <1>3, <1>4
<1>6. Taken' = Batch
  BY <1>5 DEF Taken, Drainers
<1> QED BY <1>1, <1>2, <1>3, <1>4, <1>6 DEF Takes

(* A drain writes the first line of what it took.                            *)
LEMMA WriteTakenMoves ==
  ASSUME Formed, Owned, Gated, Listed, NEW d \in Drainers, WriteTaken(d)
  PROVE  /\ WritesTaken /\ main' = main /\ drain[d].at = "write"
         /\ drain' = [e \in Drainers |-> IF e = d
              THEN [at |-> IF Tail(Taken) = <<>> THEN "take" ELSE "write",
                    batch |-> Tail(Taken)] ELSE drain[e]]
         /\ UNCHANGED <<run, sig, end, gate, framed, frame>>
<1>1. drain[d].at = "write" /\ main' = main /\ UNCHANGED <<run, sig, end, gate, framed, frame>>
      /\ Write(Head(drain[d].batch))
  BY DEF WriteTaken, DrainAt
<1>2. Taken = drain[d].batch /\ Taken # <<>> /\ Taken \in Seq(Entry)
  BY <1>1, TakenIs DEF Gated, Listed, Streamed
<1>3. drain' = [drain EXCEPT ![d] = [at |-> IF Len(drain[d].batch) = 1 THEN "take" ELSE "write",
                                     batch |-> Tail(drain[d].batch)]]
  BY DEF WriteTaken, Formed
<1>4. drain' = [e \in Drainers |-> IF e = d
              THEN [at |-> IF Tail(Taken) = <<>> THEN "take" ELSE "write",
                    batch |-> Tail(Taken)] ELSE drain[e]]
  BY <1>2, <1>3, TailIs DEF Formed
<1>5. \A e \in Drainers : e # d => drain[e].batch = <<>>
  BY <1>1, TakenIs
<1>6. drain'[d].batch = Tail(Taken) /\ \A e \in Drainers : e # d => drain'[e].batch = <<>>
  BY <1>4, <1>5
<1>7. Taken' = Tail(Taken)
  BY <1>6 DEF Taken, Drainers
<1>8. Lines' = Append(Lines, Head(Taken)) /\ Queued' = Queued
  BY <1>1, <1>2 DEF Write, Lines, Queued, Formed, ScreenFields
<1> QED BY <1>1, <1>2, <1>4, <1>7, <1>8 DEF WritesTaken

(***************************************************************************)
(* Every step is one of these.                                              *)
(***************************************************************************)
LEMMA StepIs ==
  ASSUME [Next]_vars
  PROVE  \/ Quiet \/ Say \/ NestLine \/ NestQueue \/ NestRest \/ NestReserve \/ NestFill
         \/ WriteStart \/ List \/ \E d \in Drainers : WriteResult(d) \/ Take(d) \/ WriteTaken(d)
BY DEF Next, Owner, Between, Body, Drain, Watcher, Interrupter, Drainers, Quiet

(* The end of the list of what did not run writes nothing.                   *)
LEMMA ListEnds ==
  ASSUME Formed, List, main.task > N
  PROVE  Same /\ main' = [main EXCEPT !.pc = "stopping"] /\ main.pc = "listing"
         /\ UNCHANGED <<run, gate, screen, drain, sig, end>>
BY DEF List, Pc, Same, Lines, Queued, Taken, Others, At

(* Every step keeps the gate open to whatever waits.                        *)
LEMMA GatedStep ==
  ASSUME Formed, Watched, Owned, Gated, Listed, [Next]_vars
  PROVE  Gated'
<1> USE DEF Formed, MainFields, SigFields, Gated, Queued, Owned, Watched, Starting,
            Working, InBody, DrainFrom, At, Pc, Others, DrainAt, BackInTask, Drainers
<1>1. CASE UNCHANGED vars
  BY <1>1 DEF vars
<1>2. CASE NoLog
  BY <1>2 DEF NoLog
<1>3. CASE Claim
  BY <1>3 DEF Claim
<1>4. CASE AllRun
  BY <1>4 DEF AllRun
<1>5. CASE WriteStart
  BY <1>5 DEF WriteStart, Write
<1>6. CASE List
  BY <1>6 DEF List, Write
<1>7. CASE OpenGate
  BY <1>7 DEF OpenGate
<1>8. CASE StartFrame
  BY <1>8 DEF StartFrame
<1>9. CASE Publish
  BY <1>9 DEF Publish
<1>10. CASE StopWatching
  BY <1>10 DEF StopWatching
<1>11. CASE Return
  BY <1>11 DEF Return
<1>12. CASE Say
  BY <1>12 DEF Say, Queue, Write
<1>13. CASE TaskEnds
  BY <1>13 DEF TaskEnds
<1>14. CASE CallRun
  BY <1>14 DEF CallRun
<1>15. CASE NestCheck
  BY <1>15 DEF NestCheck, BackInTask
<1>16. CASE NestLine
  BY <1>16 DEF NestLine, Queue, Write
<1>17. CASE NestRest
  BY <1>17 DEF NestRest, LastNested, Queue, Write
<1>18. CASE NestQueue
  BY <1>18 DEF NestQueue, NestOn, LastNested, Queue, Write
<1>19. CASE NestReserve
  BY <1>19 DEF NestReserve
<1>20. CASE NestEnds
  BY <1>20 DEF NestEnds
<1>21. CASE NestFill
  <2>1. main.pc = "nestFill" /\ UNCHANGED <<run, drain, sig, end>> /\ gate'.open = gate.open
    BY <1>21 DEF NestFill
  <2>2. main'.pc \in Working
    BY <1>21 DEF NestFill, NestOn
  <2>3. ~gate.open => Queued' = <<>>
    <3>1. ~gate.open => ~HasPlace
      BY DEF HasPlace
    <3> QED BY <1>21, <3>1 DEF NestFill
  <2> QED BY <2>1, <2>2, <2>3
<1>22. CASE Leave
  BY <1>22 DEF Leave
<1>23. CASE Settle
  BY <1>23, DrainMoves DEF Settle
<1>24. ASSUME NEW d \in Drainers, StopFrame(d) PROVE Gated'
  BY <1>24, DrainMoves DEF StopFrame
<1>25. ASSUME NEW d \in Drainers, Erase(d) PROVE Gated'
  BY <1>25, DrainMoves DEF Erase
<1>26. ASSUME NEW d \in Drainers, WriteResult(d) PROVE Gated'
  BY <1>26, DrainMoves DEF WriteResult, Write
<1>27. ASSUME NEW d \in Drainers, Take(d) PROVE Gated'
  <2>1. /\ drain' = [e \in Drainers |-> IF e = d
              THEN [at |-> IF Queued = <<>> THEN "done"
                           ELSE IF Batch = <<>> THEN "take" ELSE "write",
                    batch |-> Batch] ELSE drain[e]]
        /\ gate'.open = (gate.open /\ Queued # <<>>) /\ Queued' = <<>>
        /\ main' = main /\ drain[d].at = "take" /\ UNCHANGED <<run, sig, end>>
    BY <1>27, TakeMoves DEF Takes
  <2>2. Queued = <<>> => Batch = <<>>
    BY DEF Queued, Batch, HasPlace
  <2>3. \A e \in Drainers : e # d => drain[e].at = "no"
    BY <2>1, TakenIs
  <2>4. gate.open
    BY <2>1
  <2>5. /\ drain'[d].at = (IF Queued = <<>> THEN "done"
                           ELSE IF Batch = <<>> THEN "take" ELSE "write")
        /\ drain'[d].batch = Batch /\ \A e \in Drainers : e # d => drain'[e] = drain[e]
    BY <2>1
  <2>6. gate'.open = (Queued # <<>>)
    BY <2>1, <2>4
  <2>7. sig.intr # "die" /\ end # "first"
    BY <2>1, <2>4, <2>3
  <2>8. run.state = "running" => FALSE
    BY <2>1, <2>3
  <2>9. main.pc \in Working \cup {"draining", "parked"}
    BY <2>1
  <2> HIDE DEF Formed
  <2> QED BY <2>1, <2>2, <2>3, <2>4, <2>5, <2>6, <2>7, <2>8, <2>9
<1>28. ASSUME NEW d \in Drainers, WriteTaken(d) PROVE Gated'
  <2>1. /\ drain' = [e \in Drainers |-> IF e = d
              THEN [at |-> IF Tail(Taken) = <<>> THEN "take" ELSE "write",
                    batch |-> Tail(Taken)] ELSE drain[e]]
        /\ main' = main /\ drain[d].at = "write" /\ UNCHANGED <<run, sig, end, gate>>
    BY <1>28, WriteTakenMoves
  <2>2. /\ drain'[d].at = (IF Tail(Taken) = <<>> THEN "take" ELSE "write")
        /\ drain'[d].batch = Tail(Taken) /\ \A e \in Drainers : e # d => drain'[e] = drain[e]
    BY <2>1
  <2>3. Queued' = Queued /\ gate.open
    BY <2>1
  <2> HIDE DEF Formed
  <2> QED BY <2>1, <2>2, <2>3
<1>29. CASE Tick
  BY <1>29 DEF Tick
<1>30. CASE Redraw
  BY <1>30 DEF Redraw
<1>31. CASE TickerStops
  BY <1>31 DEF TickerStops
<1>32. CASE Deliver
  BY <1>32 DEF Deliver
<1>33. CASE WatchSees
  BY <1>33 DEF WatchSees
<1>34. CASE WatchQuits
  BY <1>34 DEF WatchQuits
<1>35. CASE WatchSecond
  BY <1>35 DEF WatchSecond
<1>36. CASE DieOfSecond
  BY <1>36 DEF DieOfSecond
<1>37. CASE Interrupt
  BY <1>37, DrainMoves DEF Interrupt, TakeOver
<1>38. CASE Wake
  BY <1>38, DrainMoves DEF Wake, TakeOver
<1>39. CASE InterruptDrained
  BY <1>39, DrainMoves DEF InterruptDrained
<1>40. CASE DieOfFirst
  BY <1>40 DEF DieOfFirst
<1>41. CASE Stall
  BY <1>41 DEF Stall
<1> QED BY <1>1, <1>2, <1>3, <1>4, <1>5, <1>6, <1>7, <1>8, <1>9, <1>10, <1>11, <1>12,
           <1>13, <1>14, <1>15, <1>16, <1>17, <1>18, <1>19, <1>20, <1>21, <1>22, <1>23,
           <1>24, <1>25, <1>26, <1>27, <1>28, <1>29, <1>30, <1>31, <1>32, <1>33, <1>34,
           <1>35, <1>36, <1>37, <1>38, <1>39, <1>40, <1>41
       DEF Next, Owner, Between, Body, Drain, Watcher, Interrupter, Drainers

-----------------------------------------------------------------------------
(* The stream, the batch and the queue.                                      *)

(* A line that is no place keeps the queue to its one place.                 *)
LEMMA AddsStreamed ==
  ASSUME Streamed, NEW e, ~Blank(e), Adds(e) \/ Writes(e)
  PROVE  Streamed' /\ (HasPlace' => HasPlace)
<1>1. e \in Entry /\ Lines \in Seq(Entry) /\ Queued \in Seq(Entry)
  BY DEF Adds, Writes, Streamed
<1>2. CASE Queued' = Append(Queued, e) /\ Lines' = Lines /\ Taken' = Taken
  <2>1. Queued' \in Seq(Entry)
        /\ \A k \in DOMAIN Queued' : Blank(Queued'[k]) => k \in DOMAIN Queued /\ Queued'[k] = Queued[k]
    BY <1>1, <1>2, AppendIs
  <2> QED BY <1>2, <2>1 DEF Streamed, HasPlace, Queued
<1>3. CASE Lines' = Append(Lines, e) /\ Queued' = Queued /\ Taken' = Taken
  <2>1. Lines' \in Seq(Entry) /\ \A k \in DOMAIN Lines' : ~Blank(Lines'[k])
    BY <1>1, <1>3, AppendIs DEF Streamed
  <2> QED BY <1>3, <2>1 DEF Streamed, HasPlace, Queued
<1> QED BY <1>2, <1>3 DEF Adds, Writes

(* What a drain takes and writes has no place.                               *)
LEMMA DrainStreamed ==
  ASSUME Listed, Takes \/ WritesTaken
  PROVE  Streamed' /\ (HasPlace' => HasPlace)
<1>1. CASE Takes
  <2>1. Taken' = Batch /\ Queued' = <<>> /\ Lines' = Lines
    BY <1>1 DEF Takes
  <2>2. Taken' \in Seq(Entry) /\ \A k \in DOMAIN Taken' : ~Blank(Taken'[k])
    BY <2>1, BatchIs
  <2> QED BY <2>1, <2>2 DEF Listed, Streamed, HasPlace, Queued
<1>2. CASE WritesTaken
  <2>1. Taken \in Seq(Entry) /\ Taken # <<>> /\ Lines \in Seq(Entry)
    BY <1>2 DEF WritesTaken, Listed, Streamed
  <2>2. Tail(Taken) \in Seq(Entry) /\ \A k \in DOMAIN Tail(Taken) : ~Blank(Tail(Taken)[k])
    BY <2>1, TailIs DEF Listed, Streamed
  <2>3. Head(Taken) \in Entry /\ ~Blank(Head(Taken))
    BY <2>1, TailIs DEF Listed, Streamed
  <2>4. Lines' \in Seq(Entry) /\ \A k \in DOMAIN Lines' : ~Blank(Lines'[k])
    BY <1>2, <2>1, <2>3, AppendIs DEF WritesTaken, Listed, Streamed
  <2> QED BY <1>2, <2>2, <2>4 DEF WritesTaken, Listed, Streamed, HasPlace, Queued
<1> QED BY <1>1, <1>2

(* The result of a task inside takes the place of its place.                 *)
LEMMA FillsIs ==
  ASSUME Streamed, NEW e, ~Blank(e), Fills(e)
  PROVE  /\ Streamed' /\ ~HasPlace' /\ DOMAIN Queued' = DOMAIN Queued
         /\ \A k \in DOMAIN Queued :
              Queued'[k] = IF Blank(Queued[k]) THEN e ELSE Queued[k]
<1>1. Queued \in Seq(Entry) /\ e \in Entry
  BY DEF Streamed, Fills
<1>2. Queued' = [k \in DOMAIN Queued |-> IF Blank(Queued[k]) THEN e ELSE Queued[k]]
  BY DEF Fills
<1>3. Queued' \in Seq(Entry) /\ DOMAIN Queued' = DOMAIN Queued
  BY <1>1, <1>2
<1>4. \A k \in DOMAIN Queued' : ~Blank(Queued'[k])
  BY <1>2
<1>5. ~HasPlace'
  BY <1>4 DEF HasPlace, Queued
<1> QED BY <1>2, <1>3, <1>4, <1>5 DEF Streamed, Fills

(* Where a quiet step leaves the owner.                                      *)
LEMMA QuietGoes ==
  ASSUME Formed, Owned, Gated, Listed, Quiet, HasPlace
  PROVE  main'.pc \in {"nestBody", "nestFill", "leaving", "draining", "parked"}
<1> USE DEF Formed, MainFields, Listed, At, Others, Pc
<1>1. CASE NoLog \/ Claim \/ OpenGate \/ StartFrame \/ Publish \/ AllRun \/ StopWatching
  BY <1>1 DEF NoLog, Claim, OpenGate, StartFrame, Publish, AllRun, StopWatching
<1>2. CASE Return
  BY <1>2 DEF Return
<1>3. CASE TaskEnds \/ CallRun \/ NestCheck
  BY <1>3 DEF TaskEnds, CallRun, NestCheck
<1>4. CASE NestEnds
  BY <1>4 DEF NestEnds
<1>5. CASE Leave
  BY <1>5 DEF Leave
<1>6. CASE Settle
  <2>1. gate.open
    BY DEF Gated, HasPlace
  <2> QED BY <1>6, <2>1 DEF Settle, DrainAt, Gated, Drainers
<1>7. CASE \E d \in Drainers : StopFrame(d) \/ Erase(d)
  BY <1>7 DEF StopFrame, Erase
<1>8. CASE Tick \/ Redraw \/ TickerStops \/ Stall \/ UNCHANGED vars
  BY <1>8 DEF Tick, Redraw, TickerStops, Stall, vars
<1>9. CASE Deliver \/ Watcher
  BY <1>9 DEF Deliver, Watcher, WatchSees, WatchQuits, WatchSecond, DieOfSecond
<1>10. CASE Interrupt \/ Wake \/ InterruptDrained \/ DieOfFirst
  BY <1>10 DEF Interrupt, Wake, InterruptDrained, DieOfFirst
<1> QED BY <1>1, <1>2, <1>3, <1>4, <1>5, <1>6, <1>7, <1>8, <1>9, <1>10 DEF Quiet

(* The counters of the owner.                                                *)
Counts == main.task \in Nat /\ main.nest \in Nat /\ main.nested \in Nat /\ main.said \in Nat

(* Every step keeps the counters numbers.                                   *)
LEMMA CountsStep ==
  ASSUME Formed, Counts, [Next]_vars
  PROVE  Counts'
<1> USE BoundsAssumption
<1> USE DEF Formed, MainFields, Counts, At, Pc, Others, DrainAt, Drainers
<1>1. CASE UNCHANGED vars
  BY <1>1 DEF vars
<1>2. CASE NoLog
  BY <1>2 DEF NoLog
<1>3. CASE Claim
  BY <1>3 DEF Claim
<1>4. CASE AllRun
  BY <1>4 DEF AllRun
<1>5. CASE WriteStart \/ List
  BY <1>5 DEF WriteStart, Write, List
<1>6. CASE OpenGate \/ StartFrame \/ Publish
  BY <1>6 DEF OpenGate, StartFrame, Publish
<1>7. CASE StopWatching \/ Return
  BY <1>7 DEF StopWatching, Return
<1>8. CASE Say
  BY <1>8 DEF Say, Queue, Write
<1>9. CASE TaskEnds
  BY <1>9 DEF TaskEnds
<1>10. CASE CallRun
  BY <1>10 DEF CallRun
<1>11. CASE NestCheck
  <2>1. BackInTask \/ \E p \in {"nestReserve", "nestLine"} : Pc(p)
    BY <1>11 DEF NestCheck
  <2>2. BackInTask => main'.nest = 0 /\ main'.task = main.task /\ main'.nested = main.nested
                      /\ main'.said = main.said
    BY DEF BackInTask
  <2>3. ASSUME NEW p \in {"nestReserve", "nestLine"}, Pc(p) PROVE main'.nest = main.nest
          /\ main'.task = main.task /\ main'.nested = main.nested /\ main'.said = main.said
    BY <2>3
  <2> HIDE DEF Formed, Pc
  <2> QED BY <2>1, <2>2, <2>3
<1>12. CASE NestLine
  BY <1>12 DEF NestLine, Queue, Write
<1>13. CASE NestRest
  <2>1. main'.task = main.task /\ main'.nest \in {main.nest + 1, 0}
        /\ main'.nested = main.nested /\ main'.said = main.said
    BY <1>13 DEF NestRest
  <2> QED BY <2>1
<1>14. CASE NestQueue
  <2>1. NestOn => main'.task = main.task /\ main'.nest \in {main.nest, main.nest + 1, 0}
        /\ main'.nested = main.nested /\ main'.said = main.said
    BY DEF NestOn
  <2> QED BY <1>14, <2>1 DEF NestQueue
<1>15. CASE NestReserve
  BY <1>15 DEF NestReserve
<1>16. CASE NestEnds
  <2>1. main'.task = main.task /\ main'.nest \in {main.nest, 0}
        /\ main'.nested = main.nested /\ main'.said = main.said
    <3>1. CASE \E v \in {"ok", "fail"} :
                 main' = [main EXCEPT !.pc = "nestFill", !.verdict = v]
      BY <3>1
    <3>2. CASE main' = [main EXCEPT !.pc = "leaving", !.nest = 0, !.verdict = "panic"]
      BY <3>2
    <3> QED BY <1>16, <3>1, <3>2 DEF NestEnds
  <2> QED BY <2>1
<1>17. CASE NestFill
  <2>1. NestOn => main'.task = main.task /\ main'.nest \in {main.nest, main.nest + 1, 0}
        /\ main'.nested = main.nested /\ main'.said = main.said
    BY DEF NestOn
  <2>2. NestOn \/ main' = [main EXCEPT !.pc = "nestQueue"]
    BY <1>17 DEF NestFill, Pc
  <2> QED BY <2>1, <2>2
<1>18. CASE Leave
  BY <1>18 DEF Leave
<1>19. CASE Settle
  BY <1>19, DrainMoves DEF Settle
<1>20. ASSUME NEW d \in Drainers, StopFrame(d) \/ Erase(d) PROVE Counts'
  BY <1>20, DrainMoves DEF StopFrame, Erase
<1>21. ASSUME NEW d \in Drainers, WriteResult(d) PROVE Counts'
  BY <1>21, DrainMoves DEF WriteResult, Write
<1>22. ASSUME NEW d \in Drainers, Take(d) PROVE Counts'
  BY <1>22 DEF Take
<1>23. ASSUME NEW d \in Drainers, WriteTaken(d) PROVE Counts'
  BY <1>23 DEF WriteTaken, Write
<1>24. CASE Tick \/ Redraw \/ TickerStops
  BY <1>24 DEF Tick, Redraw, TickerStops
<1>25. CASE Deliver \/ WatchSees \/ WatchQuits \/ WatchSecond \/ DieOfSecond
  BY <1>25 DEF Deliver, WatchSees, WatchQuits, WatchSecond, DieOfSecond
<1>26. CASE Interrupt \/ Wake
  BY <1>26, DrainMoves DEF Interrupt, TakeOver, Wake
<1>27. CASE InterruptDrained \/ DieOfFirst \/ Stall
  BY <1>27, DrainMoves DEF InterruptDrained, DieOfFirst, Stall
<1> QED BY <1>1, <1>2, <1>3, <1>4, <1>5, <1>6, <1>7, <1>8, <1>9, <1>10, <1>11, <1>12,
           <1>13, <1>14, <1>15, <1>16, <1>17, <1>18, <1>19, <1>20, <1>21, <1>22, <1>23,
           <1>24, <1>25, <1>26, <1>27
       DEF Next, Owner, Between, Body, Drain, Watcher, Interrupter, Drainers

(* Every step keeps the stream, the batch and the queue in shape.            *)
LEMMA ListedStep ==
  ASSUME Formed, Owned, Gated, Listed, [Next]_vars
  PROVE  Listed'
<1>1. Counts'
  BY CountsStep DEF Listed, Counts
<1>2. Streamed
  BY DEF Listed
<1>3. CASE Quiet
  <2>1. Same
    BY <1>3, QuietIsSame
  <2>2. Streamed' /\ (HasPlace' <=> HasPlace)
    BY <1>2, <2>1 DEF Same, Streamed, HasPlace, Queued
  <2> QED BY <1>1, <1>3, <2>2, QuietGoes DEF Listed, Counts
<1>4. CASE Say
  <2>1. Adds(Said(main.said + 1)) /\ main'.pc = main.pc
    BY <1>4, SayAdds DEF Formed, MainFields
  <2>2. ~Blank(Said(main.said + 1))
    BY DEF Said, Blank
  <2>3. Streamed' /\ (HasPlace' => HasPlace)
    BY <1>2, <2>1, <2>2, AddsStreamed
  <2> QED BY <1>1, <2>1, <2>3 DEF Listed, Counts
<1>5. CASE NestLine \/ NestQueue \/ NestRest
  <2>1. main.pc \in {"nestLine", "nestQueue", "nestRest"}
    BY <1>5 DEF NestLine, NestQueue, NestRest, At
  <2>2. PICK e : Inside(e) /\ Adds(e)
    BY <1>5, NestAdds
  <2>3. Streamed' /\ (HasPlace' => HasPlace)
    BY <1>2, <2>2, AddsStreamed DEF Inside, Blank
  <2> QED BY <1>1, <2>1, <2>3 DEF Listed, Counts
<1>6. CASE NestReserve
  <2>1. main.pc = "nestReserve" /\ main'.pc = "nestBody" /\ ~HasPlace
    BY <1>6, ReserveAdds DEF Listed, Formed, MainFields
  <2>2. CASE Same
    BY <1>1, <1>2, <2>1, <2>2 DEF Listed, Counts, Same, Streamed, HasPlace, Queued
  <2>3. ASSUME NEW e \in Entry, Queued' = Append(Queued, e) /\ Lines' = Lines /\ Taken' = Taken
        PROVE  Listed'
    <3>1. Queued' \in Seq(Entry)
          /\ \A k \in DOMAIN Queued' : Blank(Queued'[k]) => k = Len(Queued) + 1
      BY <1>2, <2>1, <2>3, AppendIs DEF Streamed, HasPlace, Queued
    <3>2. Streamed'
      BY <1>2, <2>3, <3>1 DEF Streamed
    <3> QED BY <1>1, <2>1, <3>2 DEF Listed, Counts
  <2> QED BY <1>6, <2>2, <2>3, ReserveAdds
<1>7. CASE NestFill
  <2>1. CASE ~HasPlace /\ Same
    BY <1>1, <1>2, <2>1 DEF Listed, Counts, Same, Streamed, HasPlace, Queued
  <2>2. ASSUME NEW e, Fills(e), Inside(e) PROVE Listed'
    <3>1. Streamed' /\ ~HasPlace'
      BY <1>2, <2>2, FillsIs DEF Inside, Blank
    <3> QED BY <1>1, <3>1 DEF Listed, Counts
  <2> QED BY <1>7, <2>1, <2>2, FillMoves
<1>8. CASE \/ WriteStart \/ (List /\ main.task <= N) \/ \E d \in Drainers : WriteResult(d)
  <2>1. PICK e : Writes(e) /\ e.kind \in {"start", "idle", "result"}
    BY <1>8, OwnWrites DEF Own
  <2>2. Streamed' /\ (HasPlace' => HasPlace)
    BY <1>2, <2>1, AddsStreamed DEF Blank
  <2>3. HasPlace => main'.pc = main.pc \/ main.pc \in {"claimed", "listing"}
    BY <1>8 DEF WriteStart, List, WriteResult, At
  <2> QED BY <1>1, <2>2, <2>3 DEF Listed, Counts
<1>9. CASE List /\ main.task > N
  BY <1>1, <1>2, <1>9, ListEnds DEF Listed, Counts, Same, Streamed, HasPlace, Queued
<1>10. ASSUME NEW d \in Drainers, Take(d) \/ WriteTaken(d) PROVE Listed'
  <2>1. (Takes \/ WritesTaken) /\ main' = main
    BY <1>10, TakeMoves, WriteTakenMoves
  <2>2. Streamed' /\ (HasPlace' => HasPlace)
    BY <2>1, DrainStreamed
  <2> QED BY <1>1, <2>1, <2>2 DEF Listed, Counts
<1>11. List => main.task <= N \/ main.task > N
  BY BoundsAssumption DEF Listed
<1> QED BY <1>3, <1>4, <1>5, <1>6, <1>7, <1>8, <1>9, <1>10, <1>11, StepIs

-----------------------------------------------------------------------------
(* The messages.                                                             *)

(* The empty sequence holds no message.                                      *)
LEMMA HoldsNone ==
  ASSUME NEW a \in Nat, NEW b \in Nat, a <= b
  PROVE  Holds(<<>>, a, b) <=> a = b
<1>1. DOMAIN <<>> = {}
  OBVIOUS
<1>2. CASE a = b
  <2>1. (a + 1)..b = {}
    BY <1>2
  <2> QED BY <1>1, <1>2, <2>1 DEF Holds
<1>3. CASE a # b
  <2>1. a + 1 \in (a + 1)..b
    BY <1>3
  <2> QED BY <1>1, <1>3, <2>1 DEF Holds
<1> QED BY <1>2, <1>3

(* The next message, after the others.                                       *)
LEMMA HoldsNext ==
  ASSUME NEW s \in Seq(Entry), NEW e \in Entry, NEW a \in Nat, NEW b \in Nat, a <= b,
         Holds(s, a, b), e.kind = "message", e.n = b + 1
  PROVE  Holds(Append(s, e), a, b + 1)
<1> DEFINE r == Append(s, e)
<1> DEFINE z == Len(s) + 1
<1>1. /\ DOMAIN r = DOMAIN s \cup {z} /\ r[z] = e /\ z \in Nat
      /\ \A k \in DOMAIN s : r[k] = s[k] /\ k < z /\ k \in Nat
  BY AppendIs
<1> HIDE DEF r, z
<1>2. (a + 1)..(b + 1) = ((a + 1)..b) \cup {b + 1} /\ \A x \in (a + 1)..b : x < b + 1
  OBVIOUS
<1>3. \A k \in DOMAIN r : r[k].kind = "message" => r[k].n \in (a + 1)..(b + 1)
  BY <1>1, <1>2 DEF Holds
<1>4. \A j, k \in DOMAIN r :
        j < k /\ r[j].kind = "message" /\ r[k].kind = "message" => r[j].n < r[k].n
  BY <1>1, <1>2 DEF Holds
<1>5. \A m \in (a + 1)..(b + 1) : \E k \in DOMAIN r : r[k].kind = "message" /\ r[k].n = m
  BY <1>1, <1>2 DEF Holds
<1>6. Holds(r, a, b + 1)
  BY <1>3, <1>4, <1>5 DEF Holds
<1> QED BY <1>6 DEF r

(* Another line, after the messages.                                         *)
LEMMA HoldsOther ==
  ASSUME NEW s \in Seq(Entry), NEW e \in Entry, NEW a \in Nat, NEW b \in Nat,
         Holds(s, a, b), e.kind # "message"
  PROVE  Holds(Append(s, e), a, b)
<1> DEFINE r == Append(s, e)
<1> DEFINE z == Len(s) + 1
<1>1. /\ DOMAIN r = DOMAIN s \cup {z} /\ r[z] = e /\ z \in Nat
      /\ \A k \in DOMAIN s : r[k] = s[k] /\ k < z /\ k \in Nat
  BY AppendIs
<1> HIDE DEF r, z
<1>2. Holds(r, a, b)
  BY <1>1 DEF Holds
<1> QED BY <1>2 DEF r

(* The first line taken off: a message is the next one after a.              *)
LEMMA HoldsTail ==
  ASSUME NEW s \in Seq(Entry), NEW a \in Nat, NEW b \in Nat, a <= b, s # <<>>, Holds(s, a, b)
  PROVE  /\ Head(s).kind = "message" =>
              Head(s).n = a + 1 /\ a + 1 <= b /\ Holds(Tail(s), a + 1, b)
         /\ Head(s).kind # "message" => Holds(Tail(s), a, b)
<1> DEFINE r == Tail(s)
<1>1. /\ Head(s) = s[1] /\ 1 \in DOMAIN s
      /\ \A k \in DOMAIN r : k \in Nat /\ k + 1 \in DOMAIN s /\ r[k] = s[k + 1]
      /\ \A k \in DOMAIN s : k \in Nat /\ (k = 1 \/ (k > 1 /\ k - 1 \in DOMAIN r))
  BY TailIs
<1> HIDE DEF r
<1>2. \A k \in DOMAIN s : k = 1 \/ (k > 1 /\ k - 1 \in DOMAIN r /\ r[k - 1] = s[k])
  BY <1>1
<1>3. \A j, k \in DOMAIN r : j < k /\ r[j].kind = "message" /\ r[k].kind = "message" => r[j].n < r[k].n
  <2> TAKE j, k \in DOMAIN r
  <2>1. j + 1 \in DOMAIN s /\ k + 1 \in DOMAIN s /\ r[j] = s[j + 1] /\ r[k] = s[k + 1]
        /\ (j < k => j + 1 < k + 1)
    BY <1>1
  <2> QED BY <2>1 DEF Holds
<1>4. CASE s[1].kind = "message"
  <2>1. s[1].n \in (a + 1)..b
    BY <1>1, <1>4 DEF Holds
  <2>2. a + 1 \in (a + 1)..b /\ a + 1 <= b
    BY <2>1
  <2>3. PICK k \in DOMAIN s : s[k].kind = "message" /\ s[k].n = a + 1
    BY <2>2 DEF Holds
  <2>4. k = 1
    <3>1. SUFFICES ASSUME k > 1 PROVE FALSE
      BY <1>1, <2>3
    <3>2. s[1].n < s[k].n
      BY <1>1, <1>4, <2>3, <3>1 DEF Holds
    <3> QED BY <2>1, <2>3, <3>2
  <2>5. \A j \in DOMAIN r : r[j].kind = "message" => r[j].n \in (a + 2)..b
    <3> SUFFICES ASSUME NEW j \in DOMAIN r, r[j].kind = "message" PROVE r[j].n \in (a + 2)..b
      OBVIOUS
    <3>1. j + 1 \in DOMAIN s /\ r[j] = s[j + 1] /\ 1 < j + 1
      <4>1. j # 0
        BY <1>1 DEF r
      <4> QED BY <1>1, <4>1
    <3>2. s[1].n < s[j + 1].n /\ s[j + 1].n \in (a + 1)..b
      BY <1>1, <1>4, <3>1 DEF Holds
    <3> QED BY <2>3, <2>4, <3>1, <3>2
  <2>6. \A m \in (a + 2)..b : \E j \in DOMAIN r : r[j].kind = "message" /\ r[j].n = m
    <3> SUFFICES ASSUME NEW m \in (a + 2)..b
                 PROVE  \E j \in DOMAIN r : r[j].kind = "message" /\ r[j].n = m
      OBVIOUS
    <3>1. m \in (a + 1)..b /\ m # a + 1
      OBVIOUS
    <3>2. PICK i \in DOMAIN s : s[i].kind = "message" /\ s[i].n = m
      BY <3>1 DEF Holds
    <3>3. i # 1
      BY <2>3, <2>4, <3>1, <3>2
    <3> QED BY <1>2, <3>2, <3>3
  <2>7. (a + 1) + 1 = a + 2
    OBVIOUS
  <2>8. Holds(r, a + 1, b)
    BY <1>3, <2>5, <2>6, <2>7 DEF Holds
  <2> QED BY <1>1, <1>4, <2>2, <2>3, <2>4, <2>8 DEF r
<1>5. CASE s[1].kind # "message"
  <2>1. \A k \in DOMAIN r : r[k].kind = "message" => r[k].n \in (a + 1)..b
    BY <1>1 DEF Holds
  <2>2. \A m \in (a + 1)..b : \E k \in DOMAIN r : r[k].kind = "message" /\ r[k].n = m
    BY <1>2, <1>5 DEF Holds
  <2>3. Holds(r, a, b)
    BY <1>3, <2>1, <2>2 DEF Holds
  <2> QED BY <1>1, <1>5, <2>3 DEF r
<1> QED BY <1>4, <1>5

(* The same messages, at the same places.                                    *)
LEMMA HoldsFilled ==
  ASSUME NEW s, NEW r, NEW a, NEW b, NEW e, e.kind = "result", DOMAIN r = DOMAIN s,
         Holds(s, a, b),
         \A k \in DOMAIN s : r[k] = IF Blank(s[k]) THEN e ELSE s[k]
  PROVE  Holds(r, a, b)
<1>1. \A k \in DOMAIN s : /\ r[k].kind = "message" <=> s[k].kind = "message"
                          /\ r[k].kind = "message" => r[k] = s[k]
  BY DEF Blank
<1> QED BY <1>1 DEF Holds

(* The messages of the queue, in a batch.                                    *)
LEMMA HoldsThinned ==
  ASSUME NEW s, NEW r, NEW f, NEW a, NEW b, Thins(f, r, s), Holds(s, a, b)
  PROVE  Holds(r, a, b)
<1>1. \A k \in DOMAIN r : f[k] \in DOMAIN s /\ r[k] = s[f[k]]
  BY DEF Thins
<1>2. \A k \in DOMAIN r : r[k].kind = "message" => r[k].n \in (a + 1)..b
  BY <1>1 DEF Holds
<1>3. \A j, k \in DOMAIN r : j < k => f[j] < f[k]
  BY DEF Thins
<1>4. \A j, k \in DOMAIN r : j < k /\ r[j].kind = "message" /\ r[k].kind = "message" => r[j].n < r[k].n
  BY <1>1, <1>3 DEF Holds
<1>5. \A m \in (a + 1)..b : \E k \in DOMAIN r : r[k].kind = "message" /\ r[k].n = m
  BY <1>1 DEF Holds, Thins, Blank
<1> QED BY <1>2, <1>4, <1>5 DEF Holds

(* A line that is no message, on the stream or in the queue.                 *)
LEMMA SentOther ==
  ASSUME Streamed, Sent, NEW e \in Entry, e.kind # "message", main'.said = main.said,
         main.said \in Nat,
         \/ Lines' = Append(Lines, e) /\ Queued' = Queued /\ Taken' = Taken
         \/ Queued' = Append(Queued, e) /\ Lines' = Lines /\ Taken' = Taken
  PROVE  Sent'
<1>1. Lines \in Seq(Entry) /\ Queued \in Seq(Entry)
  BY DEF Streamed
<1>2. PICK x, y \in Nat : /\ x <= y /\ y <= main.said
                          /\ Holds(Lines, 0, x) /\ Holds(Taken, x, y)
                          /\ Holds(Queued, y, main.said)
  BY DEF Sent
<1>3. Holds(Append(Lines, e), 0, x) /\ Holds(Append(Queued, e), y, main.said)
  BY <1>1, <1>2, HoldsOther
<1>4. Holds(Lines', 0, x) /\ Holds(Taken', x, y) /\ Holds(Queued', y, main'.said)
  BY <1>2, <1>3
<1> QED BY <1>2, <1>4 DEF Sent, Holds

(***************************************************************************)
(* Every step keeps the messages: all of them, once and in their order.     *)
(***************************************************************************)
LEMMA SentStep ==
  ASSUME Formed, Owned, Gated, Listed, Sent, [Next]_vars
  PROVE  Sent'
<1>1. Streamed /\ main.said \in Nat /\ Lines \in Seq(Entry) /\ Taken \in Seq(Entry) /\ Queued \in Seq(Entry)
  BY DEF Listed, Streamed
<1>2. PICK x, y \in Nat : /\ x <= y /\ y <= main.said
                          /\ Holds(Lines, 0, x) /\ Holds(Taken, x, y)
                          /\ Holds(Queued, y, main.said)
  BY DEF Sent
<1>3. ASSUME NEW u \in Nat, NEW v \in Nat, u <= v, v <= main'.said,
             Holds(Lines', 0, u), Holds(Taken', u, v), Holds(Queued', v, main'.said)
      PROVE  Sent'
  BY <1>3 DEF Sent, Holds
<1>4. ASSUME Same, main'.said = main.said PROVE Sent'
  <2>1. Holds(Lines', 0, x) /\ Holds(Taken', x, y) /\ Holds(Queued', y, main'.said)
    BY <1>2, <1>4 DEF Same
  <2> QED BY <1>2, <1>3, <1>4, <2>1
<1>5. CASE Quiet
  BY <1>4, <1>5, QuietIsSame
<1>6. CASE Say
  <2> DEFINE e == Said(main.said + 1)
  <2>1. e \in Entry /\ e.kind = "message" /\ e.n = main.said + 1
    BY <1>1, SaidIsEntry
  <2>2. Adds(e) /\ main'.said = main.said + 1
    BY <1>6, SayAdds DEF Formed, MainFields
  <2> HIDE DEF e
  <2>3. CASE Queued' = Append(Queued, e) /\ Lines' = Lines /\ Taken' = Taken
    <3>1. Holds(Queued', y, main'.said)
      BY <1>1, <1>2, <2>1, <2>2, <2>3, HoldsNext
    <3>2. Holds(Lines', 0, x) /\ Holds(Taken', x, y) /\ y <= main'.said
      BY <1>1, <1>2, <2>2, <2>3
    <3> QED BY <1>2, <1>3, <3>1, <3>2
  <2>4. CASE Taken = <<>> /\ Queued = <<>> /\ Writes(e)
    <3>1. x = y /\ y = main.said
      BY <1>1, <1>2, <2>4, HoldsNone
    <3>2. Holds(Lines', 0, main.said + 1)
      BY <1>1, <1>2, <2>1, <2>4, <3>1, HoldsNext DEF Writes
    <3>3. Taken' = <<>> /\ Queued' = <<>>
      BY <2>4 DEF Writes
    <3>4. main.said + 1 \in Nat /\ main'.said = main.said + 1
      BY <1>1, <2>2
    <3>5. Holds(<<>>, main.said + 1, main.said + 1)
      BY <3>4, HoldsNone
    <3> QED BY <1>3, <3>2, <3>3, <3>4, <3>5
  <2> QED BY <2>2, <2>3, <2>4 DEF Adds
<1>7. CASE NestLine \/ NestQueue \/ NestRest
  <2>1. PICK e : Inside(e) /\ Adds(e)
    BY <1>7, NestAdds
  <2> QED BY <1>1, <2>1, SentOther DEF Inside, Adds, Writes
<1>8. CASE NestReserve
  <2>1. main'.said = main.said
    BY <1>8, ReserveAdds DEF Formed, MainFields
  <2>2. CASE Same
    BY <1>4, <2>1, <2>2
  <2>3. ASSUME NEW e \in Entry, Blank(e), Queued' = Append(Queued, e) /\ Lines' = Lines /\ Taken' = Taken
        PROVE  Sent'
    BY <1>1, <2>1, <2>3, SentOther DEF Blank
  <2> QED BY <1>8, <2>2, <2>3, ReserveAdds
<1>9. CASE NestFill
  <2>1. CASE Same /\ main' = [main EXCEPT !.pc = "nestQueue"]
    BY <1>4, <2>1 DEF Formed, MainFields
  <2>2. ASSUME NEW e, Fills(e), Inside(e), e.kind = "result" PROVE Sent'
    <3>1. DOMAIN Queued' = DOMAIN Queued
          /\ \A k \in DOMAIN Queued : Queued'[k] = IF Blank(Queued[k]) THEN e ELSE Queued[k]
      BY <1>1, <2>2, FillsIs DEF Blank
    <3>2. Holds(Queued', y, main'.said)
      BY <1>2, <2>2, <3>1, HoldsFilled DEF Inside
    <3>3. Holds(Lines', 0, x) /\ Holds(Taken', x, y) /\ main'.said = main.said
      BY <1>2, <2>2 DEF Fills, Inside
    <3> QED BY <1>2, <1>3, <3>2, <3>3
  <2> QED BY <1>9, <2>1, <2>2, FillMoves
<1>10. CASE \/ WriteStart \/ (List /\ main.task <= N) \/ \E d \in Drainers : WriteResult(d)
  <2>1. PICK e : Writes(e) /\ main'.said = main.said /\ e.kind \in {"start", "idle", "result"}
    BY <1>10, OwnWrites DEF Own
  <2> QED BY <1>1, <2>1, SentOther DEF Writes
<1>11. CASE List /\ main.task > N
  BY <1>4, <1>11, ListEnds DEF Formed, MainFields
<1>12. ASSUME NEW d \in Drainers, Take(d) PROVE Sent'
  <2>1. Takes /\ main' = main
    BY <1>12, TakeMoves
  <2>2. PICK f : Thins(f, Batch, Queued)
    BY BatchIs
  <2>3. Holds(Batch, y, main.said)
    BY <1>2, <2>2, HoldsThinned
  <2>4. x = y
    BY <1>2, <2>1, HoldsNone DEF Takes
  <2>5. Holds(Lines', 0, y) /\ Holds(Taken', y, main.said) /\ Holds(Queued', main.said, main.said)
    BY <1>1, <1>2, <2>1, <2>3, <2>4, HoldsNone DEF Takes
  <2> QED BY <1>1, <1>2, <1>3, <2>1, <2>5
<1>13. ASSUME NEW d \in Drainers, WriteTaken(d) PROVE Sent'
  <2>1. WritesTaken /\ main' = main
    BY <1>13, WriteTakenMoves
  <2>2. Head(Taken) \in Entry
    BY <1>1, <2>1, TailIs DEF WritesTaken
  <2>3. CASE Head(Taken).kind = "message"
    <3>1. Head(Taken).n = x + 1 /\ x + 1 <= y /\ Holds(Taken', x + 1, y)
      BY <1>1, <1>2, <2>1, <2>3, HoldsTail DEF WritesTaken
    <3>2. Holds(Lines', 0, x + 1)
      BY <1>1, <1>2, <2>1, <2>2, <2>3, <3>1, HoldsNext DEF WritesTaken
    <3>3. Holds(Queued', y, main'.said)
      BY <1>2, <2>1 DEF WritesTaken
    <3>4. x + 1 \in Nat
      BY <1>2
    <3> QED BY <1>2, <1>3, <2>1, <3>1, <3>2, <3>3, <3>4
  <2>4. CASE Head(Taken).kind # "message"
    <3>1. Holds(Taken', x, y)
      BY <1>1, <1>2, <2>1, <2>4, HoldsTail DEF WritesTaken
    <3>2. Holds(Lines', 0, x)
      BY <1>1, <1>2, <2>1, <2>2, <2>4, HoldsOther DEF WritesTaken
    <3>3. Holds(Queued', y, main'.said)
      BY <1>2, <2>1 DEF WritesTaken
    <3> QED BY <1>2, <1>3, <2>1, <3>1, <3>2, <3>3
  <2> QED BY <2>3, <2>4
<1>14. List => main.task <= N \/ main.task > N
  BY BoundsAssumption DEF Listed
<1> QED BY <1>5, <1>6, <1>7, <1>8, <1>9, <1>10, <1>11, <1>12, <1>13, <1>14, StepIs

-----------------------------------------------------------------------------
(* The lines that end the tasks.                                             *)

(* Every step keeps the place in the list.                                  *)
LEMMA AlongStep ==
  ASSUME Formed, Owned, Gated, Listed, Along, [Next]_vars
  PROVE  Along'
<1> USE BoundsAssumption
<1> USE DEF Formed, MainFields, SigFields, InBody, Begun, Starting, Working, InTask,
            Owned, Gated, Listed, Along, At, Pc, Others, DrainAt, BackInTask, Drainers
<1>1. CASE UNCHANGED vars
  BY <1>1 DEF vars
<1>2. CASE NoLog
  BY <1>2 DEF NoLog
<1>3. CASE Claim
  BY <1>3 DEF Claim
<1>4. CASE AllRun
  BY <1>4 DEF AllRun
<1>5. CASE WriteStart
  BY <1>5 DEF WriteStart, Write
<1>6. CASE List
  BY <1>6 DEF List, Write
<1>7. CASE OpenGate
  BY <1>7 DEF OpenGate
<1>8. CASE StartFrame
  BY <1>8 DEF StartFrame
<1>9. CASE Publish
  BY <1>9 DEF Publish
<1>10. CASE StopWatching
  BY <1>10 DEF StopWatching
<1>11. CASE Return
  BY <1>11 DEF Return
<1>12. CASE Say
  BY <1>12 DEF Say, Queue, Write
<1>13. CASE TaskEnds
  BY <1>13 DEF TaskEnds
<1>14. CASE CallRun
  BY <1>14 DEF CallRun
<1>15. CASE NestCheck
  <2>1. main.pc = "nestCheck" /\ end' = end
    BY <1>15 DEF NestCheck
  <2>2. BackInTask \/ \E p \in {"nestReserve", "nestLine"} : Pc(p)
    BY <1>15 DEF NestCheck
  <2>3. BackInTask => main'.nest = 0 /\ main'.task = main.task /\ main'.verdict = main.verdict
                      /\ main'.pc = "body"
    BY DEF BackInTask
  <2>4. ASSUME NEW p \in {"nestReserve", "nestLine"}, Pc(p)
        PROVE  main'.nest = main.nest /\ main'.task = main.task /\ main'.verdict = main.verdict
               /\ main'.pc = p
    BY <2>4
  <2> HIDE DEF Formed, Pc, BackInTask
  <2> QED BY <2>1, <2>2, <2>3, <2>4
<1>16. CASE NestLine
  BY <1>16 DEF NestLine, Queue, Write
<1>17. CASE NestRest
  BY <1>17 DEF NestRest, LastNested, Queue, Write
<1>18. CASE NestQueue
  BY <1>18 DEF NestQueue, NestOn, LastNested, Queue, Write
<1>19. CASE NestReserve
  BY <1>19 DEF NestReserve
<1>20. CASE NestEnds
  <2>1. main.pc = "nestBody" /\ end' = end
    BY <1>20 DEF NestEnds
  <2>2. CASE \E v \in {"ok", "fail"} :
               main' = [main EXCEPT !.pc = "nestFill", !.verdict = v]
    <3>1. main'.nest = main.nest /\ main'.task = main.task /\ main'.verdict \in {"ok", "fail"}
          /\ main'.pc = "nestFill"
      BY <2>2
    <3> HIDE DEF Formed
    <3> QED BY <2>1, <3>1
  <2>3. CASE main' = [main EXCEPT !.pc = "leaving", !.nest = 0, !.verdict = "panic"]
    <3>1. main'.nest = 0 /\ main'.task = main.task /\ main'.verdict = "panic" /\ main'.pc = "leaving"
      BY <2>3
    <3> HIDE DEF Formed
    <3> QED BY <2>1, <3>1
  <2> QED BY <1>20, <2>2, <2>3 DEF NestEnds
<1>21. CASE NestFill
  <2>1. main.pc = "nestFill" /\ end' = end
    BY <1>21 DEF NestFill
  <2>2. NestOn \/ main' = [main EXCEPT !.pc = "nestQueue"]
    BY <1>21 DEF NestFill
  <2>3. CASE NestOn
    <3>1. /\ main'.task = main.task /\ main'.verdict = main.verdict
          /\ \/ main'.nest = 0 /\ main'.pc = "body"
             \/ main'.nest = main.nest + 1 /\ main'.pc \in {"nestCheck", "nestRest"}
      BY <2>3 DEF NestOn
    <3> HIDE DEF Formed
    <3> QED BY <2>1, <3>1
  <2>4. CASE main' = [main EXCEPT !.pc = "nestQueue"]
    <3>1. main'.nest = main.nest /\ main'.task = main.task /\ main'.verdict = main.verdict
          /\ main'.pc = "nestQueue"
      BY <2>4
    <3> HIDE DEF Formed
    <3> QED BY <2>1, <3>1
  <2> QED BY <2>2, <2>3, <2>4
<1>22. CASE Leave
  BY <1>22 DEF Leave
<1>23. CASE Settle
  BY <1>23, DrainMoves DEF Settle
<1>24. ASSUME NEW d \in Drainers, StopFrame(d) PROVE Along'
  BY <1>24, DrainMoves DEF StopFrame
<1>25. ASSUME NEW d \in Drainers, Erase(d) PROVE Along'
  BY <1>25, DrainMoves DEF Erase
<1>26. ASSUME NEW d \in Drainers, WriteResult(d) PROVE Along'
  BY <1>26, DrainMoves DEF WriteResult, Write
<1>27. ASSUME NEW d \in Drainers, Take(d) PROVE Along'
  BY <1>27 DEF Take
<1>28. ASSUME NEW d \in Drainers, WriteTaken(d) PROVE Along'
  BY <1>28 DEF WriteTaken, Write
<1>29. CASE Tick
  BY <1>29 DEF Tick
<1>30. CASE Redraw
  BY <1>30 DEF Redraw
<1>31. CASE TickerStops
  BY <1>31 DEF TickerStops
<1>32. CASE Deliver
  BY <1>32 DEF Deliver
<1>33. CASE WatchSees
  BY <1>33 DEF WatchSees
<1>34. CASE WatchQuits
  BY <1>34 DEF WatchQuits
<1>35. CASE WatchSecond
  BY <1>35 DEF WatchSecond
<1>36. CASE DieOfSecond
  BY <1>36 DEF DieOfSecond
<1>37. CASE Interrupt
  BY <1>37, DrainMoves DEF Interrupt, TakeOver
<1>38. CASE Wake
  BY <1>38, DrainMoves DEF Wake, TakeOver
<1>39. CASE InterruptDrained
  BY <1>39, DrainMoves DEF InterruptDrained
<1>40. CASE DieOfFirst
  BY <1>40 DEF DieOfFirst
<1>41. CASE Stall
  BY <1>41 DEF Stall
<1> QED BY <1>1, <1>2, <1>3, <1>4, <1>5, <1>6, <1>7, <1>8, <1>9, <1>10, <1>11, <1>12,
           <1>13, <1>14, <1>15, <1>16, <1>17, <1>18, <1>19, <1>20, <1>21, <1>22, <1>23,
           <1>24, <1>25, <1>26, <1>27, <1>28, <1>29, <1>30, <1>31, <1>32, <1>33, <1>34,
           <1>35, <1>36, <1>37, <1>38, <1>39, <1>40, <1>41
       DEF Next, Owner, Between, Body, Drain, Watcher, Interrupter, Drainers

(* How a step goes on in the list: no task is ended, or the one whose line is *)
(* written is left.                                                          *)
Turn ==
  \/ main'.task = main.task /\ (Resulted' <=> Resulted)
  \/ main'.task = main.task + 1 /\ Resulted /\ ~Resulted'

(* The steps that write no line of the list itself.                          *)
Going == \/ Quiet \/ Say \/ NestLine \/ NestQueue \/ NestRest \/ NestReserve \/ NestFill
         \/ WriteStart \/ \E d \in Drainers : Take(d) \/ WriteTaken(d)

(* Such a step goes on in the list.                                         *)
LEMMA TurnStep ==
  ASSUME Formed, Owned, Gated, Listed, Along, Going
  PROVE  Turn
<1> USE BoundsAssumption
<1> USE DEF Formed, MainFields, SigFields, InBody, Begun, Starting, Working, InTask,
            Owned, Gated, Listed, Along, At, Pc, Others, DrainAt, BackInTask, Drainers,
            Past, Resulted, Turn
<1>1. CASE UNCHANGED vars
  BY <1>1 DEF vars
<1>2. CASE NoLog
  BY <1>2 DEF NoLog
<1>3. CASE Claim
  BY <1>3 DEF Claim
<1>4. CASE AllRun
  BY <1>4 DEF AllRun
<1>5. CASE WriteStart
  BY <1>5 DEF WriteStart, Write
<1>6. CASE OpenGate
  BY <1>6 DEF OpenGate
<1>7. CASE StartFrame
  BY <1>7 DEF StartFrame
<1>8. CASE Publish
  BY <1>8 DEF Publish
<1>9. CASE StopWatching
  BY <1>9 DEF StopWatching
<1>10. CASE Return
  BY <1>10 DEF Return
<1>11. CASE Say
  BY <1>11 DEF Say, Queue, Write
<1>12. CASE TaskEnds
  BY <1>12 DEF TaskEnds
<1>13. CASE CallRun
  BY <1>13 DEF CallRun
<1>14. CASE NestCheck
  BY <1>14 DEF NestCheck, BackInTask
<1>15. CASE NestLine
  BY <1>15 DEF NestLine, Queue, Write
<1>16. CASE NestRest
  BY <1>16 DEF NestRest, LastNested, Queue, Write
<1>17. CASE NestQueue
  BY <1>17 DEF NestQueue, NestOn, LastNested, Queue, Write
<1>18. CASE NestReserve
  BY <1>18 DEF NestReserve
<1>19. CASE NestEnds
  BY <1>19 DEF NestEnds
<1>20. CASE NestFill
  BY <1>20 DEF NestFill, NestOn, LastNested
<1>21. CASE Leave
  <2>1. main.pc = "leaving" /\ main'.task = main.task /\ main.pc \in Working
    BY <1>21 DEF Leave
  <2>2. CASE run.state = "interrupted"
    <3>1. UNCHANGED <<run, drain>> /\ main'.pc = "parked"
      BY <1>21, <2>2 DEF Leave
    <3> HIDE DEF Formed
    <3> QED BY <2>1, <2>2, <3>1
  <2>3. CASE run.state # "interrupted"
    <3>1. DrainTo("main", DrainFrom) /\ run'.state = "draining" /\ main'.pc = "draining"
      BY <1>21, <2>3 DEF Leave, DrainTo
    <3>2. drain'["main"].at \in {"stop", "result"} /\ drain'["interrupt"] = drain["interrupt"]
      BY <3>1, DrainMoves DEF DrainFrom
    <3>3. drain["main"].at = "no" /\ drain["interrupt"].at = "no"
      BY <2>1, <2>3
    <3> HIDE DEF Formed
    <3> QED BY <2>1, <2>3, <3>1, <3>2, <3>3
  <2> QED BY <2>2, <2>3
<1>22. CASE Settle
  BY <1>22, DrainMoves DEF Settle
<1>23. ASSUME NEW d \in Drainers, StopFrame(d) PROVE Turn
  BY <1>23, DrainMoves DEF StopFrame
<1>24. ASSUME NEW d \in Drainers, Erase(d) PROVE Turn
  BY <1>24, DrainMoves DEF Erase
<1>25. ASSUME NEW d \in Drainers, Take(d) PROVE Turn
  BY <1>25 DEF Take
<1>26. ASSUME NEW d \in Drainers, WriteTaken(d) PROVE Turn
  BY <1>26 DEF WriteTaken, Write
<1>27. CASE Tick
  BY <1>27 DEF Tick
<1>28. CASE Redraw
  BY <1>28 DEF Redraw
<1>29. CASE TickerStops
  BY <1>29 DEF TickerStops
<1>30. CASE Deliver
  BY <1>30 DEF Deliver
<1>31. CASE WatchSees
  BY <1>31 DEF WatchSees
<1>32. CASE WatchQuits
  BY <1>32 DEF WatchQuits
<1>33. CASE WatchSecond
  BY <1>33 DEF WatchSecond
<1>34. CASE DieOfSecond
  BY <1>34 DEF DieOfSecond
<1>35. CASE Interrupt
  <2>1. main' = main /\ drain["interrupt"].at = "no"
    BY <1>35 DEF Interrupt
  <2>2. CASE drain' = drain /\ run'.state = run.state
    BY <2>1, <2>2
  <2>3. CASE TakeOver /\ run.state \in {"running", "closed", "interrupted"}
    <3>1. run'.state = "interrupted"
      BY <2>3 DEF TakeOver
    <3>2. CASE run.state = "running"
      <4>1. DrainTo("interrupt", DrainFrom)
        BY <2>3, <3>2 DEF TakeOver
      <4>2. drain'["interrupt"].at \in {"stop", "result"} /\ drain'["main"] = drain["main"]
        BY <4>1, DrainMoves DEF DrainFrom
      <4>3. drain["main"].at = "no" /\ main.pc \notin {"stopping", "stopped"}
        BY <3>2
      <4> HIDE DEF Formed
      <4> QED BY <2>1, <3>1, <3>2, <4>2, <4>3
    <3>3. CASE run.state # "running"
      <4>1. drain' = drain /\ run.state # "interrupted" => main.pc \notin Working \cup {"parked"}
        BY <2>3, <3>3 DEF TakeOver
      <4>2. drain' = drain
        BY <2>3, <3>3 DEF TakeOver
      <4> HIDE DEF Formed
      <4> QED BY <2>1, <2>3, <3>1, <3>3, <4>1, <4>2
    <3> QED BY <3>2, <3>3
  <2> QED BY <1>35, <2>2, <2>3 DEF Interrupt, States
<1>36. CASE Wake
  <2>1. main' = main /\ drain["interrupt"].at = "no"
    BY <1>36 DEF Wake
  <2>2. CASE drain' = drain /\ run'.state = run.state
    BY <2>1, <2>2
  <2>3. CASE TakeOver /\ run.state \in {"running", "closed", "interrupted"}
    <3>1. run'.state = "interrupted"
      BY <2>3 DEF TakeOver
    <3>2. CASE run.state = "running"
      <4>1. DrainTo("interrupt", DrainFrom)
        BY <2>3, <3>2 DEF TakeOver
      <4>2. drain'["interrupt"].at \in {"stop", "result"} /\ drain'["main"] = drain["main"]
        BY <4>1, DrainMoves DEF DrainFrom
      <4>3. drain["main"].at = "no" /\ main.pc \notin {"stopping", "stopped"}
        BY <3>2
      <4> HIDE DEF Formed
      <4> QED BY <2>1, <3>1, <3>2, <4>2, <4>3
    <3>3. CASE run.state # "running"
      <4>1. drain' = drain /\ run.state # "interrupted" => main.pc \notin Working \cup {"parked"}
        BY <2>3, <3>3 DEF TakeOver
      <4>2. drain' = drain
        BY <2>3, <3>3 DEF TakeOver
      <4> HIDE DEF Formed
      <4> QED BY <2>1, <2>3, <3>1, <3>3, <4>1, <4>2
    <3> QED BY <3>2, <3>3
  <2> QED BY <1>36, <2>2, <2>3 DEF Wake, States
<1>37. CASE InterruptDrained
  BY <1>37, DrainMoves DEF InterruptDrained
<1>38. CASE DieOfFirst
  BY <1>38 DEF DieOfFirst
<1>39. CASE Stall
  BY <1>39 DEF Stall
<1> QED BY <1>1, <1>2, <1>3, <1>4, <1>5, <1>6, <1>7, <1>8, <1>9, <1>10, <1>11, <1>12,
           <1>13, <1>14, <1>15, <1>16, <1>17, <1>18, <1>19, <1>20, <1>21, <1>22, <1>23,
           <1>24, <1>25, <1>26, <1>27, <1>28, <1>29, <1>30, <1>31, <1>32, <1>33, <1>34,
           <1>35, <1>36, <1>37, <1>38, <1>39
       DEF Going, Quiet, Watcher

(* A line that ends no task.                                                 *)
LEMMA EndsOther ==
  ASSUME Streamed, Ends, Turn, main.task \in Nat, NEW e, \A t \in 1..N : ~Final(e, t),
         Lines' = Lines \/ (e \in Entry /\ Lines' = Append(Lines, e))
  PROVE  Ends'
<1>1. \A t \in 1..N : t < main'.task \/ (t = main'.task /\ Resulted')
                        <=> t < main.task \/ (t = main.task /\ Resulted)
  BY BoundsAssumption DEF Turn
<1>2. CASE Lines' = Lines
  BY <1>1, <1>2 DEF Ends, HasFinal, Final
<1>3. CASE e \in Entry /\ Lines' = Append(Lines, e)
  <2>1. /\ DOMAIN Lines' = DOMAIN Lines \cup {Len(Lines) + 1} /\ Lines'[Len(Lines) + 1] = e
        /\ \A k \in DOMAIN Lines : Lines'[k] = Lines[k]
    BY <1>3, AppendIs DEF Streamed
  <2>2. \A t \in 1..N : \A k \in DOMAIN Lines' : Final(Lines'[k], t)
                           <=> k \in DOMAIN Lines /\ Final(Lines[k], t)
    BY <2>1
  <2>3. \A t \in 1..N : HasFinal(t)' <=> HasFinal(t)
    BY <2>1, <2>2 DEF HasFinal, Final
  <2>4. \A t \in 1..N : \A j, k \in DOMAIN Lines' : Final(Lines'[j], t) /\ Final(Lines'[k], t) => j = k
    BY <2>2 DEF Ends
  <2> QED BY <1>1, <2>3, <2>4 DEF Ends, Final
<1> QED BY <1>2, <1>3

(* The line that ends the task the owner is at.                              *)
LEMMA EndsOwn ==
  ASSUME Streamed, Ends, ~Resulted, main.task \in Nat, NEW e \in Entry, Final(e, main.task),
         Lines' = Append(Lines, e),
         \/ main'.task = main.task /\ Resulted'
         \/ main'.task = main.task + 1 /\ ~Resulted'
  PROVE  Ends'
<1>1. \A t \in 1..N : t < main'.task \/ (t = main'.task /\ Resulted') <=> t < main.task \/ t = main.task
  BY BoundsAssumption
<1> DEFINE z == Len(Lines) + 1
<1>2. /\ DOMAIN Lines' = DOMAIN Lines \cup {z} /\ Lines'[z] = e
      /\ \A k \in DOMAIN Lines : Lines'[k] = Lines[k]
  BY AppendIs DEF Streamed
<1> HIDE DEF z
<1>3. \A t \in 1..N : HasFinal(t) <=> t < main.task
  BY DEF Ends
<1>4. \A t \in 1..N : Final(e, t) <=> t = main.task
  BY DEF Final
<1>5. \A t \in 1..N : HasFinal(t)' <=> HasFinal(t) \/ t = main.task
  BY <1>2, <1>4 DEF HasFinal, Final
<1>6. ~ \E k \in DOMAIN Lines : main.task \in 1..N /\ Final(Lines[k], main.task)
  BY <1>3, BoundsAssumption DEF HasFinal
<1>7. \A t \in 1..N : \A j, k \in DOMAIN Lines' : Final(Lines'[j], t) /\ Final(Lines'[k], t) => j = k
  <2> SUFFICES ASSUME NEW t \in 1..N, NEW j \in DOMAIN Lines', NEW k \in DOMAIN Lines',
                      Final(Lines'[j], t), Final(Lines'[k], t)
               PROVE  j = k
    OBVIOUS
  <2>1. CASE t = main.task
    BY <1>2, <1>6, <2>1
  <2>2. CASE t # main.task
    <3>1. j \in DOMAIN Lines /\ k \in DOMAIN Lines
      BY <1>2, <1>4, <2>2
    <3> QED BY <1>2, <3>1 DEF Ends
  <2> QED BY <2>1, <2>2
<1> QED BY <1>1, <1>3, <1>5, <1>7 DEF Ends, Final

(* A step that only writes, or adds a line of a task inside or a message.    *)
LEMMA AddsQueues ==
  ASSUME Streamed, Queues, NEW e \in Entry, e.nest = 0 => e.kind = "message",
         \/ Queued' = Append(Queued, e) /\ Lines' = Lines /\ Taken' = Taken
         \/ Queued' = Queued /\ Taken' = Taken
  PROVE  Queues'
<1>1. CASE Queued' = Append(Queued, e) /\ Lines' = Lines /\ Taken' = Taken
  <2>1. \A k \in DOMAIN Queued' : Queued'[k] = e \/ (k \in DOMAIN Queued /\ Queued'[k] = Queued[k])
    BY <1>1, AppendIs DEF Streamed
  <2> QED BY <1>1, <2>1 DEF Queues
<1> QED BY <1>1 DEF Queues

(* Where the owner is while a line is added or written.                      *)
LEMMA WhereIs ==
  ASSUME Formed, Owned, Gated, Listed, Along
  PROVE  /\ NestLine \/ NestQueue \/ NestRest \/ NestReserve \/ NestFill => main.nest > 0
         /\ List => ~Resulted /\ ~Resulted'
         /\ \A d \in Drainers : WriteResult(d) => ~Resulted
         /\ \A d \in Drainers : drain[d].at \in Past => Resulted
<1>1. NestLine \/ NestQueue \/ NestRest \/ NestReserve \/ NestFill => main.nest > 0
  BY DEF NestLine, NestQueue, NestRest, NestReserve, NestFill, At, InBody, Along
<1>2. List => ~Resulted /\ ~Resulted'
  <2> SUFFICES ASSUME List PROVE ~Resulted /\ ~Resulted'
    OBVIOUS
  <2>1. main.pc = "listing" /\ UNCHANGED <<drain, run>> /\ main.verdict # "panic"
    BY DEF List, At, Others, Along
  <2>2. \A d \in Drainers : drain[d].at = "no"
    BY <2>1 DEF Owned, Gated, Drainers, Working, InBody
  <2>3. main'.pc \in {"listing", "stopping"} /\ main'.verdict = main.verdict
    BY <2>1 DEF List, Pc, Formed, MainFields
  <2> QED BY <2>1, <2>2, <2>3 DEF Resulted, Past, Drainers, Working, InBody
<1>3. ASSUME NEW d \in Drainers, WriteResult(d) PROVE ~Resulted
  <2>1. drain[d].at = "result"
    BY <1>3 DEF WriteResult, DrainAt
  <2>2. \A e \in Drainers : e # d => drain[e].at = "no"
    BY <2>1, TakenIs
  <2>3. d = "main" => main.pc = "draining"
    BY <2>1 DEF Owned
  <2>4. d = "interrupt" => main.pc \in Working \cup {"parked"}
    BY <2>1 DEF Gated
  <2> QED BY <2>1, <2>2, <2>3, <2>4 DEF Resulted, Past, Drainers, Working, InBody
<1>4. \A d \in Drainers : drain[d].at \in Past => Resulted
  BY DEF Resulted
<1> QED BY <1>1, <1>2, <1>3, <1>4

(***************************************************************************)
(* Every step keeps one line for every task that has ended.                 *)
(***************************************************************************)
LEMMA CountedStep ==
  ASSUME Formed, Owned, Gated, Listed, Counted, [Next]_vars
  PROVE  Counted'
<1>1. Along'
  BY AlongStep DEF Counted
<1>2. /\ Streamed /\ Ends /\ Queues /\ Along /\ main.task \in Nat
      /\ Lines \in Seq(Entry) /\ Taken \in Seq(Entry) /\ Queued \in Seq(Entry)
  BY DEF Counted, Listed, Streamed
<1>3. Going => Turn
  BY <1>2, TurnStep
<1>4. ASSUME Turn, Lines' = Lines PROVE Ends'
  <2> DEFINE e == [t |-> 0, nest |-> 1, kind |-> "place"]
  <2>1. \A t \in 1..N : ~Final(e, t)
    BY DEF Final
  <2> HIDE DEF e
  <2> QED BY <1>2, <1>4, <2>1, EndsOther
<1>5. ASSUME Same PROVE Queues'
  BY <1>2, <1>5 DEF Same, Queues
<1>6. CASE Quiet
  <2>1. Same
    BY <1>6, QuietIsSame
  <2>2. Turn
    BY <1>3, <1>6 DEF Going
  <2> QED BY <1>1, <1>4, <1>5, <2>1, <2>2 DEF Same, Counted
<1>7. ASSUME NEW e \in Entry, Turn, e.kind # "place", e.kind = "message" \/ e.nest > 0,
             \/ Queued' = Append(Queued, e) /\ Lines' = Lines /\ Taken' = Taken
             \/ Queued' = Queued /\ Taken' = Taken /\ Lines' = Append(Lines, e)
      PROVE  Ends' /\ Queues'
  <2>1. \A t \in 1..N : ~Final(e, t)
    BY <1>7 DEF Final
  <2>2. Ends'
    BY <1>2, <1>7, <2>1, EndsOther
  <2>3. e.nest = 0 => e.kind = "message"
    BY <1>7
  <2>4. Queues'
    BY <1>2, <1>7, <2>3, AddsQueues
  <2> QED BY <2>2, <2>4
<1>8. CASE Say
  <2>1. PICK e \in Entry : e.kind = "message" /\ Adds(e)
    BY <1>2, <1>8, SaidIsEntry, SayAdds DEF Listed
  <2>2. Turn
    BY <1>3, <1>8 DEF Going
  <2> QED BY <1>1, <1>7, <2>1, <2>2 DEF Adds, Writes, Counted
<1>9. CASE NestLine \/ NestQueue \/ NestRest
  <2>1. PICK e : Inside(e) /\ Adds(e)
    BY <1>9, NestAdds
  <2>2. Turn /\ main.nest > 0
    BY <1>2, <1>3, <1>9, WhereIs DEF Going
  <2> QED BY <1>1, <1>7, <2>1, <2>2 DEF Adds, Writes, Inside, Counted
<1>10. CASE NestReserve
  <2>1. Turn /\ main.nest > 0
    BY <1>2, <1>3, <1>10, WhereIs DEF Going
  <2>2. CASE Same
    BY <1>1, <1>4, <1>5, <2>1, <2>2 DEF Same, Counted
  <2>3. ASSUME NEW e \in Entry, e.nest = main.nest, Queued' = Append(Queued, e) /\ Lines' = Lines /\ Taken' = Taken
        PROVE  Counted'
    <3>1. Ends'
      BY <1>4, <2>1, <2>3
    <3>2. Queues'
      BY <1>2, <2>1, <2>3, AddsQueues DEF Listed
    <3> QED BY <1>1, <3>1, <3>2 DEF Counted
  <2> QED BY <1>10, <2>2, <2>3, ReserveAdds
<1>11. CASE NestFill
  <2>1. Turn /\ main.nest > 0
    BY <1>2, <1>3, <1>11, WhereIs DEF Going
  <2>2. CASE Same
    BY <1>1, <1>4, <1>5, <2>1, <2>2 DEF Same, Counted
  <2>3. ASSUME NEW e, Fills(e), Inside(e), e.kind = "result" PROVE Counted'
    <3>1. DOMAIN Queued' = DOMAIN Queued
          /\ \A k \in DOMAIN Queued : Queued'[k] = IF Blank(Queued[k]) THEN e ELSE Queued[k]
      BY <1>2, <2>3, FillsIs DEF Blank
    <3>2. e.nest # 0 /\ Taken' = Taken /\ Lines' = Lines
      BY <2>1, <2>3 DEF Inside, Fills
    <3>3. Queues'
      BY <1>2, <3>1, <3>2 DEF Queues
    <3> QED BY <1>1, <1>4, <2>1, <3>2, <3>3 DEF Counted
  <2> QED BY <1>11, <2>2, <2>3, FillMoves
<1>12. CASE WriteStart
  <2>1. PICK e : Writes(e) /\ e.kind = "start"
    BY <1>12, OwnWrites DEF Own
  <2>2. Turn
    BY <1>3, <1>12 DEF Going
  <2>3. \A t \in 1..N : ~Final(e, t)
    BY <2>1 DEF Final
  <2>4. Ends'
    BY <1>2, <2>1, <2>2, <2>3, EndsOther DEF Writes
  <2> QED BY <1>1, <1>2, <2>1, <2>4 DEF Writes, Queues, Counted
<1>13. CASE List /\ main.task <= N
  <2>1. PICK e : Writes(e) /\ e.t = main.task /\ e.nest = 0 /\ e.kind = "idle"
    BY <1>13, OwnWrites DEF Own
  <2>2. ~Resulted /\ ~Resulted' /\ main'.task = main.task + 1
    <3>1. ~(main.task > N)
      BY <1>2, <1>13, BoundsAssumption
    <3>2. main'.task = main.task + 1
      BY <1>13, <3>1 DEF List, Formed, MainFields
    <3> QED BY <1>2, <1>13, <3>2, WhereIs
  <2>3. Ends'
    BY <1>2, <2>1, <2>2, EndsOwn DEF Writes, Final
  <2> QED BY <1>1, <1>2, <2>1, <2>3 DEF Writes, Queues, Counted
<1>14. ASSUME NEW d \in Drainers, WriteResult(d) PROVE Counted'
  <2>1. PICK e : Writes(e) /\ e.t = main.task /\ e.nest = 0 /\ e.kind = "result"
    BY <1>14, OwnWrites DEF Own
  <2>2. ~Resulted
    BY <1>2, <1>14, WhereIs
  <2>3. main' = main /\ DrainTo(d, "take")
    BY <1>14 DEF WriteResult
  <2>4. Resulted'
    BY <2>3, DrainMoves DEF Resulted, Past
  <2>5. Ends'
    BY <1>2, <2>1, <2>2, <2>3, <2>4, EndsOwn DEF Writes, Final
  <2> QED BY <1>1, <1>2, <2>1, <2>5 DEF Writes, Queues, Counted
<1>15. CASE List /\ main.task > N
  <2>1. Same /\ main'.task = main.task /\ ~Resulted /\ ~Resulted'
    BY <1>2, <1>15, ListEnds, WhereIs DEF Formed, MainFields
  <2> QED BY <1>1, <1>4, <1>5, <2>1 DEF Turn, Same, Counted
<1>16. ASSUME NEW d \in Drainers, Take(d) PROVE Counted'
  <2>1. Takes
    BY <1>16, TakeMoves
  <2>2. PICK f : Thins(f, Batch, Queued)
    BY BatchIs
  <2>3. Turn
    BY <1>3, <1>16 DEF Going
  <2>4. Ends'
    BY <1>4, <2>1, <2>3 DEF Takes
  <2>5. \A k \in DOMAIN Batch : Batch[k].nest = 0 => Batch[k].kind = "message"
    BY <1>2, <2>2 DEF Thins, Queues
  <2>6. Queues'
    BY <2>1, <2>5 DEF Takes, Queues
  <2> QED BY <1>1, <2>4, <2>6 DEF Counted
<1>17. ASSUME NEW d \in Drainers, WriteTaken(d) PROVE Counted'
  <2>1. WritesTaken
    BY <1>17, WriteTakenMoves
  <2>2. /\ Head(Taken) \in Entry /\ Head(Taken) = Taken[1] /\ 1 \in DOMAIN Taken
        /\ \A k \in DOMAIN Tail(Taken) : k + 1 \in DOMAIN Taken /\ Tail(Taken)[k] = Taken[k + 1]
    BY <1>2, <2>1, TailIs DEF WritesTaken
  <2> DEFINE e == Head(Taken)
  <2>3. \A t \in 1..N : ~Final(e, t)
    BY <1>2, <2>2 DEF Final, Queues
  <2>4. Turn
    BY <1>3, <1>17 DEF Going
  <2>5. Ends'
    BY <1>2, <2>1, <2>2, <2>3, <2>4, EndsOther DEF WritesTaken
  <2>6. Queues'
    BY <1>2, <2>1, <2>2 DEF WritesTaken, Queues
  <2> QED BY <1>1, <2>5, <2>6 DEF Counted
<1>18. List => main.task <= N \/ main.task > N
  BY <1>2, BoundsAssumption
<1> QED BY <1>6, <1>8, <1>9, <1>10, <1>11, <1>12, <1>13, <1>14, <1>15, <1>16, <1>17,
           <1>18, StepIs

-----------------------------------------------------------------------------
(* The result of a task inside, and its messages.                            *)

(* The tasks a sequence has messages of.                                     *)
LEMMA InnerIs ==
  ASSUME NEW s, NEW h
  PROVE  h \in Inner(s) <=> \E k \in DOMAIN s : s[k].kind = "message" /\ s[k].nest = h
BY DEF Inner

(* A message appended adds its task to them, and another line none.          *)
LEMMA InnerAppend ==
  ASSUME NEW s \in Seq(Entry), NEW e \in Entry
  PROVE  /\ e.kind = "message" => Inner(Append(s, e)) = Inner(s) \cup {e.nest}
         /\ e.kind # "message" => Inner(Append(s, e)) = Inner(s)
<1> DEFINE r == Append(s, e)
<1> DEFINE z == Len(s) + 1
<1>1. DOMAIN r = DOMAIN s \cup {z} /\ r[z] = e /\ \A k \in DOMAIN s : r[k] = s[k]
  BY AppendIs
<1> HIDE DEF r, z
<1>2. ASSUME NEW h PROVE h \in Inner(r) <=> h \in Inner(s) \/ (e.kind = "message" /\ e.nest = h)
  BY <1>1, InnerIs
<1>3. e.kind = "message" => Inner(r) = Inner(s) \cup {e.nest}
  BY <1>2
<1>4. e.kind # "message" => Inner(r) = Inner(s)
  BY <1>2
<1> QED BY <1>3, <1>4 DEF r

(* What is taken off the front is one of them.                               *)
LEMMA InnerTail ==
  ASSUME NEW s \in Seq(Entry), s # <<>>
  PROVE  /\ Inner(Tail(s)) \subseteq Inner(s)
         /\ Head(s).kind = "message" => Head(s).nest \in Inner(s)
<1> DEFINE r == Tail(s)
<1>1. /\ Head(s) = s[1] /\ 1 \in DOMAIN s
      /\ \A k \in DOMAIN r : k + 1 \in DOMAIN s /\ r[k] = s[k + 1]
  BY TailIs
<1> HIDE DEF r
<1>2. \A h : h \in Inner(r) => h \in Inner(s)
  BY <1>1, InnerIs
<1>3. Head(s).kind = "message" => Head(s).nest \in Inner(s)
  BY <1>1, InnerIs
<1> QED BY <1>2, <1>3 DEF r

(* A batch has no others than the queue.                                     *)
LEMMA InnerThinned ==
  ASSUME NEW s, NEW r, NEW f, Thins(f, r, s)
  PROVE  Inner(r) \subseteq Inner(s)
<1>1. \A k \in DOMAIN r : f[k] \in DOMAIN s /\ r[k] = s[f[k]]
  BY DEF Thins
<1>2. \A h : h \in Inner(r) => h \in Inner(s)
  BY <1>1, InnerIs
<1> QED BY <1>2

(* The result that fills a place is no message.                              *)
LEMMA InnerFilled ==
  ASSUME NEW s, NEW r, NEW e, e.kind = "result", DOMAIN r = DOMAIN s,
         \A k \in DOMAIN s : r[k] = IF Blank(s[k]) THEN e ELSE s[k]
  PROVE  Inner(r) = Inner(s)
<1>1. \A k \in DOMAIN s : /\ r[k].kind = "message" <=> s[k].kind = "message"
                          /\ r[k].kind = "message" => r[k] = s[k]
  BY DEF Blank
<1>2. \A h : h \in Inner(r) <=> h \in Inner(s)
  BY <1>1, InnerIs
<1> QED BY <1>2

(* A line appended to a sequence, and to one of two.                         *)
LEMMA PairAppend ==
  ASSUME NEW s \in Seq(Entry), NEW e \in Entry, NEW r
  PROVE  /\ Apart(s) /\ (\A j \in DOMAIN s : ~Pair(s[j], e)) => Apart(Append(s, e))
         /\ Before(r, s) /\ (\A j \in DOMAIN r : ~Pair(r[j], e)) => Before(r, Append(s, e))
         /\ Before(s, r) /\ (\A j \in DOMAIN r : ~Pair(e, r[j])) => Before(Append(s, e), r)
<1> DEFINE q == Append(s, e)
<1> DEFINE z == Len(s) + 1
<1>1. /\ DOMAIN q = DOMAIN s \cup {z} /\ q[z] = e /\ z \in Nat
      /\ \A k \in DOMAIN s : q[k] = s[k] /\ k < z /\ k \in Nat
  BY AppendIs
<1> HIDE DEF q, z
<1>2. Apart(s) /\ (\A j \in DOMAIN s : ~Pair(s[j], e)) => Apart(q)
  BY <1>1 DEF Apart
<1>3. Before(r, s) /\ (\A j \in DOMAIN r : ~Pair(r[j], e)) => Before(r, q)
  BY <1>1 DEF Before
<1>4. Before(s, r) /\ (\A j \in DOMAIN r : ~Pair(e, r[j])) => Before(q, r)
  BY <1>1 DEF Before
<1> QED BY <1>2, <1>3, <1>4 DEF q

(* A message has no result after it in the queue it is appended to, and a    *)
(* start, an idle line or a place is of no pair.                             *)
LEMMA PairOf ==
  ASSUME NEW a, NEW b
  PROVE  /\ b.kind # "result" => ~Pair(a, b)
         /\ a.kind # "message" => ~Pair(a, b)
         /\ b.nest = 0 /\ b.nest \in Nat => ~Pair(a, b)
BY DEF Pair

(***************************************************************************)
(* The numbers of the tasks inside only go up, and a task that was          *)
(* interrupted stays so.                                                    *)
(***************************************************************************)
Onward ==
  /\ main'.nest <= M * main'.nested /\ Latest \in Nat /\ Latest' \in Nat /\ Latest <= Latest'
  /\ main'.pc \in New => (main.pc \in New /\ main'.nest = main.nest) \/ main'.nest > Latest
  /\ run.state = "interrupted" => run'.state = "interrupted"

(* Every step goes on in the numbers.                                       *)
LEMMA OnwardStep ==
  ASSUME Formed, Owned, Counts, Along, main.nest <= M * main.nested,
         M * main.nested \in Nat, [Next]_vars
  PROVE  Onward
<1> USE BoundsAssumption
<1> USE DEF Formed, MainFields, New, Latest, Onward, InBody, Begun, Starting, Working,
            InTask, Owned, Along, At, Pc, Others, DrainAt, BackInTask, Drainers, Counts
<1>1. CASE UNCHANGED vars
  BY <1>1 DEF vars
<1>2. CASE NoLog
  BY <1>2 DEF NoLog
<1>3. CASE Claim
  BY <1>3 DEF Claim
<1>4. CASE AllRun
  BY <1>4 DEF AllRun
<1>5. CASE WriteStart
  BY <1>5 DEF WriteStart, Write
<1>6. CASE List
  BY <1>6 DEF List, Write
<1>7. CASE OpenGate
  BY <1>7 DEF OpenGate
<1>8. CASE StartFrame
  BY <1>8 DEF StartFrame
<1>9. CASE Publish
  BY <1>9 DEF Publish
<1>10. CASE StopWatching
  BY <1>10 DEF StopWatching
<1>11. CASE Return
  BY <1>11 DEF Return
<1>12. CASE Say
  BY <1>12 DEF Say, Queue, Write
<1>13. CASE TaskEnds
  BY <1>13 DEF TaskEnds
<1>14. CASE CallRun
  BY <1>14 DEF CallRun
<1>15. CASE NestCheck
  <2>1. main.pc = "nestCheck" /\ run' = run
    BY <1>15 DEF NestCheck
  <2>2. BackInTask \/ \E p \in {"nestReserve", "nestLine"} : Pc(p)
    BY <1>15 DEF NestCheck
  <2>3. BackInTask => main'.nest = 0 /\ main'.nested = main.nested
                      /\ main'.pc = "body"
    BY DEF BackInTask
  <2>4. ASSUME NEW p \in {"nestReserve", "nestLine"}, Pc(p)
        PROVE  main'.nest = main.nest /\ main'.nested = main.nested
               /\ main'.pc = p
    BY <2>4
  <2> HIDE DEF Formed, Pc, BackInTask
  <2> QED BY <2>1, <2>2, <2>3, <2>4
<1>16. CASE NestLine
  BY <1>16 DEF NestLine, Queue, Write
<1>17. CASE NestRest
  BY <1>17 DEF NestRest, LastNested, Queue, Write
<1>18. CASE NestQueue
  BY <1>18 DEF NestQueue, NestOn, LastNested, Queue, Write
<1>19. CASE NestReserve
  BY <1>19 DEF NestReserve
<1>20. CASE NestEnds
  <2>1. main.pc = "nestBody" /\ run' = run
    BY <1>20 DEF NestEnds
  <2>2. CASE \E v \in {"ok", "fail"} :
               main' = [main EXCEPT !.pc = "nestFill", !.verdict = v]
    <3>1. main'.nest = main.nest /\ main'.nested = main.nested
          /\ main'.pc = "nestFill"
      BY <2>2
    <3> HIDE DEF Formed
    <3> QED BY <2>1, <3>1
  <2>3. CASE main' = [main EXCEPT !.pc = "leaving", !.nest = 0, !.verdict = "panic"]
    <3>1. main'.nest = 0 /\ main'.nested = main.nested /\ main'.pc = "leaving"
      BY <2>3
    <3> HIDE DEF Formed
    <3> QED BY <2>1, <3>1
  <2> QED BY <1>20, <2>2, <2>3 DEF NestEnds
<1>21. CASE NestFill
  <2>1. main.pc = "nestFill" /\ run' = run
    BY <1>21 DEF NestFill
  <2>2. NestOn \/ main' = [main EXCEPT !.pc = "nestQueue"]
    BY <1>21 DEF NestFill
  <2>3. CASE NestOn
    <3>1. /\ main'.nested = main.nested
          /\ \/ main'.nest = 0 /\ main'.pc = "body"
             \/ /\ main'.nest = main.nest + 1 /\ main'.pc \in {"nestCheck", "nestRest"}
                /\ main.nest # M * main.nested
      BY <2>3 DEF NestOn, LastNested
    <3> HIDE DEF Formed
    <3> QED BY <2>1, <3>1
  <2>4. CASE main' = [main EXCEPT !.pc = "nestQueue"]
    <3>1. main'.nest = main.nest /\ main'.nested = main.nested /\ main'.pc = "nestQueue"
      BY <2>4
    <3> HIDE DEF Formed
    <3> QED BY <2>1, <3>1
  <2> QED BY <2>2, <2>3, <2>4
<1>22. CASE Leave
  BY <1>22 DEF Leave
<1>23. CASE Settle
  BY <1>23, DrainMoves DEF Settle
<1>24. ASSUME NEW d \in Drainers, StopFrame(d) PROVE Onward
  BY <1>24, DrainMoves DEF StopFrame
<1>25. ASSUME NEW d \in Drainers, Erase(d) PROVE Onward
  BY <1>25, DrainMoves DEF Erase
<1>26. ASSUME NEW d \in Drainers, WriteResult(d) PROVE Onward
  BY <1>26, DrainMoves DEF WriteResult, Write
<1>27. ASSUME NEW d \in Drainers, Take(d) PROVE Onward
  BY <1>27 DEF Take
<1>28. ASSUME NEW d \in Drainers, WriteTaken(d) PROVE Onward
  BY <1>28 DEF WriteTaken, Write
<1>29. CASE Tick
  BY <1>29 DEF Tick
<1>30. CASE Redraw
  BY <1>30 DEF Redraw
<1>31. CASE TickerStops
  BY <1>31 DEF TickerStops
<1>32. CASE Deliver
  BY <1>32 DEF Deliver
<1>33. CASE WatchSees
  BY <1>33 DEF WatchSees
<1>34. CASE WatchQuits
  BY <1>34 DEF WatchQuits
<1>35. CASE WatchSecond
  BY <1>35 DEF WatchSecond
<1>36. CASE DieOfSecond
  BY <1>36 DEF DieOfSecond
<1>37. CASE Interrupt
  BY <1>37, DrainMoves DEF Interrupt, TakeOver
<1>38. CASE Wake
  BY <1>38, DrainMoves DEF Wake, TakeOver
<1>39. CASE InterruptDrained
  BY <1>39, DrainMoves DEF InterruptDrained
<1>40. CASE DieOfFirst
  BY <1>40 DEF DieOfFirst
<1>41. CASE Stall
  BY <1>41 DEF Stall
<1> QED BY <1>1, <1>2, <1>3, <1>4, <1>5, <1>6, <1>7, <1>8, <1>9, <1>10, <1>11, <1>12,
           <1>13, <1>14, <1>15, <1>16, <1>17, <1>18, <1>19, <1>20, <1>21, <1>22, <1>23,
           <1>24, <1>25, <1>26, <1>27, <1>28, <1>29, <1>30, <1>31, <1>32, <1>33, <1>34,
           <1>35, <1>36, <1>37, <1>38, <1>39, <1>40, <1>41
       DEF Next, Owner, Between, Body, Drain, Watcher, Interrupter, Drainers

(* A quiet step brings no one to a task inside.                              *)
LEMMA QuietRoom ==
  ASSUME Formed, Owned, Quiet
  PROVE  /\ main'.pc \in {"nestBody", "nestFill"} =>
              main.pc \in {"nestBody", "nestFill"} /\ main'.nest = main.nest
         /\ main'.pc = "nestQueue" => main.pc = "nestQueue"
<1> USE DEF Formed, MainFields, At, Others, Pc
<1>1. CASE NoLog \/ Claim \/ OpenGate \/ StartFrame \/ Publish \/ AllRun \/ StopWatching
  BY <1>1 DEF NoLog, Claim, OpenGate, StartFrame, Publish, AllRun, StopWatching
<1>2. CASE Return
  BY <1>2 DEF Return
<1>3. CASE TaskEnds \/ CallRun
  BY <1>3 DEF TaskEnds, CallRun
<1>4. CASE NestCheck
  <2>1. main'.pc \in {"body", "nestReserve", "nestLine"}
    BY <1>4 DEF NestCheck, BackInTask
  <2> QED BY <2>1
<1>5. CASE NestEnds
  <2>1. CASE main' = [main EXCEPT !.pc = "leaving", !.nest = 0, !.verdict = "panic"]
    BY <2>1
  <2>2. CASE \E v \in {"ok", "fail"} :
               main' = [main EXCEPT !.pc = "nestFill", !.verdict = v]
    <3>1. main'.nest = main.nest /\ main'.pc = "nestFill" /\ main.pc = "nestBody"
      BY <1>5, <2>2 DEF NestEnds
    <3> QED BY <3>1
  <2> QED BY <1>5, <2>1, <2>2 DEF NestEnds
<1>6. CASE Leave
  BY <1>6 DEF Leave
<1>7. CASE Settle
  <2>1. main'.pc \in {"next", "listing", "stopping"}
    BY <1>7 DEF Settle, Owned
  <2> QED BY <2>1
<1>8. CASE \E d \in Drainers : StopFrame(d) \/ Erase(d)
  BY <1>8 DEF StopFrame, Erase
<1>9. CASE Tick \/ Redraw \/ TickerStops \/ Stall \/ UNCHANGED vars
  BY <1>9 DEF Tick, Redraw, TickerStops, Stall, vars
<1>10. CASE Deliver \/ Watcher
  BY <1>10 DEF Deliver, Watcher, WatchSees, WatchQuits, WatchSecond, DieOfSecond
<1>11. CASE Interrupt \/ Wake \/ InterruptDrained \/ DieOfFirst
  BY <1>11 DEF Interrupt, Wake, InterruptDrained, DieOfFirst
<1> QED BY <1>1, <1>2, <1>3, <1>4, <1>5, <1>6, <1>7, <1>8, <1>9, <1>10, <1>11 DEF Quiet

(* The numbers, when what was said is the same or has one message more.      *)
LEMMA NumberedStep ==
  ASSUME Listed, Numbered, Onward, main.nest \in Nat,
         Heard' \subseteq Heard \/ (/\ Heard' \subseteq Heard \cup {main.nest}
                                    /\ main'.nest = main.nest /\ main'.pc \notin New)
  PROVE  Numbered'
<1>1. \A h \in Heard : h \in Nat
  <2>1. /\ \A k \in DOMAIN Lines : Lines[k].nest \in Nat
        /\ \A k \in DOMAIN Taken : Taken[k].nest \in Nat
        /\ \A k \in DOMAIN Queued : Queued[k].nest \in Nat
    <3>1. ASSUME NEW s \in Seq(Entry), NEW k \in DOMAIN s PROVE s[k].nest \in Nat
      <4>1. s[k] \in Entry
        OBVIOUS
      <4> QED BY <4>1 DEF Entry
    <3> QED BY <3>1 DEF Listed, Streamed
  <2> QED BY <2>1 DEF Heard, Inner
<1>2. Latest \in Nat /\ Latest' \in Nat /\ Latest <= Latest'
  BY DEF Onward
<1>3. main'.nest = main.nest => main.nest <= Latest'
  BY <1>2 DEF Latest, Onward
<1>4. \A h \in Heard' : h <= Latest'
  BY <1>1, <1>2, <1>3 DEF Numbered
<1>5. main'.pc \in New => main'.nest \notin Heard'
  BY <1>1, <1>2 DEF Numbered, Onward
<1> QED BY <1>4, <1>5 DEF Numbered, Onward

(***************************************************************************)
(* Every step keeps the result of a task inside ahead of its messages.      *)
(***************************************************************************)
LEMMA PlacedStep ==
  ASSUME Formed, Owned, Gated, Listed, Counted, Placed, [Next]_vars
  PROVE  Placed'
<1>1. /\ Streamed /\ Along /\ Numbered /\ Counts /\ main.nest \in Nat
      /\ Lines \in Seq(Entry) /\ Taken \in Seq(Entry) /\ Queued \in Seq(Entry)
  BY DEF Counted, Placed, Listed, Streamed, Counts
<1>2. Onward
  <2>1. M * main.nested \in Nat
    BY <1>1, BoundsAssumption DEF Counts
  <2> QED BY <1>1, <2>1, OnwardStep DEF Numbered
<1>3. ASSUME Heard' \subseteq Heard PROVE Numbered'
  BY <1>1, <1>2, <1>3, NumberedStep
<1>4. run'.state # "interrupted" => run.state # "interrupted"
  BY <1>2 DEF Onward
<1>5. ASSUME Same, main'.pc \in {"nestBody", "nestFill"} =>
                     main.pc \in {"nestBody", "nestFill"} /\ main'.nest = main.nest,
             run'.state # "interrupted" => main'.pc # "nestQueue"
      PROVE  Placed'
  <2>1. Heard' = Heard
    BY <1>5 DEF Same, Heard
  <2>2. Ordered => Ordered'
    BY <1>5 DEF Same, Ordered, Apart, Before
  <2>3. Roomed => Roomed'
    BY <1>5 DEF Same, Roomed
  <2> QED BY <1>3, <1>4, <1>5, <2>1, <2>2, <2>3 DEF Placed
<1>6. CASE Quiet
  BY <1>4, <1>5, <1>6, QuietIsSame, QuietRoom DEF Placed
<1>7. CASE Say
  <2> DEFINE e == Said(main.said + 1)
  <2>1. e \in Entry /\ e.kind = "message" /\ e.nest = main.nest
    BY <1>1, SaidIsEntry DEF Counts
  <2>2. /\ Adds(e) /\ main'.pc = main.pc /\ main'.nest = main.nest
        /\ main.pc \in {"body", "nestBody"} /\ run' = run
    BY <1>7, SayAdds DEF Say, Formed, MainFields
  <2> HIDE DEF e
  <2>3. Numbered'
    <3>1. Heard' \subseteq Heard \cup {main.nest}
      <4>1. CASE Queued' = Append(Queued, e) /\ Lines' = Lines /\ Taken' = Taken
        BY <1>1, <2>1, <4>1, InnerAppend DEF Heard
      <4>2. CASE Writes(e)
        BY <1>1, <2>1, <4>2, InnerAppend DEF Heard, Writes
      <4> QED BY <2>2, <4>1, <4>2 DEF Adds
    <3>2. main'.pc \notin New
      BY <2>2 DEF New
    <3> QED BY <1>1, <1>2, <2>2, <3>1, <3>2, NumberedStep
  <2>4. ASSUME run.state # "interrupted" PROVE Ordered' /\ Roomed'
    <3>1. Queued' = Append(Queued, e) /\ Lines' = Lines /\ Taken' = Taken
      <4>1. gate.open
        BY <2>2, <2>4 DEF Owned, Gated, Working, InBody
      <4> QED BY <2>2, <4>1 DEF Adds
    <3>2. \A a : ~Pair(a, e)
      BY <2>1, PairOf
    <3>3. Ordered'
      BY <1>1, <2>1, <2>4, <3>1, <3>2, PairAppend DEF Placed, Ordered
    <3>4. Roomed'
      <4>1. DOMAIN Queued' = DOMAIN Queued \cup {Len(Queued) + 1}
            /\ \A k \in DOMAIN Queued : Queued'[k] = Queued[k] /\ k < Len(Queued) + 1 /\ k \in Nat
        BY <1>1, <2>1, <3>1, AppendIs
      <4>2. Len(Queued) + 1 \in Nat
        BY <1>1
      <4> QED BY <2>2, <2>4, <3>1, <4>1, <4>2 DEF Placed, Roomed
    <3> QED BY <3>3, <3>4
  <2> QED BY <2>2, <2>3, <2>4 DEF Placed
<1>8. ASSUME NEW e \in Entry, e.kind \notin {"message", "result"},
             \/ Queued' = Append(Queued, e) /\ Lines' = Lines /\ Taken' = Taken
             \/ Lines' = Append(Lines, e) /\ Queued' = Queued /\ Taken' = Taken
      PROVE  Numbered' /\ (Ordered => Ordered')
  <2>1. Heard' = Heard
    BY <1>1, <1>8, InnerAppend DEF Heard
  <2>2. \A a : ~Pair(a, e) /\ ~Pair(e, a)
    BY <1>8, PairOf
  <2>3. Ordered => Ordered'
    BY <1>1, <1>8, <2>2, PairAppend DEF Ordered
  <2> QED BY <1>3, <2>1, <2>3
<1>9. CASE NestLine \/ NestRest
  <2>1. PICK e : Inside(e) /\ Adds(e) /\ (e.kind = "result" => NestQueue)
    BY <1>9, NestAdds
  <2>2. main.pc \in {"nestLine", "nestRest"} /\ ~NestQueue
    BY <1>9 DEF NestLine, NestRest, NestQueue, At
  <2>3. Numbered' /\ (Ordered => Ordered')
    BY <1>8, <2>1, <2>2 DEF Inside, Adds, Writes
  <2>4. main'.pc \in {"nestReserve", "nestRest", "body"}
    BY <1>9 DEF NestLine, NestRest, Pc, Formed, MainFields, At
  <2> QED BY <1>4, <2>3, <2>4 DEF Placed, Roomed
<1>10. CASE NestQueue
  <2>1. main.pc = "nestQueue" /\ run.state = "interrupted"
    BY <1>10 DEF NestQueue, At, Placed
  <2>2. PICK e : Inside(e) /\ Adds(e)
    BY <1>10, NestAdds
  <2>3. Heard' = Heard
    BY <1>1, <2>2, InnerAppend DEF Heard, Inside, Adds, Writes
  <2> QED BY <1>3, <1>4, <2>1, <2>3 DEF Placed
<1>11. CASE NestReserve
  <2>1. /\ main.pc = "nestReserve" /\ main'.pc = "nestBody" /\ main'.nest = main.nest
        /\ run' = run
    BY <1>11, ReserveAdds DEF Formed, MainFields, NestReserve, Others
  <2>2. CASE ~gate.open /\ Same
    <3>1. run.state = "interrupted"
      BY <2>1, <2>2 DEF Owned, Gated, Working, InBody
    <3>2. Heard' = Heard
      BY <2>2 DEF Same, Heard
    <3> QED BY <1>3, <1>4, <3>1, <3>2 DEF Placed
  <2>3. ASSUME NEW e \in Entry, Blank(e), Queued' = Append(Queued, e) /\ Lines' = Lines /\ Taken' = Taken
        PROVE  Placed'
    <3>1. Numbered' /\ (Ordered => Ordered')
      BY <1>8, <2>3 DEF Blank
    <3>2. Roomed'
      <4> DEFINE p == Len(Queued) + 1
      <4>1. DOMAIN Queued' = DOMAIN Queued \cup {p} /\ Queued'[p] = e /\ p \in Nat
            /\ \A k \in DOMAIN Queued : Queued'[k] = Queued[k]
        BY <1>1, <2>3, AppendIs
      <4> HIDE DEF p
      <4>2. main.nest \notin Heard
        BY <1>1, <2>1 DEF Numbered, New
      <4>3. \A k \in DOMAIN Queued : main.nest # Queued[k].nest \/ Queued[k].kind # "message"
        BY <4>2, InnerIs DEF Heard
      <4>4. \A k \in DOMAIN Queued' : k < p => main'.nest # Queued'[k].nest \/ Queued'[k].kind # "message"
        BY <2>1, <4>1, <4>3
      <4>5. main'.nest \notin Inner(Lines') \cup Inner(Taken')
        BY <2>1, <2>3, <4>2 DEF Heard
      <4>6. Blank(Queued'[p]) /\ p \in DOMAIN Queued'
        BY <2>3, <4>1
      <4> QED BY <4>4, <4>5, <4>6 DEF Roomed, Blank, Inner
    <3> QED BY <1>4, <2>1, <3>1, <3>2 DEF Placed
  <2> QED BY <1>11, <2>2, <2>3, ReserveAdds
<1>12. CASE NestFill
  <2>1. main.pc = "nestFill" /\ run' = run
    BY <1>12 DEF NestFill, Others, At
  <2>2. CASE ~HasPlace /\ Same
    <3>1. run.state = "interrupted"
      BY <2>1, <2>2 DEF Placed, Roomed, HasPlace, Queued
    <3>2. Heard' = Heard
      BY <2>2 DEF Same, Heard
    <3> QED BY <1>3, <1>4, <3>1, <3>2 DEF Placed
  <2>3. ASSUME NEW e, Fills(e), Inside(e), e.kind = "result", NestOn PROVE Placed'
    <3>1. DOMAIN Queued' = DOMAIN Queued
          /\ \A k \in DOMAIN Queued : Queued'[k] = IF Blank(Queued[k]) THEN e ELSE Queued[k]
      BY <1>1, <2>3, FillsIs DEF Blank
    <3>2. Taken' = Taken /\ Lines' = Lines /\ e.nest = main.nest
      BY <2>3 DEF Fills, Inside
    <3>3. Numbered'
      <4>1. Inner(Queued') = Inner(Queued)
        BY <2>3, <3>1, InnerFilled
      <4>2. Heard' = Heard
        BY <3>2, <4>1 DEF Heard
      <4> QED BY <1>3, <4>2
    <3>4. main'.pc \in {"body", "nestCheck", "nestRest"}
      BY <2>3 DEF NestOn, Formed, MainFields
    <3>5. ASSUME run.state # "interrupted" PROVE Ordered'
      <4>1. PICK p \in DOMAIN Queued :
              /\ Blank(Queued[p]) /\ main.nest \notin Inner(Lines) \cup Inner(Taken)
              /\ \A k \in DOMAIN Queued : k < p => main.nest # Queued[k].nest \/ Queued[k].kind # "message"
        BY <2>1, <3>5 DEF Placed, Roomed
      <4>2. \A k \in DOMAIN Queued : Blank(Queued[k]) <=> k = p
        BY <1>1, <4>1 DEF Streamed
      <4>3. Queued'[p] = e /\ \A k \in DOMAIN Queued : k # p => Queued'[k] = Queued[k]
        BY <3>1, <4>1, <4>2
      <4>4. \A a : Pair(a, e) => a.kind = "message" /\ a.nest = main.nest
        BY <3>2 DEF Pair
      <4>5. \A a : ~Pair(e, a)
        BY <2>3, PairOf
      <4>6. Ordered
        BY <3>5 DEF Placed
      <4>7. Apart(Queued')
        <5> SUFFICES ASSUME NEW j \in DOMAIN Queued, NEW k \in DOMAIN Queued, j < k
                     PROVE  ~Pair(Queued'[j], Queued'[k])
          BY <3>1 DEF Apart
        <5>1. CASE j = p
          BY <4>3, <4>5, <5>1
        <5>2. CASE j # p /\ k = p
          BY <4>1, <4>3, <4>4, <5>2
        <5>3. CASE j # p /\ k # p
          BY <4>3, <4>6, <5>3 DEF Ordered, Apart
        <5> QED BY <5>1, <5>2, <5>3
      <4>8. ASSUME NEW r, Before(r, Queued), main.nest \notin Inner(r) PROVE Before(r, Queued')
        <5>1. \A j \in DOMAIN r : ~Pair(r[j], e)
          BY <4>4, <4>8, InnerIs
        <5>2. \A j \in DOMAIN r, k \in DOMAIN Queued : ~Pair(r[j], Queued'[k])
          BY <4>3, <4>8, <5>1 DEF Before
        <5> QED BY <3>1, <5>2 DEF Before
      <4> QED BY <3>2, <4>1, <4>6, <4>7, <4>8 DEF Ordered
    <3> QED BY <1>4, <3>3, <3>4, <3>5 DEF Placed, Roomed
  <2> QED BY <1>12, <2>2, <2>3, FillMoves
<1>13. ASSUME NEW e \in Entry, Writes(e), e.kind # "message", e.nest = 0 PROVE Numbered' /\ (Ordered => Ordered')
  <2>1. Heard' = Heard
    BY <1>1, <1>13, InnerAppend DEF Heard, Writes
  <2>2. \A a : ~Pair(a, e) /\ ~Pair(e, a)
    BY <1>13, PairOf DEF Entry
  <2>3. Ordered => Ordered'
    BY <1>1, <1>13, <2>2, PairAppend DEF Ordered, Writes
  <2> QED BY <1>3, <2>1, <2>3
<1>14. CASE WriteStart \/ (List /\ main.task <= N)
  <2>1. PICK e : Writes(e) /\ e.kind # "message" /\ e.nest = 0
    BY <1>14, OwnWrites DEF Own
  <2>2. main.pc \in {"claimed", "listing"} /\ main'.pc \in {"opening", "listing", "stopping"}
    BY <1>14 DEF WriteStart, List, At, Pc, Formed, MainFields
  <2> QED BY <1>4, <1>13, <2>1, <2>2 DEF Writes, Placed, Roomed
<1>15. ASSUME NEW d \in Drainers, WriteResult(d) PROVE Placed'
  <2>1. PICK e : Writes(e) /\ e.kind # "message" /\ e.nest = 0
    BY <1>15, OwnWrites DEF Own
  <2>2. drain[d].at = "result" /\ main' = main
    BY <1>15 DEF WriteResult, DrainAt
  <2>3. main.pc = "draining" \/ run.state = "interrupted"
    BY <2>2 DEF Owned, Drainers
  <2> QED BY <1>4, <1>13, <2>1, <2>2, <2>3 DEF Writes, Placed, Roomed
<1>16. CASE List /\ main.task > N
  BY <1>5, <1>16, ListEnds DEF Formed, MainFields
<1>17. ASSUME NEW d \in Drainers, Take(d) PROVE Placed'
  <2>1. Takes /\ main' = main /\ drain[d].at = "take"
    BY <1>17, TakeMoves
  <2>2. main.pc = "draining" \/ run.state = "interrupted"
    BY <2>1 DEF Owned, Drainers
  <2>3. PICK f : Thins(f, Batch, Queued)
    BY BatchIs
  <2>4. Numbered'
    <3>1. Inner(Batch) \subseteq Inner(Queued) /\ Inner(<<>>) = {}
      BY <2>3, InnerThinned DEF Inner
    <3>2. Heard' \subseteq Heard
      BY <2>1, <3>1 DEF Takes, Heard
    <3> QED BY <1>3, <3>2
  <2>5. Ordered => Ordered'
    <3> SUFFICES ASSUME Ordered PROVE Ordered'
      OBVIOUS
    <3>1. \A j, k \in DOMAIN Batch : /\ f[j] \in DOMAIN Queued /\ Batch[j] = Queued[f[j]]
                                     /\ j < k => f[j] < f[k]
      BY <2>3 DEF Thins
    <3>2. Apart(Batch)
      BY <3>1 DEF Ordered, Apart
    <3>3. Before(Lines, Batch)
      BY <3>1 DEF Ordered, Before
    <3>4. \A r : Before(r, <<>>) /\ Apart(<<>>)
      BY DEF Before, Apart
    <3>5. Lines' = Lines /\ Taken' = Batch /\ Queued' = <<>>
      BY <2>1 DEF Takes
    <3> QED BY <3>2, <3>3, <3>4, <3>5 DEF Ordered
  <2> QED BY <1>4, <2>1, <2>2, <2>4, <2>5 DEF Placed, Roomed
<1>18. ASSUME NEW d \in Drainers, WriteTaken(d) PROVE Placed'
  <2>1. WritesTaken /\ main' = main /\ drain[d].at = "write"
    BY <1>18, WriteTakenMoves
  <2>2. main.pc = "draining" \/ run.state = "interrupted"
    BY <2>1 DEF Owned, Drainers
  <2> DEFINE e == Head(Taken)
  <2>3. /\ e \in Entry /\ e = Taken[1] /\ 1 \in DOMAIN Taken /\ Taken # <<>>
        /\ \A k \in DOMAIN Tail(Taken) : k \in Nat /\ k + 1 \in DOMAIN Taken /\ Tail(Taken)[k] = Taken[k + 1]
        /\ \A k \in DOMAIN Tail(Taken) : k # 0
    <3>1. Taken # <<>>
      BY <2>1 DEF WritesTaken
    <3> QED BY <1>1, <3>1, TailIs
  <2>4. Lines' = Append(Lines, e) /\ Taken' = Tail(Taken) /\ Queued' = Queued
    BY <2>1 DEF WritesTaken
  <2>5. Numbered'
    <3>1. Heard' \subseteq Heard
      BY <1>1, <2>3, <2>4, InnerAppend, InnerTail DEF Heard
    <3> QED BY <1>3, <3>1
  <2>6. Ordered => Ordered'
    <3> SUFFICES ASSUME Ordered PROVE Ordered'
      OBVIOUS
    <3> HIDE DEF e
    <3>1. \A j \in DOMAIN Lines : ~Pair(Lines[j], e)
      BY <2>3 DEF Ordered, Before
    <3>2. \A k \in DOMAIN Tail(Taken) : 1 < k + 1 /\ ~Pair(e, Tail(Taken)[k])
      BY <2>3 DEF Ordered, Apart
    <3>3. \A k \in DOMAIN Queued : ~Pair(e, Queued[k])
      BY <2>3 DEF Ordered, Before
    <3>4. Apart(Tail(Taken))
      <4>1. \A j, k \in DOMAIN Tail(Taken) : j < k => j + 1 < k + 1
        BY <2>3
      <4> QED BY <2>3, <4>1 DEF Ordered, Apart
    <3>5. Before(Lines, Tail(Taken)) /\ Before(Tail(Taken), Queued)
      BY <2>3 DEF Ordered, Before
    <3>6. Apart(Lines')
      BY <1>1, <2>3, <2>4, <3>1, PairAppend DEF Ordered
    <3>7. Before(Lines', Taken')
      BY <1>1, <2>3, <2>4, <3>2, <3>5, PairAppend
    <3>8. Before(Lines', Queued')
      BY <1>1, <2>3, <2>4, <3>3, PairAppend DEF Ordered
    <3>9. Apart(Taken') /\ Apart(Queued') /\ Before(Taken', Queued')
      BY <2>4, <3>4, <3>5 DEF Ordered
    <3> QED BY <3>6, <3>7, <3>8, <3>9 DEF Ordered
  <2> QED BY <1>4, <2>1, <2>2, <2>5, <2>6 DEF Placed, Roomed
<1>19. List => main.task <= N \/ main.task > N
  BY <1>1, BoundsAssumption DEF Counts
<1> QED BY <1>6, <1>7, <1>9, <1>10, <1>11, <1>12, <1>14, <1>15, <1>16, <1>17, <1>18,
           <1>19, StepIs

-----------------------------------------------------------------------------
(* The theorems.                                                             *)

(* The invariant holds at first.                                             *)
LEMMA RunInvInit == Init => Formed /\ RunInv
<1> SUFFICES ASSUME Init PROVE Formed /\ RunInv
  OBVIOUS
<1> USE DEF Init
<1>1. Formed
  BY DEF Formed, MainFields, FrameFields, SigFields, ScreenFields, Drainers
<1>2. Watched
  BY DEF Watched
<1>3. Owned
  BY DEF Owned, Starting, Working, InTask, InBody, Begun, MainPc, States, Drainers
<1>4. Behind /\ NeverTorn
  BY DEF Behind, OnScreen, NeverTorn
<1>5. Gated
  BY DEF Gated, Working, InBody, Drainers
<1>6. Lines = <<>> /\ Taken = <<>> /\ Queued = <<>> /\ DOMAIN <<>> = {}
  BY DEF Lines, Taken, Queued, Drainers
<1>7. Listed
  <2>1. <<>> \in Seq(Entry)
    OBVIOUS
  <2> QED BY <1>6, <2>1 DEF Listed, Streamed, HasPlace, Queued
<1>8. Sent
  <2>1. Holds(<<>>, 0, 0)
    BY HoldsNone
  <2>2. main.said = 0
    OBVIOUS
  <2> HIDE DEF Init
  <2>3. Holds(Lines, 0, 0) /\ Holds(Taken, 0, 0) /\ Holds(Queued, 0, main.said) /\ 0 <= main.said
    BY <1>6, <2>1, <2>2
  <2> QED BY <2>3 DEF Sent
<1>9. Counted
  <2>1. ~Resulted /\ main.task = 1
    BY DEF Resulted, Past, Drainers, Working, InBody
  <2>2. Along
    BY DEF Along, InTask, Starting, Working, InBody
  <2>3. Queues
    BY <1>6 DEF Queues
  <2>4. \A t \in 1..N : ~HasFinal(t) /\ ~(t < 1)
    BY <1>6, BoundsAssumption DEF HasFinal
  <2> HIDE DEF Init
  <2>5. Ends
    BY <1>6, <2>1, <2>4 DEF Ends
  <2> QED BY <2>2, <2>3, <2>5 DEF Counted
<1>10. Placed
  <2>1. Heard = {}
    BY <1>6 DEF Heard, Inner
  <2>2. M * main.nested = 0 /\ main.nest = 0
    BY BoundsAssumption
  <2> QED BY <1>6, <2>1, <2>2 DEF Placed, Numbered, New, Ordered, Apart, Before, Roomed
<1> QED BY <1>1, <1>2, <1>3, <1>4, <1>5, <1>7, <1>8, <1>9, <1>10 DEF RunInv

(* The invariant holds of every behaviour.                                   *)
LEMMA RunInvariant == Spec => [](Formed /\ RunInv)
<1>1. Formed /\ RunInv /\ [Next]_vars => (Formed /\ RunInv)'
  BY FormedStep, WatchedStep, OwnedStep, BehindStep, TornStep, GatedStep, ListedStep,
     SentStep, CountedStep, PlacedStep DEF RunInv
<1> QED BY <1>1, RunInvInit, PTL DEF Spec

(***************************************************************************)
(* However many tasks there are and however the watcher, the interrupt and  *)
(* the owner are interleaved: a Run that was sent a signal never returns    *)
(* (run.go, watch).                                                         *)
(***************************************************************************)
THEOREM SignalIsHandled == Spec => []SignalHandled
<1>1. RunInv => SignalHandled
  BY DEF RunInv, Watched, SignalHandled
<1> QED BY <1>1, RunInvariant, PTL

(***************************************************************************)
(* Neither the owner nor the interrupt writes a line under a live frame,    *)
(* and no redraw lands after the frame was erased (run.go, drain).          *)
(***************************************************************************)
THEOREM FrameIsNeverTorn == Spec => []NeverTorn
<1>1. RunInv => NeverTorn
  BY DEF RunInv
<1> QED BY <1>1, RunInvariant, PTL

(* A set whose members are one has one member at most.                       *)
LEMMA OneAtMost ==
  ASSUME NEW S, \A j, k \in S : j = k
  PROVE  Cardinality(S) <= 1 /\ (S # {} => Cardinality(S) = 1)
<1>1. CASE S = {}
  BY <1>1, FS_EmptySet
<1>2. CASE S # {}
  <2>1. PICK x : S = {x}
    BY <1>2
  <2>2. Cardinality({x}) = 1
    BY FS_Singleton
  <2> QED BY <2>1, <2>2
<1> QED BY <1>1, <1>2

(* When the Run has ended, but for a second signal, nothing waits any more.  *)
LEMMA DrainedIs ==
  ASSUME RunInv, Drained
  PROVE  Taken = <<>> /\ Queued = <<>>
<1>1. ~gate.open
  BY DEF RunInv, Gated, Drained, Working, InBody
<1> QED BY <1>1, TakenIs DEF RunInv

(***************************************************************************)
(* Every message a task sent reaches the stream, once, before Run returns   *)
(* or the process dies of the first signal, whichever of the owner and the  *)
(* interrupt drains the queue and wherever the other is (run.go, drain).    *)
(***************************************************************************)
THEOREM NothingIsLost == Spec => []NothingLost
<1>1. RunInv => NothingLost
  <2> SUFFICES ASSUME RunInv, NEW m \in 1..main.said
               PROVE  LET c == Count(LAMBDA l : l.kind = "message" /\ l.n = m)
                      IN c <= 1 /\ (Drained => c = 1)
    BY DEF NothingLost
  <2> DEFINE S == {k \in DOMAIN Lines : Lines[k].kind = "message" /\ Lines[k].n = m}
  <2>1. main.said \in Nat /\ Lines \in Seq(Entry)
    BY DEF RunInv, Listed, Streamed
  <2>2. PICK x, y \in Nat : /\ x <= y /\ y <= main.said
                            /\ Holds(Lines, 0, x) /\ Holds(Taken, x, y)
                            /\ Holds(Queued, y, main.said)
    BY DEF RunInv, Sent
  <2>3. \A j, k \in S : j = k
    <3> SUFFICES ASSUME NEW j \in S, NEW k \in S, j # k PROVE FALSE
      OBVIOUS
    <3>1. j \in Nat /\ k \in Nat
      BY <2>1
    <3>2. ~(Lines[j].n < Lines[k].n) /\ ~(Lines[k].n < Lines[j].n)
      BY <2>1
    <3> QED BY <2>2, <3>1, <3>2 DEF Holds
  <2>4. Drained => S # {}
    <3> SUFFICES ASSUME Drained PROVE S # {}
      OBVIOUS
    <3>1. x = y /\ y = main.said
      BY <2>1, <2>2, DrainedIs, HoldsNone
    <3>2. m \in (0 + 1)..x
      BY <2>1, <3>1
    <3> QED BY <2>2, <3>2 DEF Holds
  <2>5. Cardinality(S) <= 1 /\ (Drained => Cardinality(S) = 1)
    BY <2>3, <2>4, OneAtMost
  <2> QED BY <2>5 DEF Count
<1> QED BY <1>1, RunInvariant, PTL

(***************************************************************************)
(* However the Run ends, but for a second signal, a task that was begun has *)
(* one result line and no more, whether the owner drained it or the         *)
(* interrupt took it over, and a Run that returns has a line for every task *)
(* (run.go, leave and interrupt).                                           *)
(***************************************************************************)
THEOREM ResultIsOne == Spec => []OneResult
<1>1. RunInv => OneResult
  <2> SUFFICES ASSUME RunInv, NEW t \in 1..N
               PROVE  LET c == Count(LAMBDA l : l.t = t /\ l.nest = 0 /\ l.kind \in {"result", "idle"})
                      IN /\ c <= 1
                         /\ end = "returned" => c = 1
                         /\ (Drained /\ t = main.task /\ main.pc \in Begun) => c = 1
    BY DEF OneResult
  <2> DEFINE S == {k \in DOMAIN Lines :
                     Lines[k].t = t /\ Lines[k].nest = 0 /\ Lines[k].kind \in {"result", "idle"}}
  <2>1. Ends /\ Along /\ Owned /\ Gated /\ main.task \in Nat
    BY DEF RunInv, Counted, Listed
  <2>2. \A j, k \in S : j = k
    BY <2>1 DEF Ends, Final
  <2>3. HasFinal(t) => S # {}
    BY DEF HasFinal, Final
  <2>4. end = "returned" => HasFinal(t)
    <3> SUFFICES ASSUME end = "returned" PROVE HasFinal(t)
      OBVIOUS
    <3>1. main.task > N
      BY <2>1 DEF Along, Gated
    <3>2. t < main.task
      BY <2>1, <3>1, BoundsAssumption
    <3> QED BY <2>1, <3>2 DEF Ends
  <2>5. Drained /\ t = main.task /\ main.pc \in Begun => HasFinal(t)
    <3> SUFFICES ASSUME Drained, t = main.task, main.pc \in Begun PROVE HasFinal(t)
      OBVIOUS
    <3>1. sig.intr = "die" /\ run.state = "interrupted" /\ drain["interrupt"].at = "no"
      BY <2>1 DEF Drained, Gated, Begun, InBody
    <3>2. main.pc \in Working \cup {"parked"}
      BY <2>1, <3>1 DEF Owned, Begun, Working, Starting, InBody
    <3>3. Resulted
      BY <3>1, <3>2 DEF Resulted
    <3> QED BY <2>1, <3>3 DEF Ends
  <2>6. Cardinality(S) <= 1 /\ (S # {} => Cardinality(S) = 1)
    BY <2>2, OneAtMost
  <2> QED BY <2>3, <2>4, <2>5, <2>6 DEF Count
<1> QED BY <1>1, RunInvariant, PTL

(***************************************************************************)
(* The result line of a task of a nested Run stands ahead of the messages   *)
(* the task queued, unless a signal drained the queue while it ran          *)
(* (run.go, runNested).                                                     *)
(***************************************************************************)
THEOREM NestedResultIsFirst == Spec => []NestedResultFirst
<1>1. RunInv => NestedResultFirst
  <2> SUFFICES ASSUME RunInv, run.state # "interrupted",
                      NEW j \in DOMAIN Lines, NEW k \in DOMAIN Lines, j < k
               PROVE  ~(/\ Lines[j].kind = "message" /\ Lines[k].kind = "result"
                        /\ Lines[j].t = Lines[k].t /\ Lines[j].nest = Lines[k].nest
                        /\ Lines[k].nest > 0)
    BY DEF NestedResultFirst
  <2>1. ~Pair(Lines[j], Lines[k])
    BY DEF RunInv, Placed, Ordered, Apart
  <2> QED BY <2>1 DEF Pair
<1> QED BY <1>1, RunInvariant, PTL

-----------------------------------------------------------------------------
(* Induction over the numbers, and what the reader sees of a stream.         *)

(* The order of the numbers.                                                 *)
Below == {p \in Nat \X Nat : p[1] < p[2]}

(* A set of numbers that is not empty has a least member.                    *)
LEMMA LeastIs ==
  ASSUME NEW S \in SUBSET Nat, S # {}
  PROVE  \E n \in S : \A m \in S : n <= m
<1>1. IsWellFoundedOn(Below, Nat)
  BY NatLessThanWellFounded, Zenon DEF Below, OpToRel
<1>2. PICK x \in S : \A y \in S : ~ (<<y, x>> \in Below)
  BY <1>1, WFMin
<1>3. \A y \in S : x <= y
  <2> TAKE y \in S
  <2>1. x \in Nat /\ y \in Nat /\ ~ (<<y, x>> \in Below)
    BY <1>2
  <2>2. ~ (y < x)
    BY <2>1 DEF Below
  <2> QED BY <2>1, <2>2
<1> QED BY <1>2, <1>3

(* Induction over the numbers, on the set of those that have a property.     *)
LEMMA Inductive ==
  ASSUME NEW S, 0 \in S, \A n \in Nat : n \in S => n + 1 \in S
  PROVE  Nat \subseteq S
<1> SUFFICES ASSUME NEW i \in Nat, i \notin S PROVE FALSE
  OBVIOUS
<1>1. PICK n \in Nat \ S : \A m \in Nat \ S : n <= m
  BY LeastIs
<1>2. n \in Nat /\ n # 0
  BY <1>1
<1>3. n - 1 \in Nat /\ (n - 1) + 1 = n /\ ~(n <= n - 1)
  BY <1>2
<1>4. n - 1 \in S
  BY <1>1, <1>3
<1> QED BY <1>1, <1>3, <1>4

(* How the lines the reader sees are taken from the first n of s.            *)
Sees(f, s, n) ==
  f = [k \in 0..n |-> IF k = 0 THEN <<>>
                      ELSE IF IsTop(s[k]) THEN Append(f[k - 1], Seen(s[k])) ELSE f[k - 1]]

(* One line more.                                                            *)
LEMMA SeesMore ==
  ASSUME NEW f, NEW s, NEW n \in Nat, Sees(f, s, n)
  PROVE  \E g : Sees(g, s, n + 1)
<1> DEFINE g == [i \in 0..(n + 1) |->
                   IF i = n + 1
                   THEN IF IsTop(s[i]) THEN Append(f[n], Seen(s[i])) ELSE f[n]
                   ELSE f[i]]
<1>1. \A i \in 0..(n + 1) :
        g[i] = IF i = 0 THEN <<>>
               ELSE IF IsTop(s[i]) THEN Append(g[i - 1], Seen(s[i])) ELSE g[i - 1]
  <2> TAKE i \in 0..(n + 1)
  <2>1. CASE i = n + 1
    <3>1. n \in 0..(n + 1) /\ n # n + 1 /\ i - 1 = n /\ i # 0
      BY <2>1
    <3>2. g[n] = f[n]
      BY <3>1
    <3> QED BY <2>1, <3>1, <3>2
  <2>2. CASE i # n + 1
    <3>1. i \in 0..n
      BY <2>2
    <3>2. g[i] = f[i]
      BY <2>2
    <3>3. f[i] = IF i = 0 THEN <<>>
                 ELSE IF IsTop(s[i]) THEN Append(f[i - 1], Seen(s[i])) ELSE f[i - 1]
      BY <3>1, Zenon DEF Sees
    <3>4. i # 0 => i - 1 \in 0..(n + 1) /\ i - 1 # n + 1
      BY <3>1
    <3>5. i # 0 => g[i - 1] = f[i - 1]
      BY <3>4
    <3> QED BY <3>2, <3>3, <3>5
  <2> QED BY <2>1, <2>2
<1>2. g = [i \in 0..(n + 1) |-> g[i]]
  OBVIOUS
<1> HIDE DEF g
<1>3. g = [i \in 0..(n + 1) |-> IF i = 0 THEN <<>>
             ELSE IF IsTop(s[i]) THEN Append(g[i - 1], Seen(s[i])) ELSE g[i - 1]]
  BY <1>1, <1>2
<1> QED BY <1>3, Zenon DEF Sees

(* There is such a function, and it says what the reader sees.               *)
LEMMA SeesIs ==
  ASSUME NEW s, NEW n \in Nat
  PROVE  \E f : Sees(f, s, n)
<1> DEFINE S == {m \in Nat : \E f : Sees(f, s, m)}
<1>1. 0 \in S
  <2> DEFINE f == [k \in 0..0 |-> <<>>]
  <2>1. f = [k \in 0..0 |-> IF k = 0 THEN <<>>
               ELSE IF IsTop(s[k]) THEN Append(f[k - 1], Seen(s[k])) ELSE f[k - 1]]
    OBVIOUS
  <2> HIDE DEF f
  <2>2. Sees(f, s, 0)
    BY <2>1, Zenon DEF Sees
  <2> QED BY <2>2
<1>2. \A m \in Nat : m \in S => m + 1 \in S
  BY SeesMore
<1> HIDE DEF S
<1>3. n \in S
  BY <1>1, <1>2, Inductive
<1> QED BY <1>3 DEF S

(* The lines of f, one by one.                                               *)
LEMMA SeesAt ==
  ASSUME NEW f, NEW s, NEW n \in Nat, Sees(f, s, n), NEW k \in 0..n
  PROVE  f[k] = IF k = 0 THEN <<>>
                ELSE IF IsTop(s[k]) THEN Append(f[k - 1], Seen(s[k])) ELSE f[k - 1]
BY Zenon DEF Sees

(* Two that see the same lines agree.                                        *)
LEMMA SeesSame ==
  ASSUME NEW f, NEW g, NEW r, NEW s, NEW m \in Nat, NEW n \in Nat, m <= n,
         Sees(f, r, m), Sees(g, s, n), \A k \in 1..m : r[k] = s[k]
  PROVE  \A k \in 0..m : f[k] = g[k]
<1> DEFINE S == {k \in Nat : k <= m => f[k] = g[k]}
<1>1. 0 \in S
  BY SeesAt
<1>2. ASSUME NEW k \in Nat, k \in S PROVE k + 1 \in S
  <2> SUFFICES ASSUME k + 1 <= m PROVE f[k + 1] = g[k + 1]
    OBVIOUS
  <2>1. k + 1 \in 1..m /\ k + 1 \in 0..m /\ k + 1 \in 0..n /\ k + 1 # 0 /\ (k + 1) - 1 = k /\ k <= m
    OBVIOUS
  <2>2. f[k] = g[k] /\ r[k + 1] = s[k + 1]
    BY <1>2, <2>1
  <2>3. f[k + 1] = IF IsTop(r[k + 1]) THEN Append(f[k], Seen(r[k + 1])) ELSE f[k]
    BY <2>1, SeesAt
  <2>4. g[k + 1] = IF IsTop(s[k + 1]) THEN Append(g[k], Seen(s[k + 1])) ELSE g[k]
    BY <2>1, SeesAt
  <2> QED BY <2>2, <2>3, <2>4
<1> HIDE DEF S
<1>3. Nat \subseteq S
  BY <1>1, <1>2, Inductive
<1> QED BY <1>3 DEF S

(* What TopOf is.                                                            *)
LEMMA TopIs ==
  ASSUME NEW s, Len(s) \in Nat
  PROVE  \E f : Sees(f, s, Len(s)) /\ TopOf(s) = f[Len(s)]
<1> DEFINE f == CHOOSE g : Sees(g, s, Len(s))
<1>1. TopOf(s) = f[Len(s)]
  BY Zenon DEF TopOf, Sees
<1>2. Sees(f, s, Len(s))
  BY SeesIs
<1> QED BY <1>1, <1>2

(* A line appended is seen after the others, if it is one the reader sees.   *)
LEMMA TopAppend ==
  ASSUME NEW s \in Seq(Entry), NEW e \in Entry
  PROVE  TopOf(Append(s, e)) = IF IsTop(e) THEN Append(TopOf(s), Seen(e)) ELSE TopOf(s)
<1> DEFINE r == Append(s, e)
<1>1. /\ Len(s) \in Nat /\ Len(r) = Len(s) + 1 /\ \A k \in 1..Len(s) : s[k] = r[k]
      /\ r[Len(s) + 1] = e
  OBVIOUS
<1> HIDE DEF r
<1>2. PICK f : Sees(f, s, Len(s)) /\ TopOf(s) = f[Len(s)]
  BY <1>1, TopIs
<1>3. PICK g : Sees(g, r, Len(s) + 1) /\ TopOf(r) = g[Len(s) + 1]
  BY <1>1, TopIs
<1>4. f[Len(s)] = g[Len(s)]
  <2>1. Len(s) <= Len(s) + 1 /\ Len(s) + 1 \in Nat /\ Len(s) \in 0..Len(s)
    BY <1>1
  <2> QED BY <1>1, <1>2, <1>3, <2>1, SeesSame
<1>5. Len(s) + 1 \in 0..(Len(s) + 1) /\ Len(s) + 1 # 0 /\ (Len(s) + 1) - 1 = Len(s) /\ Len(s) + 1 \in Nat
  BY <1>1
<1>6. g[Len(s) + 1] = IF IsTop(e) THEN Append(g[Len(s)], Seen(e)) ELSE g[Len(s)]
  BY <1>1, <1>3, <1>5, SeesAt
<1> QED BY <1>2, <1>3, <1>4, <1>6 DEF r

(* Nothing is seen of nothing.                                               *)
LEMMA TopEmpty == TopOf(<<>>) = <<>>
<1>1. Len(<<>>) = 0
  OBVIOUS
<1>2. PICK f : Sees(f, <<>>, 0) /\ TopOf(<<>>) = f[0]
  BY <1>1, TopIs
<1> QED BY <1>2, SeesAt

Row == [kind : Kinds, n : Nat, v : Verdicts \cup {"busy", "idle", "said"}]

(* The places of a sequence that have one of W.                              *)
PlacesOf(s, W) == {k \in DOMAIN s : s[k] \in W}

(* There are finitely many, and one more when one of W is appended.          *)
LEMMA PlacesAppend ==
  ASSUME NEW X, NEW s \in Seq(X), NEW e \in X, NEW W
  PROVE  /\ IsFiniteSet(PlacesOf(s, W)) /\ Cardinality(PlacesOf(s, W)) \in Nat
         /\ Cardinality(PlacesOf(Append(s, e), W))
              = Cardinality(PlacesOf(s, W)) + (IF e \in W THEN 1 ELSE 0)
<1> DEFINE r == Append(s, e)
<1> DEFINE z == Len(s) + 1
<1>1. /\ Len(s) \in Nat /\ z \in Nat /\ DOMAIN s = 1..Len(s) /\ DOMAIN r = 1..z /\ r[z] = e
      /\ \A k \in 1..Len(s) : r[k] = s[k] /\ k # z
      /\ 1..z = 1..Len(s) \cup {z}
  OBVIOUS
<1>2. IsFiniteSet(1..Len(s))
  BY <1>1, FS_Interval
<1>3. IsFiniteSet(PlacesOf(s, W)) /\ z \notin PlacesOf(s, W)
  BY <1>1, <1>2, FS_Subset DEF PlacesOf
<1>4. Cardinality(PlacesOf(s, W)) \in Nat
  BY <1>3, FS_CardinalityType
<1> HIDE DEF r, z
<1>5. CASE e \in W
  <2>1. PlacesOf(r, W) = PlacesOf(s, W) \cup {z}
    BY <1>1, <1>5 DEF PlacesOf
  <2>2. Cardinality(PlacesOf(r, W)) = Cardinality(PlacesOf(s, W)) + 1
    BY <1>3, <2>1, FS_AddElement
  <2> QED BY <1>3, <1>4, <1>5, <2>2 DEF r
<1>6. CASE e \notin W
  <2>1. PlacesOf(r, W) = PlacesOf(s, W)
    BY <1>1, <1>6 DEF PlacesOf
  <2> QED BY <1>3, <1>4, <1>6, <2>1 DEF r
<1> QED BY <1>5, <1>6

(* A sequence is empty, or a shorter one and a last line.                    *)
LEMMA LastIs ==
  ASSUME NEW n \in Nat, NEW s \in Seq(Entry), Len(s) = n + 1
  PROVE  \E r \in Seq(Entry), e \in Entry : Len(r) = n /\ s = Append(r, e)
<1> DEFINE r == SubSeq(s, 1, n)
<1> DEFINE e == s[n + 1]
<1>1. r \in Seq(Entry) /\ Len(r) = n /\ e \in Entry
  OBVIOUS
<1>2. \A k \in 1..n : r[k] = s[k]
  OBVIOUS
<1> HIDE DEF r
<1>3. Append(r, e) \in Seq(Entry) /\ Len(Append(r, e)) = n + 1
      /\ \A k \in 1..(n + 1) : Append(r, e)[k] = s[k]
  BY <1>1, <1>2
<1> HIDE DEF e
<1>4. s = Append(r, e)
  BY <1>3
<1> QED BY <1>1, <1>4

Shows(kd) == {l \in Entry : IsTop(l) /\ l.kind = kd}
Rows(kd)  == {l \in Row : l.kind = kd}

(* The reader sees as many lines of a kind as there are.                     *)
Faithful(s) ==
  /\ TopOf(s) \in Seq(Row)
  /\ \A kd \in Kinds :
       Cardinality(PlacesOf(TopOf(s), Rows(kd))) = Cardinality(PlacesOf(s, Shows(kd)))

(* Of any sequence of lines.                                                 *)
LEMMA TopIsFaithful ==
  ASSUME NEW s \in Seq(Entry)
  PROVE  Faithful(s)
<1> DEFINE S == {n \in Nat : \A r \in Seq(Entry) : Len(r) = n => Faithful(r)}
<1>1. 0 \in S
  <2> SUFFICES ASSUME NEW r \in Seq(Entry), Len(r) = 0 PROVE Faithful(r)
    OBVIOUS
  <2>1. r = <<>> /\ TopOf(r) = <<>>
    BY EmptyIs, TopEmpty
  <2>2. \A W : PlacesOf(<<>>, W) = {}
    BY DEF PlacesOf
  <2>3. <<>> \in Seq(Row)
    OBVIOUS
  <2> QED BY <2>1, <2>2, <2>3 DEF Faithful
<1>2. ASSUME NEW n \in Nat, n \in S PROVE n + 1 \in S
  <2> SUFFICES ASSUME NEW q \in Seq(Entry), Len(q) = n + 1 PROVE Faithful(q)
    OBVIOUS
  <2>1. PICK r \in Seq(Entry), e \in Entry : Len(r) = n /\ q = Append(r, e)
    BY LastIs
  <2>2. Faithful(r)
    BY <1>2, <2>1
  <2>3. TopOf(q) = IF IsTop(e) THEN Append(TopOf(r), Seen(e)) ELSE TopOf(r)
    BY <2>1, TopAppend
  <2>4. Seen(e) \in Row /\ Seen(e).kind = e.kind
    BY DEF Seen, Row, Entry
  <2>5. TopOf(q) \in Seq(Row)
    BY <2>2, <2>3, <2>4 DEF Faithful
  <2>6. ASSUME NEW kd \in Kinds
        PROVE  Cardinality(PlacesOf(TopOf(q), Rows(kd))) = Cardinality(PlacesOf(q, Shows(kd)))
    <3>1. Cardinality(PlacesOf(q, Shows(kd)))
            = Cardinality(PlacesOf(r, Shows(kd))) + (IF e \in Shows(kd) THEN 1 ELSE 0)
          /\ Cardinality(PlacesOf(r, Shows(kd))) \in Nat
      BY <2>1, PlacesAppend
    <3>2. Cardinality(PlacesOf(TopOf(r), Rows(kd))) = Cardinality(PlacesOf(r, Shows(kd)))
      BY <2>2 DEF Faithful
    <3>3. CASE IsTop(e)
      <4>1. Cardinality(PlacesOf(TopOf(q), Rows(kd)))
              = Cardinality(PlacesOf(TopOf(r), Rows(kd))) + (IF Seen(e) \in Rows(kd) THEN 1 ELSE 0)
        BY <2>2, <2>3, <2>4, <3>3, PlacesAppend DEF Faithful
      <4>2. Seen(e) \in Rows(kd) <=> e \in Shows(kd)
        BY <2>4, <3>3 DEF Rows, Shows
      <4> QED BY <3>1, <3>2, <4>1, <4>2
    <3>4. CASE ~IsTop(e)
      <4>1. e \notin Shows(kd) /\ TopOf(q) = TopOf(r)
        BY <2>3, <3>4 DEF Shows
      <4> QED BY <3>1, <3>2, <4>1
    <3> QED BY <3>3, <3>4
  <2> QED BY <2>5, <2>6 DEF Faithful
<1> HIDE DEF S
<1>3. Len(s) \in S
  BY <1>1, <1>2, Inductive
<1> QED BY <1>3 DEF S

(* As many messages as their numbers say.                                    *)
LEMMA HoldsMany ==
  ASSUME NEW s \in Seq(Entry), NEW x \in Nat, Holds(s, 0, x)
  PROVE  Cardinality(PlacesOf(s, Shows("message"))) = x
<1> DEFINE T == PlacesOf(s, Shows("message"))
<1> DEFINE f == [k \in T |-> s[k].n]
<1>1. \A k : k \in T <=> k \in DOMAIN s /\ s[k].kind = "message"
  BY DEF PlacesOf, Shows, IsTop
<1>2. IsFiniteSet(T)
  <2>1. IsFiniteSet(1..Len(s)) /\ DOMAIN s = 1..Len(s)
    BY FS_Interval
  <2> QED BY <2>1, FS_Subset DEF PlacesOf
<1> HIDE DEF T
<1>3. f \in [T -> 1..x]
  BY <1>1 DEF Holds
<1>4. \A j, k \in T : f[j] = f[k] => j = k
  <2> SUFFICES ASSUME NEW j \in T, NEW k \in T, j # k PROVE f[j] # f[k]
    OBVIOUS
  <2>1. j \in Nat /\ k \in Nat
    BY <1>1
  <2>2. s[j].n < s[k].n \/ s[k].n < s[j].n
    BY <1>1, <2>1 DEF Holds
  <2>3. s[j].n \in 1..x /\ s[k].n \in 1..x
    BY <1>3
  <2> QED BY <2>2, <2>3
<1>5. \A m \in 1..x : \E k \in T : f[k] = m
  BY <1>1 DEF Holds
<1> HIDE DEF f
<1>6. f \in Bijection(T, 1..x)
  BY <1>3, <1>4, <1>5 DEF Bijection, Injection, Surjection, IsInjective
<1>7. ExistsBijection(T, 1..x)
  BY <1>6 DEF ExistsBijection
<1>8. Cardinality(1..x) = x
  BY FS_Interval
<1>9. Cardinality(1..x) = Cardinality(T)
  BY <1>2, <1>7, FS_Bijection
<1> QED BY <1>8, <1>9 DEF T

-----------------------------------------------------------------------------
(* What the lines tell of where the owner is.                                *)

(* After the last task that was run.                                         *)
Closing == {"listing", "stopping", "stopped"}

(* The owner is past no failure, and no interrupt has cut its task short.    *)
Clean == /\ main.pc \notin Closing
         /\ Resulted => main.pc = "draining" /\ main.verdict = "ok"
CutShort == main.pc \in Working \cup {"parked"} /\ Resulted
Undone == main.pc \in Begun /\ ~Resulted

(***************************************************************************)
(* The lines that end the tasks tell where the owner is: as many as tasks   *)
(* have ended, all good while it goes on, and one that says interrupted     *)
(* where an interrupt has drained its task.                                 *)
(***************************************************************************)
Told ==
  /\ main.task > 0
  /\ Cardinality(Results) + Cardinality(Idles) + 1 = main.task + (IF Resulted THEN 1 ELSE 0)
  /\ Idles # {} => main.pc \in Closing
  /\ \A k \in Results : Lines[k].v \in {"ok", "fail", "interrupted"}
  /\ Clean => \A k \in Results : Lines[k].v = "ok"
  /\ (\E k \in Results : Lines[k].v = "interrupted") <=> CutShort

(* Where a step that writes no line of the list takes the owner.             *)
Unbegun == {"next", "claimed", "barred"}
Setting == {"opening", "drawing", "publishing"}
Moves ==
  \/ /\ main'.task = main.task
     /\ \/ main'.pc = main.pc /\ main'.verdict = main.verdict
        \/ main.pc \in Unbegun /\ main'.pc \in Unbegun \cup Closing
        \/ main.pc = "claimed" /\ main'.pc \in Setting /\ (WriteStart \/ OpenGate)
        \/ main.pc \in Setting /\ main'.pc \in Setting \cup Working
        \/ main.pc \in Working /\ main'.pc \in Working
        \/ main.pc = "leaving" /\ main'.pc = "parked"
        \/ main.pc = "leaving" /\ main'.pc = "draining" /\ run.state # "interrupted"
        \/ main.pc \in Closing /\ main'.pc \in Closing
  \/ /\ main.pc = "draining" /\ Resulted /\ main'.pc \in {"next"} \cup Closing
     /\ main'.pc = "next" => main.verdict = "ok"

(* It does take it there.                                                    *)
LEMMA MovesStep ==
  ASSUME Formed, Owned, Gated, Listed, Along, Going
  PROVE  Moves
<1> USE BoundsAssumption
<1> USE DEF Formed, MainFields, InBody, Working, At, Pc, Others, BackInTask, Drainers,
            Moves, Unbegun, Setting, Closing
<1>1. CASE UNCHANGED vars \/ Tick \/ Redraw \/ TickerStops \/ Deliver \/ Stall
  BY <1>1 DEF vars, Tick, Redraw, TickerStops, Deliver, Stall
<1>2. CASE NoLog
  BY <1>2 DEF NoLog
<1>3. CASE Claim
  BY <1>3 DEF Claim
<1>4. CASE AllRun
  BY <1>4 DEF AllRun
<1>5. CASE WriteStart
  BY <1>5 DEF WriteStart, Write
<1>6. CASE OpenGate
  BY <1>6 DEF OpenGate
<1>7. CASE StartFrame
  BY <1>7 DEF StartFrame
<1>8. CASE Publish
  BY <1>8 DEF Publish
<1>9. CASE StopWatching
  BY <1>9 DEF StopWatching
<1>10. CASE Return
  BY <1>10 DEF Return
<1>11. CASE Say
  BY <1>11 DEF Say
<1>12. CASE TaskEnds
  BY <1>12 DEF TaskEnds
<1>13. CASE CallRun
  BY <1>13 DEF CallRun
<1>14. CASE NestCheck
  BY <1>14 DEF NestCheck
<1>15. CASE NestLine
  BY <1>15 DEF NestLine
<1>16. CASE NestRest
  BY <1>16 DEF NestRest, LastNested
<1>17. CASE NestQueue
  BY <1>17 DEF NestQueue, NestOn, LastNested
<1>18. CASE NestReserve
  BY <1>18 DEF NestReserve
<1>19. CASE NestEnds
  BY <1>19 DEF NestEnds
<1>20. CASE NestFill
  BY <1>20 DEF NestFill, NestOn, LastNested
<1>21. CASE Leave
  BY <1>21 DEF Leave
<1>22. CASE Settle
  <2>1. main.pc = "draining" /\ Resulted
    BY <1>22 DEF Settle, DrainAt, Owned, Resulted, Past
  <2>2. main'.pc = CASE main.verdict = "ok"    -> "next"
                     [] main.verdict = "fail"  -> "listing"
                     [] main.verdict = "panic" -> "stopping"
    BY <1>22 DEF Settle
  <2>3. main.verdict \in {"ok", "fail", "panic"}
    BY DEF Owned
  <2> HIDE DEF Formed
  <2> QED BY <2>1, <2>2, <2>3
<1>23. ASSUME NEW d \in Drainers, StopFrame(d) \/ Erase(d) \/ Take(d) \/ WriteTaken(d) PROVE Moves
  BY <1>23 DEF StopFrame, Erase, Take, WriteTaken
<1>24. CASE Watcher
  BY <1>24 DEF Watcher, WatchSees, WatchQuits, WatchSecond, DieOfSecond
<1>25. CASE Interrupt \/ Wake \/ InterruptDrained \/ DieOfFirst
  BY <1>25 DEF Interrupt, Wake, InterruptDrained, DieOfFirst
<1> QED BY <1>1, <1>2, <1>3, <1>4, <1>5, <1>6, <1>7, <1>8, <1>9, <1>10, <1>11, <1>12,
           <1>13, <1>14, <1>15, <1>16, <1>17, <1>18, <1>19, <1>20, <1>21, <1>22, <1>23,
           <1>24, <1>25
       DEF Going, Quiet

(* What that leaves of what the lines tell.                                  *)
LEMMA MovesTell ==
  ASSUME Formed, Owned, Gated, Listed, Along, Going
  PROVE  /\ Clean' => Clean
         /\ CutShort' <=> CutShort
         /\ main.pc \in Closing => main'.pc \in Closing
         /\ Undone => Undone' 
         /\ Undone' => Undone \/ (main.pc = "claimed" /\ (WriteStart \/ OpenGate))
<1>1. Moves /\ Turn
  BY MovesStep, TurnStep
<1>2. /\ main.pc \in Unbegun \cup Setting => ~Resulted
      /\ main.pc \in Working /\ Resulted => run.state = "interrupted"
      /\ main.pc \in MainPc
  <2>1. main.pc \in MainPc /\ \A d \in Drainers : drain[d].at \in Past => drain[d].at # "no"
    BY DEF Owned, Past, Drainers
  <2>2. drain["main"].at # "no" => main.pc = "draining"
    BY DEF Owned
  <2>3. drain["interrupt"].at # "no" => main.pc \in Working \cup {"parked"} /\ run.state = "interrupted"
    BY DEF Owned, Gated
  <2> QED BY <2>1, <2>2, <2>3 DEF Resulted, Drainers, Unbegun, Setting, Working, InBody
<1>3. main'.task = main.task => (Resulted' <=> Resulted)
  BY <1>1 DEF Turn, Listed
<1> USE DEF Clean, CutShort, Undone, Closing, Unbegun, Setting, Working, InBody, Begun
<1>4. CASE main'.pc = main.pc /\ main'.verdict = main.verdict /\ main'.task = main.task
  BY <1>3, <1>4
<1>5. CASE main.pc \in Unbegun /\ main'.pc \in Unbegun \cup Closing /\ main'.task = main.task
  BY <1>2, <1>3, <1>5
<1>6. CASE main.pc = "claimed" /\ main'.pc \in Setting /\ (WriteStart \/ OpenGate) /\ main'.task = main.task
  BY <1>2, <1>3, <1>6
<1>7. CASE main.pc \in Setting /\ main'.pc \in Setting \cup Working /\ main'.task = main.task
  BY <1>2, <1>3, <1>7
<1>8. CASE main.pc \in Working /\ main'.pc \in Working /\ main'.task = main.task
  BY <1>2, <1>3, <1>8
<1>9. CASE /\ main.pc = "leaving" /\ main'.pc \in {"parked", "draining"} /\ main'.task = main.task
           /\ main'.pc = "draining" => run.state # "interrupted"
  BY <1>2, <1>3, <1>9
<1>10. CASE main.pc \in Closing /\ main'.pc \in Closing /\ main'.task = main.task
  BY <1>2, <1>3, <1>10
<1>11. CASE /\ main.pc = "draining" /\ Resulted /\ main'.pc \in {"next"} \cup Closing
            /\ main'.pc = "next" => main.verdict = "ok"
  BY <1>11
<1> QED BY <1>1, <1>4, <1>5, <1>6, <1>7, <1>8, <1>9, <1>10, <1>11 DEF Moves

(* A result, or a line of a task that did not run, of the Run itself.        *)
Telling(l) == l.nest = 0 /\ l.kind \in {"result", "idle"}

(* What such a step writes tells of no task.                                 *)
LEMMA GoingWrites ==
  ASSUME Formed, Owned, Gated, Listed, Counted, Going
  PROVE  \/ Lines' = Lines
         \/ \E e \in Entry : ~Telling(e) /\ Lines' = Append(Lines, e)
<1>1. CASE Quiet
  BY <1>1, QuietIsSame DEF Same
<1>2. CASE Say
  <2>1. PICK e \in Entry : e.kind = "message" /\ Adds(e)
    BY <1>2, SaidIsEntry, SayAdds DEF Listed
  <2> QED BY <2>1 DEF Adds, Writes, Telling
<1>3. CASE NestLine \/ NestQueue \/ NestRest
  <2>1. PICK e : Inside(e) /\ Adds(e)
    BY <1>3, NestAdds
  <2>2. main.nest > 0 /\ main.nest \in Nat
    BY <1>3, WhereIs DEF Counted, Listed
  <2> QED BY <2>1, <2>2 DEF Adds, Writes, Inside, Telling
<1>4. CASE NestReserve
  BY <1>4, ReserveAdds DEF Same
<1>5. CASE NestFill
  BY <1>5, FillMoves DEF Same, Fills
<1>6. CASE WriteStart
  BY <1>6, OwnWrites DEF Own, Writes, Telling
<1>7. ASSUME NEW d \in Drainers, Take(d) PROVE Lines' = Lines
  BY <1>7, TakeMoves DEF Takes
<1>8. ASSUME NEW d \in Drainers, WriteTaken(d)
      PROVE  \E e \in Entry : ~Telling(e) /\ Lines' = Append(Lines, e)
  <2>1. WritesTaken /\ Taken \in Seq(Entry)
    BY <1>8, WriteTakenMoves DEF Listed, Streamed
  <2>2. Head(Taken) \in Entry /\ Head(Taken) = Taken[1] /\ 1 \in DOMAIN Taken
    BY <2>1, TailIs DEF WritesTaken
  <2>3. ~Telling(Head(Taken))
    BY <2>2 DEF Telling, Counted, Queues
  <2> QED BY <2>1, <2>2, <2>3 DEF WritesTaken
<1> QED BY <1>1, <1>2, <1>3, <1>4, <1>5, <1>6, <1>7, <1>8 DEF Going

(* A line that tells of no task changes nothing told.                        *)
LEMMA SameTold ==
  ASSUME Streamed,
         \/ Lines' = Lines
         \/ \E e \in Entry : ~Telling(e) /\ Lines' = Append(Lines, e)
  PROVE  /\ Results' = Results /\ Idles' = Idles
         /\ \A k \in Results : Lines'[k] = Lines[k]
<1>1. CASE Lines' = Lines
  BY <1>1 DEF Results, Idles
<1>2. ASSUME NEW e \in Entry, ~Telling(e), Lines' = Append(Lines, e)
      PROVE  /\ Results' = Results /\ Idles' = Idles
             /\ \A k \in Results : Lines'[k] = Lines[k]
  <2>1. /\ DOMAIN Lines' = DOMAIN Lines \cup {Len(Lines) + 1} /\ Lines'[Len(Lines) + 1] = e
        /\ \A k \in DOMAIN Lines : Lines'[k] = Lines[k]
    BY <1>2, AppendIs DEF Streamed
  <2> QED BY <1>2, <2>1 DEF Results, Idles, Telling
<1> QED BY <1>1, <1>2

(* The lines told are those the reader sees.                                 *)
LEMMA ToldIs ==
  ASSUME Lines \in Seq(Entry)
  PROVE  /\ Results = PlacesOf(Lines, Shows("result")) /\ Idles = PlacesOf(Lines, Shows("idle"))
         /\ Cardinality(Results) \in Nat /\ Cardinality(Idles) \in Nat
         /\ IsFiniteSet(Results) /\ IsFiniteSet(Idles)
<1>1. \A k \in DOMAIN Lines : Lines[k] \in Entry
  OBVIOUS
<1>2. Results = PlacesOf(Lines, Shows("result")) /\ Idles = PlacesOf(Lines, Shows("idle"))
  BY <1>1 DEF Results, Idles, PlacesOf, Shows, IsTop
<1>3. IsFiniteSet(1..Len(Lines)) /\ DOMAIN Lines = 1..Len(Lines)
  BY FS_Interval
<1>4. IsFiniteSet(Results) /\ IsFiniteSet(Idles)
  BY <1>3, FS_Subset DEF Results, Idles
<1> QED BY <1>2, <1>4, FS_CardinalityType

(* A line appended that tells of a task.                                     *)
LEMMA TellsMore ==
  ASSUME Lines \in Seq(Entry), NEW e \in Entry, e.nest = 0, Lines' = Append(Lines, e)
  PROVE  LET z == Len(Lines) + 1 IN
         /\ z \notin Results /\ z \notin Idles
         /\ e.kind = "result" => Results' = Results \cup {z} /\ Idles' = Idles
              /\ Cardinality(Results') = Cardinality(Results) + 1
         /\ e.kind = "idle" => Idles' = Idles \cup {z} /\ Results' = Results
              /\ Cardinality(Idles') = Cardinality(Idles) + 1
         /\ \A k \in Results : Lines'[k] = Lines[k]
         /\ Lines'[z] = e
<1> DEFINE z == Len(Lines) + 1
<1>1. /\ DOMAIN Lines' = DOMAIN Lines \cup {z} /\ Lines'[z] = e /\ z \in Nat
      /\ \A k \in DOMAIN Lines : Lines'[k] = Lines[k] /\ k < z
  BY AppendIs
<1> HIDE DEF z
<1>2. z \notin Results /\ z \notin Idles
  BY <1>1 DEF Results, Idles
<1>3. e.kind = "result" => Results' = Results \cup {z} /\ Idles' = Idles
  BY <1>1 DEF Results, Idles
<1>4. e.kind = "idle" => Idles' = Idles \cup {z} /\ Results' = Results
  BY <1>1 DEF Results, Idles
<1>5. /\ Cardinality(Results \cup {z}) = Cardinality(Results) + 1
      /\ Cardinality(Idles \cup {z}) = Cardinality(Idles) + 1
  BY <1>2, ToldIs, FS_AddElement
<1>6. \A k \in Results : Lines'[k] = Lines[k]
  BY <1>1 DEF Results
<1> QED BY <1>1, <1>2, <1>3, <1>4, <1>5, <1>6 DEF z

(* Which result a drain writes.                                              *)
LEMMA WriteResultTells ==
  ASSUME Formed, Owned, Gated, Listed, Along, NEW d \in Drainers, WriteResult(d)
  PROVE  /\ ~Resulted /\ Resulted' /\ main' = main /\ Verdict(d) \in {"ok", "fail", "interrupted"}
         /\ Lines' = Append(Lines, Step("result", main.task, 0, Verdict(d)))
         /\ Taken' = Taken /\ Queued' = Queued
         /\ d = "main" => /\ main.pc = "draining" /\ Verdict(d) \in {"ok", "fail"}
                          /\ main.verdict = "ok" => Verdict(d) = "ok"
         /\ d = "interrupt" => main.pc \in Working \cup {"parked"} /\ Verdict(d) = "interrupted"
         /\ drain' = [drain EXCEPT ![d].at = "take"]
<1>1. DrainTo(d, "take") /\ main' = main /\ drain[d].at = "result" /\ UNCHANGED gate
      /\ Write(Step("result", main.task, 0, Verdict(d)))
  BY DEF WriteResult, DrainAt
<1>2. drain'[d].at = "take" /\ \A x \in Drainers : drain'[x].batch = drain[x].batch
  BY <1>1, DrainMoves
<1>3. Resulted'
  BY <1>2 DEF Resulted, Past
<1>4. Taken' = Taken /\ Queued' = Queued
  BY <1>1, <1>2 DEF Taken, Drainers, Queued
<1>5. Lines' = Append(Lines, Step("result", main.task, 0, Verdict(d)))
  BY <1>1 DEF Write, Lines, Formed, ScreenFields
<1>6. main.verdict \in {"ok", "fail", "panic"}
  BY DEF Owned
<1>7. d = "main" => /\ main.pc = "draining" /\ Verdict(d) \in {"ok", "fail"}
                    /\ main.verdict = "ok" => Verdict(d) = "ok"
  BY <1>1, <1>6 DEF Owned, Verdict
<1>8. d = "interrupt" => main.pc \in Working \cup {"parked"} /\ Verdict(d) = "interrupted"
  BY <1>1 DEF Gated, Verdict
<1>9. d \in {"main", "interrupt"}
  BY DEF Drainers
<1> QED BY <1>1, <1>3, <1>4, <1>5, <1>7, <1>8, <1>9, WhereIs DEF DrainTo

(* What listing a task writes.                                               *)
LEMMA ListTells ==
  ASSUME Formed, Owned, Gated, Listed, Along, List, main.task <= N
  PROVE  /\ ~Resulted /\ ~Resulted' /\ main.pc = "listing" /\ main'.pc = "listing"
         /\ main'.task = main.task + 1 /\ main'.said = main.said /\ main'.verdict = main.verdict
         /\ Lines' = Append(Lines, Step("idle", main.task, 0, "idle"))
<1>1. main.task \in Nat /\ ~(main.task > N)
  BY BoundsAssumption DEF Listed
<1>2. /\ main.pc = "listing" /\ Write(Step("idle", main.task, 0, "idle"))
      /\ main' = [main EXCEPT !.task = @ + 1]
  BY <1>1 DEF List, At
<1>3. Lines' = Append(Lines, Step("idle", main.task, 0, "idle"))
  BY <1>2 DEF Write, Lines, Formed, ScreenFields
<1> QED BY <1>2, <1>3, WhereIs DEF Formed, MainFields

(***************************************************************************)
(* Every step keeps what the lines tell.                                    *)
(***************************************************************************)
LEMMA ToldStep ==
  ASSUME Formed, Owned, Gated, Listed, Counted, Told, [Next]_vars
  PROVE  Told'
<1>1. /\ Streamed /\ Along /\ main.task \in Nat /\ Lines \in Seq(Entry) /\ main.verdict \in Verdicts
      /\ Cardinality(Results) \in Nat /\ Cardinality(Idles) \in Nat
  BY ToldIs DEF Counted, Listed, Streamed, Owned, Verdicts
<1>2. CASE Going
  <2>1. /\ Results' = Results /\ Idles' = Idles
        /\ \A k \in Results : Lines'[k] = Lines[k]
    BY <1>1, <1>2, GoingWrites, SameTold
  <2>2. /\ Clean' => Clean
        /\ CutShort' <=> CutShort
        /\ main.pc \in Closing => main'.pc \in Closing
    BY <1>1, <1>2, MovesTell
  <2>3. /\ main'.task + (IF Resulted' THEN 1 ELSE 0) = main.task + (IF Resulted THEN 1 ELSE 0)
        /\ main'.task > 0
    <3>1. Turn
      BY <1>1, <1>2, TurnStep
    <3> QED BY <1>1, <3>1 DEF Turn, Told
  <2> QED BY <2>1, <2>2, <2>3 DEF Told
<1>3. ASSUME NEW d \in Drainers, WriteResult(d) PROVE Told'
  <2> DEFINE e == Step("result", main.task, 0, Verdict(d))
  <2> DEFINE z == Len(Lines) + 1
  <2>1. /\ ~Resulted /\ Resulted' /\ main' = main /\ Verdict(d) \in {"ok", "fail", "interrupted"}
        /\ Lines' = Append(Lines, e)
        /\ d = "main" => /\ main.pc = "draining" /\ Verdict(d) \in {"ok", "fail"}
                         /\ main.verdict = "ok" => Verdict(d) = "ok"
        /\ d = "interrupt" => main.pc \in Working \cup {"parked"} /\ Verdict(d) = "interrupted"
    BY <1>1, <1>3, WriteResultTells
  <2>2. e \in Entry /\ e.kind = "result" /\ e.nest = 0 /\ e.v = Verdict(d)
    BY <1>1, <2>1, StepIsEntry DEF Kinds, Verdicts, Step
  <2> HIDE DEF e
  <2>3. /\ z \notin Results /\ Results' = Results \cup {z} /\ Idles' = Idles
        /\ Cardinality(Results') = Cardinality(Results) + 1
        /\ \A k \in Results : Lines'[k] = Lines[k]
        /\ Lines'[z] = e
    BY <1>1, <2>1, <2>2, TellsMore
  <2> HIDE DEF z
  <2>4. main.pc \notin Closing /\ ~CutShort /\ (CutShort' <=> d = "interrupt")
    BY <2>1 DEF CutShort, Closing, Working, InBody, Drainers
  <2>5. Clean /\ (Clean' => Verdict(d) = "ok")
    BY <2>1, <2>4 DEF Clean, Drainers, Working, InBody
  <2>6. /\ Cardinality(Results') + Cardinality(Idles') + 1 = main'.task + (IF Resulted' THEN 1 ELSE 0)
        /\ main'.task > 0
    BY <1>1, <2>1, <2>3 DEF Told
  <2>7. \A k \in Results' : Lines'[k].v \in {"ok", "fail", "interrupted"}
    BY <2>1, <2>2, <2>3 DEF Told
  <2>8. \A k \in Results : Lines'[k].v = "ok"
    BY <2>3, <2>5 DEF Told
  <2>9. Clean' => \A k \in Results' : Lines'[k].v = "ok"
    BY <2>2, <2>3, <2>5, <2>8
  <2>10. (\E k \in Results' : Lines'[k].v = "interrupted") <=> Verdict(d) = "interrupted"
    BY <2>2, <2>3, <2>8
  <2>11. Verdict(d) = "interrupted" <=> d = "interrupt"
    BY <2>1 DEF Drainers
  <2>12. Idles' # {} => main'.pc \in Closing
    BY <2>1, <2>3 DEF Told
  <2> QED BY <2>4, <2>6, <2>7, <2>9, <2>10, <2>11, <2>12 DEF Told
<1>4. CASE List /\ main.task <= N
  <2> DEFINE e == Step("idle", main.task, 0, "idle")
  <2>1. /\ ~Resulted /\ ~Resulted' /\ main.pc = "listing" /\ main'.pc = "listing"
        /\ main'.task = main.task + 1 /\ Lines' = Append(Lines, e)
    BY <1>1, <1>4, ListTells
  <2>2. e \in Entry /\ e.kind = "idle" /\ e.nest = 0
    BY <1>1, StepIsEntry DEF Kinds
  <2> HIDE DEF e
  <2>3. /\ Results' = Results /\ \A k \in Results : Lines'[k] = Lines[k]
        /\ Cardinality(Idles') = Cardinality(Idles) + 1
    BY <1>1, <2>1, <2>2, TellsMore
  <2>4. ~Clean' /\ ~CutShort /\ ~CutShort' /\ main'.pc \in Closing
    BY <2>1 DEF Clean, CutShort, Closing
  <2>5. /\ Cardinality(Results') + Cardinality(Idles') + 1 = main'.task + (IF Resulted' THEN 1 ELSE 0)
        /\ main'.task > 0
    BY <1>1, <2>1, <2>3 DEF Told
  <2>6. \A k \in Results' : Lines'[k].v \in {"ok", "fail", "interrupted"} /\ Lines'[k].v # "interrupted"
    BY <2>3, <2>4 DEF Told
  <2> QED BY <2>4, <2>5, <2>6 DEF Told
<1>5. CASE List /\ main.task > N
  <2>1. Same /\ main' = [main EXCEPT !.pc = "stopping"] /\ main.pc = "listing" /\ ~Resulted /\ ~Resulted'
    BY <1>1, <1>5, ListEnds, WhereIs
  <2>2. Lines' = Lines /\ main'.task = main.task /\ main'.pc = "stopping"
    BY <2>1 DEF Same, Formed, MainFields
  <2>3. ~Clean' /\ ~CutShort /\ ~CutShort' /\ main'.pc \in Closing
    BY <2>1, <2>2 DEF Clean, CutShort, Closing
  <2> QED BY <2>1, <2>2, <2>3 DEF Told, Results, Idles
<1>6. List => main.task <= N \/ main.task > N
  BY <1>1, BoundsAssumption
<1> QED BY <1>2, <1>3, <1>4, <1>5, <1>6, StepIs DEF Going

(* At first nothing is told.                                                 *)
LEMMA ToldInit == Init => Told
<1> SUFFICES ASSUME Init PROVE Told
  OBVIOUS
<1>1. Lines = <<>> /\ main.task = 1 /\ main.pc = "next" /\ ~Resulted
  BY DEF Init, Lines, Resulted, Past, Drainers, Working, InBody
<1>2. Results = {} /\ Idles = {} /\ Cardinality({}) = 0
  BY <1>1, FS_EmptySet DEF Results, Idles
<1>3. ~CutShort
  BY <1>1 DEF CutShort, Working, InBody
<1> QED BY <1>1, <1>2, <1>3 DEF Told

-----------------------------------------------------------------------------
(* The runner implements the report.                                         *)

(* The stream is a terminal, or is none, for good.                           *)
LEMMA FramedStays == ASSUME [Next]_vars PROVE framed' = framed
<1> USE DEF Others
<1>1. CASE UNCHANGED vars
  BY <1>1 DEF vars
<1>2. CASE Between
  BY <1>2 DEF Between, NoLog, Claim, WriteStart, OpenGate, StartFrame, Publish, List, AllRun,
              StopWatching, Return
<1>3. CASE Body
  BY <1>3 DEF Body, Say, TaskEnds, CallRun, NestCheck, NestLine, NestReserve, NestEnds, NestFill,
              NestQueue, NestRest
<1>4. CASE Leave \/ Settle \/ Tick \/ Redraw \/ TickerStops \/ Deliver \/ Stall
  BY <1>4 DEF Leave, Settle, Tick, Redraw, TickerStops, Deliver, Stall
<1>5. ASSUME NEW d \in Drainers, Drain(d) PROVE framed' = framed
  BY <1>5 DEF Drain, StopFrame, Erase, WriteResult, Take, WriteTaken
<1>6. CASE Watcher \/ Interrupt \/ Wake \/ InterruptDrained \/ DieOfFirst
  BY <1>6 DEF Watcher, WatchSees, WatchQuits, WatchSecond, DieOfSecond, Interrupt, Wake,
              InterruptDrained, DieOfFirst
<1> QED BY <1>1, <1>2, <1>3, <1>4, <1>5, <1>6 DEF Next, Owner, Interrupter, Drainers

(* How many lines of each kind the reader sees.                              *)
LEMMA WrittenIs ==
  ASSUME Listed, NEW x \in Nat, Holds(Lines, 0, x)
  PROVE  /\ Report!Written("message") = x
         /\ Report!Written("result") = Cardinality(Results)
         /\ Report!Written("idle") = Cardinality(Idles)
<1>1. Lines \in Seq(Entry)
  BY DEF Listed, Streamed
<1>2. Faithful(Lines)
  BY <1>1, TopIsFaithful
<1>3. ASSUME NEW kd \in Kinds
      PROVE  Report!Written(kd) = Cardinality(PlacesOf(Lines, Shows(kd)))
  <2>1. \A i \in DOMAIN TopLines : TopLines[i] \in Row
    BY <1>2 DEF Faithful, TopLines
  <2>2. {i \in DOMAIN TopLines : TopLines[i].kind = kd} = PlacesOf(TopLines, Rows(kd))
    BY <2>1 DEF PlacesOf, Rows
  <2>3. Report!Written(kd) = Cardinality({i \in DOMAIN TopLines : TopLines[i].kind = kd})
    BY Zenon DEF Report!Written, Report!Cardinality, Cardinality
  <2>4. Cardinality(PlacesOf(TopLines, Rows(kd))) = Cardinality(PlacesOf(Lines, Shows(kd)))
    BY <1>2 DEF Faithful, TopLines
  <2> QED BY <2>2, <2>3, <2>4
<1> QED BY <1>1, <1>3, HoldsMany, ToldIs DEF Kinds

(* Nothing that was sent waits behind a closed gate.                         *)
LEMMA AllSaid ==
  ASSUME Owned, Gated, Listed, Sent, ~gate.open
  PROVE  Holds(Lines, 0, main.said)
<1>1. PICK x, y \in Nat : /\ x <= y /\ y <= main.said
                          /\ Holds(Lines, 0, x) /\ Holds(Taken, x, y)
                          /\ Holds(Queued, y, main.said)
  BY DEF Sent
<1>2. Taken = <<>> /\ Queued = <<>> /\ main.said \in Nat
  BY TakenIs DEF Listed
<1>3. x = y /\ y = main.said
  BY <1>1, <1>2, HoldsNone
<1> QED BY <1>1, <1>3

(* Where the report is.                                                      *)
PhaseFacts ==
  /\ Phase = IF CutShort THEN "interrupted"
             ELSE IF Idles # {} \/ \E k \in Results : Lines[k].v = "fail" THEN "failed"
             ELSE IF Undone THEN "inTask"
             ELSE IF Results = {} THEN "between" ELSE "closing"
  /\ Undone => Phase = "inTask"
  /\ CutShort => Phase = "interrupted"
  /\ main.pc = "claimed" => Phase \in {"between", "closing"} /\ ~Resulted
  /\ main.pc = "listing" => Phase \in {"between", "closing", "failed"}
  /\ main.pc \in Begun /\ Resulted => Phase \in {"closing", "failed", "interrupted"}
  /\ main.pc \in Begun \cup {"claimed"} => Idles = {} /\ Cardinality(Idles) = 0

(* It is there.                                                              *)
LEMMA PhaseIs == Owned /\ Gated /\ Listed /\ Told => PhaseFacts
<1> SUFFICES ASSUME Owned, Gated, Listed, Told PROVE PhaseFacts
  OBVIOUS
<1>1. /\ Cardinality(Results) \in Nat /\ main.task \in Nat /\ IsFiniteSet(Results)
      /\ IsFiniteSet(Idles)
  BY ToldIs DEF Listed, Streamed
<1>2. main.pc \in Begun \cup {"claimed"} => Idles = {} /\ Cardinality(Idles) = 0
  BY <1>1, FS_EmptySet DEF Told, Closing, Begun, InBody
<1>3. main.pc \in Begun => (Cardinality(Results) < main.task <=> ~Resulted)
  BY <1>1, <1>2 DEF Told
<1>4. main.pc \in Begun /\ Resulted => Results # {}
  BY <1>1, <1>2, FS_EmptySet DEF Told
<1>5. main.pc = "claimed" => ~Resulted
  BY DEF Owned, Gated, Resulted, Drainers, Past, Working, InBody
<1>6. ~Resulted /\ main.pc \notin Closing => \A k \in Results : Lines[k].v = "ok"
  BY DEF Told, Clean
<1>7. Undone => ~CutShort /\ main.pc \notin Closing /\ main.pc \in Begun
  BY DEF Undone, CutShort, Closing, Begun, InBody
<1>8. main.pc = "claimed" => ~CutShort /\ ~Undone /\ main.pc \notin Closing
  BY DEF Undone, CutShort, Closing, Begun, InBody, Working
<1>9. main.pc = "listing" => ~CutShort /\ ~Undone
  BY DEF Undone, CutShort, Begun, InBody, Working
<1>10. Phase = IF CutShort THEN "interrupted"
               ELSE IF Idles # {} \/ \E k \in Results : Lines[k].v = "fail" THEN "failed"
               ELSE IF Undone THEN "inTask"
               ELSE IF Results = {} THEN "between" ELSE "closing"
  BY <1>3 DEF Phase, Told, Undone
<1>11. Undone => Phase = "inTask"
  BY <1>2, <1>6, <1>7, <1>10 DEF Undone
<1>12. main.pc = "claimed" => Phase \in {"between", "closing"}
  BY <1>2, <1>5, <1>6, <1>8, <1>10
<1>13. main.pc = "listing" => Phase \in {"between", "closing", "failed"}
  BY <1>9, <1>10
<1>14. main.pc \in Begun /\ Resulted => Phase \in {"closing", "failed", "interrupted"}
  BY <1>4, <1>10 DEF Undone
<1> QED BY <1>2, <1>5, <1>10, <1>11, <1>12, <1>13, <1>14 DEF PhaseFacts

(* It stays where it is.                                                     *)
LEMMA PhaseSame ==
  ASSUME Owned, Gated, Listed, Told, (Owned /\ Gated /\ Listed /\ Told)',
         Results' = Results, Idles' = Idles, \A k \in Results : Lines'[k] = Lines[k],
         Undone' <=> Undone, CutShort' <=> CutShort, PhaseFacts'
  PROVE  Phase' = Phase
<1>1. PhaseFacts
  BY PhaseIs
<1>2. (CutShort' <=> CutShort) /\ (Undone' <=> Undone) /\ Results' = Results /\ Idles' = Idles
  OBVIOUS
<1>3. (\E k \in Results' : Lines'[k].v = "fail") <=> (\E k \in Results : Lines[k].v = "fail")
  OBVIOUS
<1> QED BY <1>1, <1>2, <1>3 DEF PhaseFacts

Reported == Formed /\ RunInv /\ Told /\ PhaseFacts

(* A step that begins no task leaves the phase.                              *)
LEMMA PhaseStays ==
  ASSUME Reported, Reported', Going, ~(main.pc = "claimed" /\ (WriteStart \/ OpenGate))
  PROVE  Phase' = Phase
<1>1. /\ Formed /\ Owned /\ Gated /\ Listed /\ Told /\ Streamed /\ Counted /\ Along
      /\ (Owned /\ Gated /\ Listed /\ Told)' /\ PhaseFacts'
  BY DEF Reported, RunInv, Counted, Listed
<1>2. Results' = Results /\ Idles' = Idles /\ \A k \in Results : Lines'[k] = Lines[k]
  BY <1>1, GoingWrites, SameTold
<1>3. (Undone' <=> Undone) /\ (CutShort' <=> CutShort)
  BY <1>1, MovesTell
<1> QED BY <1>1, <1>2, <1>3, PhaseSame

(* The step of the report that begins a task.                                *)
LEMMA BeginsIs ==
  ASSUME Reported, Reported', [Next]_vars, main.pc = "claimed", WriteStart \/ OpenGate
  PROVE  Report!Begin
<1>1. /\ Formed /\ Owned /\ Gated /\ Listed /\ Told /\ Along /\ Sent /\ Lines \in Seq(Entry)
      /\ (Owned /\ Gated /\ Listed /\ Told)' /\ main.task \in Nat
  BY DEF Reported, RunInv, Counted, Listed, Streamed
<1>2. Holds(Lines, 0, main.said) /\ main.said \in Nat
  <2>1. ~gate.open
    BY <1>1 DEF Gated, Working, InBody
  <2> QED BY <1>1, <2>1, AllSaid DEF Listed
<1>3. /\ Phase \in {"between", "closing"} /\ ~Resulted /\ Cardinality(Idles) = 0
      /\ Cardinality(Results) \in Nat
  <2>1. Cardinality(Idles) = 0 /\ ~Resulted /\ Phase \in {"between", "closing"}
    BY DEF Reported, PhaseFacts
  <2> QED BY <1>1, <2>1, ToldIs
<1>4. /\ Report!Written("message") = main.said
      /\ Report!Task = main.task
  <2>1. Cardinality(Results) + 1 = main.task
    BY <1>1, <1>3 DEF Told
  <2>2. /\ Report!Written("message") = main.said
        /\ Report!Written("result") = Cardinality(Results)
    BY <1>1, <1>2, WrittenIs
  <2> QED BY <2>1, <2>2 DEF Report!Task
<1>5. main.task <= N
  BY <1>1 DEF Along, InTask, Starting
<1>6. Phase' = "inTask"
  <2>1. ~Resulted' /\ main'.pc \in Begun
    <3>1. Going
      BY DEF Going, Quiet
    <3>2. Turn
      BY <1>1, <3>1, TurnStep
    <3>3. main'.task = main.task
      BY DEF WriteStart, OpenGate, Pc, Formed, MainFields, Reported
    <3>4. main'.pc \in Begun
      BY DEF WriteStart, OpenGate, Pc, Formed, MainFields, Reported, Begun
    <3> QED BY <1>1, <1>3, <3>2, <3>3, <3>4 DEF Turn
  <2> QED BY <2>1 DEF Undone, Reported, PhaseFacts
<1>7. TopLines' = IF ~framed THEN Append(TopLines, Report!StartLine(main.task)) ELSE TopLines
  <2>1. CASE WriteStart
    <3> DEFINE e == Step("start", main.task, 0, "busy")
    <3>1. Lines' = Append(Lines, e) /\ ~framed
      BY <1>1, <2>1 DEF WriteStart, Write, Lines, Formed, ScreenFields
    <3>2. e \in Entry /\ IsTop(e) /\ Seen(e) = Report!StartLine(main.task)
      BY <1>1, StepIsEntry DEF Kinds, Step, IsTop, Seen, Report!StartLine
    <3> HIDE DEF e
    <3> QED BY <1>1, <3>1, <3>2, TopAppend DEF TopLines
  <2>2. CASE OpenGate
    <3>1. Lines' = Lines /\ framed
      BY <2>2 DEF OpenGate, Others, Lines, At
    <3> QED BY <3>1 DEF TopLines
  <2> QED BY <2>1, <2>2
<1>8. main'.said = main.said
  BY DEF WriteStart, OpenGate, Pc, Formed, MainFields, Reported
<1> QED BY <1>3, <1>4, <1>5, <1>6, <1>7, <1>8, FramedStays DEF Report!Begin

(* A message is sent; it is queued, or written once the gate has closed.     *)
LEMMA SendsIs ==
  ASSUME Reported, Reported', [Next]_vars, Say
  PROVE  Report!Send
<1>1. /\ Formed /\ Owned /\ Gated /\ Listed /\ Told /\ Sent /\ Lines \in Seq(Entry)
      /\ (Owned /\ Gated /\ Listed /\ Told)' /\ main.said \in Nat
  BY DEF Reported, RunInv, Counted, Listed, Streamed
<1> DEFINE e == Said(main.said + 1)
<1>2. Adds(e) /\ main'.said = main.said + 1 /\ main.pc \in {"body", "nestBody"}
  BY <1>1, SayAdds DEF Say, Formed, MainFields
<1>3. /\ e \in Entry /\ IsTop(e) /\ Seen(e) = Report!MessageLine(main.said + 1)
  BY <1>1, SaidIsEntry DEF IsTop, Seen, Report!MessageLine, Said
<1> HIDE DEF e
<1>4. Phase' = Phase
  <2>1. Going /\ ~(main.pc = "claimed")
    BY <1>2 DEF Going
  <2> QED BY <2>1, PhaseStays
<1>5. main.pc \in Working /\ main.pc \in Begun
  BY <1>2 DEF Working, Begun, InBody
<1>6. Phase \in {"inTask", "interrupted"}
  BY <1>5 DEF Undone, CutShort, Reported, PhaseFacts
<1>7. CASE Lines' = Lines
  <2>1. TopLines' = TopLines
    BY <1>7 DEF TopLines
  <2> QED BY <1>2, <1>4, <1>6, <2>1, FramedStays DEF Report!Send
<1>8. CASE ~gate.open /\ Lines' = Append(Lines, e)
  <2>1. Report!Written("message") = main.said
    BY <1>1, <1>8, AllSaid, WrittenIs
  <2>2. CutShort
    <3>1. run.state = "interrupted"
      BY <1>1, <1>5, <1>8 DEF Owned, Gated
    <3>2. drain["interrupt"].at \in {"no", "done"}
      BY <1>1, <1>8 DEF Gated, Drainers
    <3> QED BY <1>5, <3>1, <3>2 DEF CutShort, Resulted, Past, Drainers
  <2>3. Phase = "interrupted"
    BY <2>2 DEF Reported, PhaseFacts
  <2>4. TopLines' = Append(TopLines, Report!MessageLine(main.said + 1))
    BY <1>1, <1>3, <1>8, TopAppend DEF TopLines
  <2> QED BY <1>2, <1>4, <2>1, <2>3, <2>4, FramedStays DEF Report!Send
<1> QED BY <1>2, <1>7, <1>8 DEF Adds, Writes

(* A drain writes what it took: the next message, or a nested Run's line.    *)
LEMMA MessagesAre ==
  ASSUME Reported, Reported', [Next]_vars, NEW d \in Drainers, WriteTaken(d)
  PROVE  [Report!Next]_(Report!vars)
<1>1. /\ Formed /\ Owned /\ Gated /\ Listed /\ Told /\ Sent /\ Counted /\ Lines \in Seq(Entry)
      /\ Taken \in Seq(Entry) /\ (Owned /\ Gated /\ Listed /\ Told)' /\ main.said \in Nat
  BY DEF Reported, RunInv, Counted, Listed, Streamed
<1>2. WritesTaken /\ main' = main /\ drain[d].at = "write"
  BY <1>1, WriteTakenMoves
<1> DEFINE e == Head(Taken)
<1>3. Lines' = Append(Lines, e) /\ Taken # <<>>
  BY <1>2 DEF WritesTaken
<1>4. e \in Entry /\ e = Taken[1] /\ 1 \in DOMAIN Taken
  BY <1>1, <1>3, TailIs
<1>5. Resulted /\ main.pc \in Begun
  <2>1. Resulted
    BY <1>2 DEF Resulted, Past
  <2>2. main.pc \in {"draining", "parked"} \cup Working
    BY <1>1, <1>2 DEF Owned, Gated, Drainers
  <2> QED BY <2>1, <2>2 DEF Begun, Working, InBody
<1>6. Phase \in {"closing", "failed", "interrupted"}
  BY <1>5 DEF Reported, PhaseFacts
<1>7. Phase' = Phase
  <2>1. Going /\ ~(main.pc = "claimed")
    BY <1>5 DEF Going, Begun, InBody
  <2> QED BY <2>1, PhaseStays
<1>8. CASE e.kind = "message"
  <2>1. PICK x, y \in Nat : /\ x <= y /\ y <= main.said
                            /\ Holds(Lines, 0, x) /\ Holds(Taken, x, y)
                            /\ Holds(Queued, y, main.said)
    BY <1>1 DEF Sent
  <2>2. e.n = x + 1 /\ x + 1 <= y
    BY <1>1, <1>3, <1>8, <2>1, HoldsTail
  <2>3. Report!Written("message") = x /\ x < main.said
    BY <1>1, <2>1, <2>2, WrittenIs
  <2>4. e.v = "said"
    BY <1>4, <1>8 DEF Entry
  <2>5. IsTop(e) /\ Seen(e) = Report!MessageLine(x + 1)
    BY <1>8, <2>2, <2>4 DEF IsTop, Seen, Report!MessageLine
  <2>6. TopLines' = Append(TopLines, Report!MessageLine(x + 1))
    BY <1>1, <1>3, <1>4, <2>5, TopAppend DEF TopLines
  <2>7. Report!Message
    BY <1>2, <1>6, <1>7, <2>3, <2>6, FramedStays DEF Report!Message
  <2> QED BY <2>7 DEF Report!Next
<1>9. CASE e.kind # "message"
  <2>1. ~IsTop(e)
    BY <1>1, <1>4, <1>9 DEF IsTop, Counted, Queues
  <2>2. TopLines' = TopLines
    BY <1>1, <1>3, <1>4, <2>1, TopAppend DEF TopLines
  <2> QED BY <1>2, <1>7, <2>2, FramedStays DEF Report!vars
<1> QED BY <1>8, <1>9

(* A drain writes the result of its task.                                    *)
LEMMA ResultsAre ==
  ASSUME Reported, Reported', [Next]_vars, NEW d \in Drainers, WriteResult(d)
  PROVE  \E v \in Report!Verdicts : Report!Result(v)
<1>1. /\ Formed /\ Owned /\ Gated /\ Listed /\ Told /\ Along /\ Lines \in Seq(Entry)
      /\ main.task \in Nat /\ Sent /\ Cardinality(Results) \in Nat
  BY ToldIs DEF Reported, RunInv, Counted, Listed, Streamed
<1> DEFINE v == Verdict(d)
<1> DEFINE e == Step("result", main.task, 0, v)
<1> DEFINE z == Len(Lines) + 1
<1>2. /\ ~Resulted /\ Resulted' /\ main' = main /\ v \in {"ok", "fail", "interrupted"}
      /\ Lines' = Append(Lines, e)
      /\ d = "main" => main.pc = "draining" /\ v \in {"ok", "fail"}
      /\ d = "interrupt" => main.pc \in Working \cup {"parked"} /\ v = "interrupted"
  BY <1>1, WriteResultTells
<1> HIDE DEF v
<1>3. main.pc \in Begun /\ Undone /\ ~CutShort
  BY <1>2 DEF Undone, Begun, Working, InBody, Drainers, CutShort
<1>4. Phase = "inTask" /\ Cardinality(Idles) = 0 /\ Idles = {}
  BY <1>3 DEF Reported, PhaseFacts
<1>5. Cardinality(Results) + 1 = main.task
  BY <1>1, <1>2, <1>4 DEF Told
<1>6. Report!Task = main.task
  <2>1. PICK x, y \in Nat : Holds(Lines, 0, x)
    BY <1>1 DEF Sent
  <2>2. Report!Written("result") = Cardinality(Results)
    BY <1>1, <2>1, WrittenIs
  <2> QED BY <1>5, <2>2 DEF Report!Task
<1>7. /\ e \in Entry /\ e.kind = "result" /\ e.nest = 0 /\ e.v = v /\ IsTop(e)
      /\ Seen(e) = Report!ResultLine(main.task, v)
  BY <1>1, <1>2, StepIsEntry DEF Kinds, Verdicts, Step, IsTop, Seen, Report!ResultLine
<1> HIDE DEF e
<1>8. TopLines' = Append(TopLines, Report!ResultLine(main.task, v))
  BY <1>1, <1>2, <1>7, TopAppend DEF TopLines
<1>9. /\ Results' = Results \cup {z} /\ Idles' = Idles
      /\ \A k \in Results : Lines'[k] = Lines[k]
      /\ Lines'[z] = e
  BY <1>1, <1>2, <1>7, TellsMore
<1> HIDE DEF z
<1>10. \A k \in Results : Lines[k].v = "ok"
  <2>1. Clean
    BY <1>2, <1>3 DEF Clean, Begun, Closing, InBody
  <2> QED BY <1>1, <2>1 DEF Told
<1>11. CutShort' <=> v = "interrupted"
  BY <1>2, <1>3 DEF CutShort, Drainers, Working, InBody
<1>12. (\E k \in Results' : Lines'[k].v = "fail") <=> v = "fail"
  BY <1>7, <1>9, <1>10
<1>13. Phase' = CASE v = "ok" -> "closing"
                  [] v = "fail" -> "failed"
                  [] v = "interrupted" -> "interrupted"
  <2>1. ~Undone' /\ Results' # {} /\ Idles' = {}
    BY <1>2, <1>4, <1>9 DEF Undone
  <2>2. PhaseFacts'
    BY DEF Reported
  <2>3. Phase' = IF v = "interrupted" THEN "interrupted" ELSE IF v = "fail" THEN "failed" ELSE "closing"
    BY <1>11, <1>12, <2>1, <2>2 DEF PhaseFacts
  <2>4. v = "ok" \/ v = "fail" \/ v = "interrupted"
    BY <1>2
  <2> QED BY <2>3, <2>4
<1>14. Report!Result(v)
  BY <1>2, <1>4, <1>6, <1>8, <1>13, FramedStays DEF Report!Result
<1> QED BY <1>2, <1>14 DEF Report!Verdicts

(* A task that did not run is listed.                                        *)
LEMMA IdlesAre ==
  ASSUME Reported, Reported', [Next]_vars, List, main.task <= N
  PROVE  Report!Idle
<1>1. /\ Formed /\ Owned /\ Gated /\ Listed /\ Told /\ Along /\ Sent /\ Lines \in Seq(Entry)
      /\ main.task \in Nat /\ main.said \in Nat
      /\ Cardinality(Results) \in Nat /\ Cardinality(Idles) \in Nat
  BY ToldIs DEF Reported, RunInv, Counted, Listed, Streamed
<1> DEFINE e == Step("idle", main.task, 0, "idle")
<1>2. /\ ~Resulted /\ ~Resulted' /\ main.pc = "listing" /\ main'.pc = "listing"
      /\ main'.task = main.task + 1 /\ main'.said = main.said
      /\ Lines' = Append(Lines, e)
  BY <1>1, ListTells
<1>3. Holds(Lines, 0, main.said)
  <2>1. ~gate.open
    BY <1>1, <1>2 DEF Gated, Working, InBody
  <2> QED BY <1>1, <2>1, AllSaid
<1>4. /\ Report!Written("message") = main.said
      /\ Report!Task + Report!Written("idle") = main.task
  <2>1. /\ Report!Written("message") = main.said
        /\ Report!Written("result") = Cardinality(Results)
        /\ Report!Written("idle") = Cardinality(Idles)
    BY <1>1, <1>3, WrittenIs
  <2>2. Cardinality(Results) + 1 + Cardinality(Idles) = main.task
    BY <1>1, <1>2 DEF Told
  <2> QED BY <2>1, <2>2 DEF Report!Task
<1>5. Phase \in {"between", "closing", "failed"}
  BY <1>2 DEF Reported, PhaseFacts
<1>6. e \in Entry /\ e.kind = "idle" /\ e.nest = 0 /\ IsTop(e) /\ Seen(e) = Report!IdleLine(main.task)
  BY <1>1, StepIsEntry DEF Kinds, Step, IsTop, Seen, Report!IdleLine
<1> HIDE DEF e
<1>7. TopLines' = Append(TopLines, Report!IdleLine(main.task))
  BY <1>1, <1>2, <1>6, TopAppend DEF TopLines
<1>8. Phase' = "failed"
  <2>1. Idles' # {}
    BY <1>1, <1>2, <1>6, TellsMore
  <2>2. ~CutShort'
    BY <1>2 DEF CutShort, Working, InBody
  <2>3. PhaseFacts'
    BY DEF Reported
  <2> QED BY <2>1, <2>2, <2>3 DEF PhaseFacts
<1> QED BY <1>1, <1>2, <1>4, <1>5, <1>7, <1>8, FramedStays DEF Report!Idle

(* Every other step shows the reader nothing.                                *)
LEMMA UnseenIs ==
  ASSUME Reported, Reported', [Next]_vars, Going, ~Say,
         ~(main.pc = "claimed" /\ (WriteStart \/ OpenGate)), \A d \in Drainers : ~WriteTaken(d)
  PROVE  UNCHANGED Report!vars
<1>1. /\ Formed /\ Owned /\ Gated /\ Listed /\ Along /\ Lines \in Seq(Entry)
  BY DEF Reported, RunInv, Counted, Listed, Streamed
<1>2. Phase' = Phase
  BY PhaseStays
<1>3. ASSUME Lines' = Lines, main'.said = main.said PROVE UNCHANGED Report!vars
  BY <1>2, <1>3, FramedStays DEF Report!vars, TopLines
<1>4. CASE Quiet
  BY <1>1, <1>3, <1>4, QuietIsSame DEF Same
<1>5. CASE NestLine \/ NestQueue \/ NestRest
  <2>1. PICK e : Inside(e) /\ Adds(e)
    BY <1>1, <1>5, NestAdds
  <2>2. e \in Entry /\ ~IsTop(e) /\ main'.said = main.said
    <3>1. main.nest > 0 /\ main.nest \in Nat
      BY <1>1, <1>5, WhereIs DEF Listed
    <3> QED BY <2>1, <3>1 DEF Inside, IsTop
  <2>3. CASE Lines' = Append(Lines, e)
    <3>1. TopLines' = TopLines
      BY <1>1, <2>2, <2>3, TopAppend DEF TopLines
    <3> QED BY <1>2, <2>2, <3>1, FramedStays DEF Report!vars
  <2> QED BY <1>3, <2>1, <2>2, <2>3 DEF Adds, Writes
<1>6. CASE NestReserve
  <2>1. Lines' = Lines /\ main'.said = main.said
    BY <1>1, <1>6, ReserveAdds DEF Same, Formed, MainFields
  <2> QED BY <1>3, <2>1
<1>7. CASE NestFill
  <2>1. Lines' = Lines /\ main'.said = main.said
    BY <1>1, <1>7, FillMoves DEF Same, Fills, Inside, Formed, MainFields
  <2> QED BY <1>3, <2>1
<1>8. WriteStart => main.pc = "claimed"
  BY DEF WriteStart, At
<1>9. ASSUME NEW d \in Drainers, Take(d) PROVE UNCHANGED Report!vars
  BY <1>1, <1>3, <1>9, TakeMoves DEF Takes
<1> QED BY <1>4, <1>5, <1>6, <1>7, <1>8, <1>9 DEF Going

(* So is the end of the list.                                                *)
LEMMA ListedIs ==
  ASSUME Reported, Reported', [Next]_vars, List, main.task > N
  PROVE  UNCHANGED Report!vars
<1>1. /\ Formed /\ Owned /\ Gated /\ Listed /\ Told /\ Along /\ (Owned /\ Gated /\ Listed /\ Told)'
      /\ PhaseFacts'
  BY DEF Reported, RunInv, Counted
<1>2. /\ Same /\ main' = [main EXCEPT !.pc = "stopping"] /\ main.pc = "listing"
      /\ ~Resulted /\ ~Resulted'
  BY <1>1, ListEnds, WhereIs
<1>3. Lines' = Lines /\ main'.pc = "stopping" /\ main'.said = main.said
  BY <1>1, <1>2 DEF Same, Formed, MainFields
<1>4. (Undone' <=> Undone) /\ (CutShort' <=> CutShort)
  BY <1>2, <1>3 DEF Undone, CutShort, Begun, InBody
<1>5. Phase' = Phase
  <2>1. Results' = Results /\ Idles' = Idles
    BY <1>3 DEF Results, Idles
  <2> QED BY <1>1, <1>3, <1>4, <2>1, PhaseSame
<1> QED BY <1>3, <1>5, FramedStays DEF Report!vars, TopLines

(* Every step is one of the report, or shows the reader nothing.             *)
LEMMA ReportStep ==
  ASSUME Reported, Reported', [Next]_vars
  PROVE  [Report!Next]_(Report!vars)
<1>1. ASSUME main.pc = "claimed", WriteStart \/ OpenGate PROVE Report!Next
  BY <1>1, BeginsIs DEF Report!Next
<1>2. ASSUME Say PROVE Report!Next
  BY <1>2, SendsIs DEF Report!Next
<1>3. ASSUME NEW d \in Drainers, WriteTaken(d) PROVE [Report!Next]_(Report!vars)
  BY <1>3, MessagesAre
<1>4. ASSUME NEW d \in Drainers, WriteResult(d) PROVE Report!Next
  BY <1>4, ResultsAre DEF Report!Next
<1>5. CASE List
  <2>1. main.task <= N => Report!Next
    BY <1>5, IdlesAre DEF Report!Next
  <2>2. main.task > N => UNCHANGED Report!vars
    BY <1>5, ListedIs
  <2>3. main.task <= N \/ main.task > N
    BY BoundsAssumption DEF Reported, RunInv, Listed
  <2> QED BY <2>1, <2>2, <2>3
<1>6. CASE Going
  BY <1>1, <1>2, <1>3, <1>6, UnseenIs
<1> QED BY <1>4, <1>5, <1>6, StepIs DEF Going

(* At first nothing is on the stream.                                        *)
LEMMA ReportInit == Init /\ Reported => Report!Init
<1> SUFFICES ASSUME Init, Reported PROVE Report!Init
  OBVIOUS
<1>1. framed \in BOOLEAN /\ main.said = 0 /\ Lines = <<>> /\ main.pc = "next"
  BY DEF Init, Lines
<1>2. TopLines = <<>>
  BY <1>1, TopEmpty DEF TopLines
<1>3. Results = {} /\ Idles = {}
  BY <1>1 DEF Results, Idles
<1>4. Phase = "between"
  BY <1>1, <1>3 DEF Phase, Begun, InBody
<1> QED BY <1>1, <1>2, <1>4 DEF Report!Init

(* The invariant, with what the lines tell.                                  *)
LEMMA ReportInvariant == Spec => []Reported
<1>1. Init => Told
  BY ToldInit
<1>2. Formed /\ RunInv /\ Told /\ [Next]_vars => Told'
  BY ToldStep DEF RunInv
<1>3. Formed /\ RunInv /\ Told => Reported
  BY PhaseIs DEF Reported, RunInv
<1> QED BY <1>1, <1>2, <1>3, RunInvariant, PTL DEF Spec

(***************************************************************************)
(* The runner implements the report: with any number of tasks, messages and *)
(* nested Runs, and however the signals, the watcher and the interrupt fall *)
(* between the steps of the owner, what is on the stream is what StepReport *)
(* allows its reader to see.                                                *)
(***************************************************************************)
THEOREM ReportIsKept == Spec => ReportKept
<1>1. Reported /\ Reported' /\ [Next]_vars => [Report!Next]_(Report!vars)
  BY ReportStep
<1> QED BY <1>1, ReportInit, ReportInvariant, PTL DEF Spec, ReportKept, Report!Spec

-----------------------------------------------------------------------------
(* Type correctness: no number goes past its bound.                          *)

Mains   == [pc : MainPc, task : 1..(N + 1), nest : 0..(M * MaxNested), verdict : Verdicts,
            nested : 0..MaxNested, said : 0..MaxMessages]
Runs    == [state : States, pending : BOOLEAN]
Gates   == [open : BOOLEAN, queue : Seq(Line)]
Frames  == [drawn : BOOLEAN, stop : BOOLEAN, ticker : {"off", "idle", "writing"}]
Drainings  == [at : {"no", "stop", "wait", "result", "take", "write", "done"}, batch : Seq(Line)]
Sigs    == [waiting : 0..MaxSignals, sent : 0..MaxSignals, quit : BOOLEAN,
            watch : {"wait", "second", "grace", "done"},
            intr : {"off", "start", "wait", "drain", "die"}]
Screens == [lines : Seq(Line), torn : BOOLEAN, stuck : BOOLEAN]
Ways    == {"no", "returned", "panicked", "first", "second"}

(* With what makes the numbers stay: no more signals wait than were sent.    *)
Typed ==
  /\ framed \in BOOLEAN /\ main \in Mains /\ run \in Runs /\ gate \in Gates
  /\ frame \in Frames /\ drain \in [Drainers -> Drainings] /\ sig \in Sigs
  /\ screen \in Screens /\ end \in Ways
  /\ sig.waiting <= sig.sent

(* What was not changed keeps its type.                                      *)
LEMMA TypedOf ==
  ASSUME Typed
  PROVE  TypeOK
BY DEF Typed, TypeOK, Mains, Runs, Gates, Frames, Drainings, Sigs, Screens, Ways

(* The numbers of the Runs inside.                                           *)
LEMMA NestBounds ==
  ASSUME main \in Mains, Numbered
  PROVE  /\ M * MaxNested \in Nat /\ M * main.nested \in Nat
         /\ main.nest # M * main.nested => main.nest + 1 \in 0..(M * MaxNested)
         /\ main.nested < MaxNested => M * main.nested + 1 \in 0..(M * MaxNested)
<1> DEFINE n == main.nested
<1>1. n \in Nat /\ n <= MaxNested /\ M \in Nat /\ M >= 1 /\ MaxNested \in Nat /\ main.nest \in Nat
  BY BoundsAssumption DEF Mains
<1> HIDE DEF n
<1>2. \E c \in Nat : MaxNested = n + c
  <2>1. MaxNested - n \in Nat /\ MaxNested = n + (MaxNested - n)
    BY <1>1
  <2> QED BY <2>1
<1>3. PICK c \in Nat : MaxNested = n + c
  BY <1>2
<1>4. M * MaxNested = M * n + M * c
  BY <1>1, <1>3
<1>5. M * n \in Nat /\ M * c \in Nat /\ M * MaxNested \in Nat
  BY <1>1
<1>6. c >= 1 => M * c >= 1
  <2>1. ASSUME c >= 1 PROVE M * c >= 1
    <3>1. c - 1 \in Nat /\ M * c = M * (c - 1) + M /\ M * (c - 1) \in Nat
      BY <1>1, <2>1
    <3> QED BY <1>1, <3>1
  <2> QED BY <2>1
<1>7. n < MaxNested => M * n + 1 \in 0..(M * MaxNested)
  BY <1>1, <1>3, <1>4, <1>5, <1>6
<1>8. main.nest # M * n => main.nest + 1 \in 0..(M * MaxNested)
  <2>1. main.nest <= M * n
    BY DEF Numbered, n
  <2> QED BY <1>1, <1>4, <1>5, <2>1
<1> QED BY <1>5, <1>7, <1>8 DEF n

(* The lines a task makes are of the type of lines.                          *)
LEMMA StepIsLine ==
  ASSUME main \in Mains, Along, main.task <= N, NEW k \in Kinds, NEW j \in {0, main.nest},
         NEW v \in Verdicts \cup {"busy", "idle", "said"}
  PROVE  Step(k, main.task, j, v) \in Line
<1>1. M * MaxNested \in Nat /\ MaxMessages \in Nat
  BY BoundsAssumption
<1>2. 0 \in 0..MaxMessages /\ j \in 0..(M * MaxNested) /\ main.task \in 1..N
  BY <1>1, BoundsAssumption DEF Mains
<1> HIDE DEF Kinds, Verdicts
<1> QED BY <1>2 DEF Step, Line

(* And the message it sends next.                                            *)
LEMMA SaidIsLine ==
  ASSUME main \in Mains, main.task <= N, main.said < MaxMessages
  PROVE  Said(main.said + 1) \in Line /\ main.said + 1 \in 0..MaxMessages
<1>1. main.said + 1 \in 0..MaxMessages /\ main.task \in 1..N /\ main.nest \in 0..(M * MaxNested)
  BY BoundsAssumption DEF Mains
<1>2. "message" \in Kinds
  BY DEF Kinds
<1> QED BY <1>1, <1>2 DEF Said, Line

(* A line written, queued or taken.                                          *)
LEMMA WriteTyped ==
  ASSUME Typed, NEW l \in Line, Write(l)
  PROVE  screen' \in Screens
<1>1. screen.lines \in Seq(Line) /\ screen.torn \in BOOLEAN /\ frame.drawn \in BOOLEAN
  BY DEF Typed, Screens, Frames
<1>2. Append(screen.lines, l) \in Seq(Line) /\ (screen.torn \/ frame.drawn) \in BOOLEAN
  BY <1>1
<1>3. screen' = [screen EXCEPT !.lines = Append(screen.lines, l), !.torn = screen.torn \/ frame.drawn]
  BY DEF Write
<1> DEFINE S == Seq(Line)
<1> DEFINE a == Append(screen.lines, l)
<1> DEFINE b == screen.torn \/ frame.drawn
<1>4. screen \in [lines : S, torn : BOOLEAN, stuck : BOOLEAN] /\ a \in S /\ b \in BOOLEAN
      /\ screen' = [screen EXCEPT !.lines = a, !.torn = b]
  BY <1>2, <1>3 DEF Typed, Screens
<1> HIDE DEF S, a, b
<1>5. screen' \in [lines : S, torn : BOOLEAN, stuck : BOOLEAN]
  BY <1>4
<1> QED BY <1>5 DEF S, Screens

(* Queued, or written if the gate has closed.                                *)
LEMMA QueueTyped ==
  ASSUME Typed, NEW l \in Line, Queue(l)
  PROVE  screen' \in Screens /\ gate' \in Gates
<1>1. CASE gate.open
  <2> DEFINE S == Seq(Line)
  <2> DEFINE a == Append(gate.queue, l)
  <2>1. gate \in [open : BOOLEAN, queue : S] /\ a \in S /\ gate' = [gate EXCEPT !.queue = a]
    BY <1>1 DEF Typed, Gates, Queue
  <2> HIDE DEF S, a
  <2>2. gate' \in [open : BOOLEAN, queue : S]
    BY <2>1
  <2> QED BY <1>1, <2>2 DEF S, Gates, Queue, Typed
<1>2. CASE ~gate.open
  BY <1>2, WriteTyped DEF Queue, Typed
<1> QED BY <1>1, <1>2

(* What a drain takes is lines of the queue.                                 *)
LEMMA BatchTyped ==
  ASSUME Typed, Listed
  PROVE  Batch \in Seq(Line)
<1>1. gate.queue \in Seq(Line)
  BY DEF Typed, Gates
<1>2. ASSUME HasPlace PROVE RemoveAt(gate.queue, Place) \in Seq(Line)
  <2>1. Place \in DOMAIN gate.queue
    BY <1>2 DEF Place, HasPlace
  <2>2. Place \in 1..Len(gate.queue) /\ Len(gate.queue) \in Nat
    BY <1>1, <2>1
  <2>3. /\ SubSeq(gate.queue, 1, Place - 1) \in Seq(Line)
        /\ SubSeq(gate.queue, Place + 1, Len(gate.queue)) \in Seq(Line)
    BY <1>1, <2>2
  <2> QED BY <2>3 DEF RemoveAt
<1> QED BY <1>1, <1>2 DEF Batch

(* A drain goes from one of its places to another.                           *)
LEMMA DrainTyped ==
  ASSUME Typed, NEW d \in Drainers, DrainTo(d, "no") \/ DrainTo(d, "stop") \/ DrainTo(d, "wait")
           \/ DrainTo(d, "result") \/ DrainTo(d, "take")
  PROVE  drain' \in [Drainers -> Drainings]
<1> DEFINE S == Seq(Line)
<1>1. PICK a \in {"no", "stop", "wait", "result", "take"} : drain' = [drain EXCEPT ![d].at = a]
  BY DEF DrainTo
<1>2. drain \in [Drainers -> Drainings] /\ drain[d] \in Drainings
  BY DEF Typed
<1>3. [drain[d] EXCEPT !.at = a] \in Drainings
  <2> HIDE DEF S
  <2>1. drain[d] \in [at : {"no", "stop", "wait", "result", "take", "write", "done"}, batch : S]
    BY <1>2 DEF Drainings, S
  <2>2. [drain[d] EXCEPT !.at = a] \in
          [at : {"no", "stop", "wait", "result", "take", "write", "done"}, batch : S]
    BY <2>1
  <2> QED BY <2>2 DEF Drainings, S
<1> QED BY <1>1, <1>2, <1>3

(* Every step keeps the types.                                               *)
LEMMA TypedStep ==
  ASSUME Formed, RunInv, Typed, [Next]_vars
  PROVE  Typed'
<1>0. /\ Owned /\ Along /\ Listed /\ Numbered /\ Gated /\ Watched
      /\ framed \in BOOLEAN /\ main \in Mains /\ run \in Runs /\ gate \in Gates
      /\ frame \in Frames /\ drain \in [Drainers -> Drainings] /\ sig \in Sigs
      /\ screen \in Screens /\ end \in Ways /\ sig.waiting <= sig.sent
  BY DEF RunInv, Counted, Placed, Typed
<1> USE <1>0
<1>a. /\ main.task \in Nat /\ main.task >= 1 /\ main.task <= N + 1 /\ N \in Nat /\ N >= 1
      /\ main.pc \in InTask => main.task <= N
  BY BoundsAssumption DEF Mains, Along
<1>b. 0 \in 0..(M * MaxNested) /\ M * MaxNested \in Nat
  BY NestBounds
<1>c. M * main.nested \in Nat /\ MaxNested \in Nat
  BY NestBounds, BoundsAssumption
<1> USE DEF Others, At, Pc, DrainAt, BackInTask
<1>1. CASE UNCHANGED vars
  BY <1>1 DEF vars, Typed
<1>2. CASE NoLog
  BY <1>2 DEF NoLog, Typed, Mains, MainPc
<1>3. CASE Claim
  BY <1>3 DEF Claim, Typed, Mains, MainPc, Begun, Runs, States
<1>4. CASE AllRun
  BY <1>4 DEF AllRun, Typed, Mains, MainPc
<1>5. CASE WriteStart
  <2>1. Step("start", main.task, 0, "busy") \in Line
    BY <1>5, <1>a, StepIsLine DEF WriteStart, InTask, Starting, Kinds
  <2>2. screen' \in Screens
    BY <1>5, <2>1, WriteTyped DEF WriteStart
  <2>3. main' \in Mains
    BY <1>5 DEF WriteStart, Mains, MainPc, Begun
  <2> QED BY <1>5, <2>2, <2>3 DEF WriteStart, Typed
<1>6. CASE List
  <2>1. CASE main.task > N
    BY <1>6, <2>1 DEF List, Typed, Mains, MainPc
  <2>2. CASE ~(main.task > N)
    <3>1. main.task <= N /\ main.task + 1 \in 1..(N + 1)
      BY <1>a, <2>2
    <3>2. Step("idle", main.task, 0, "idle") \in Line
      BY <3>1, StepIsLine DEF Kinds
    <3>3. screen' \in Screens
      BY <1>6, <2>2, <3>2, WriteTyped DEF List
    <3>4. main' \in Mains
      BY <1>6, <2>2, <3>1 DEF List, Mains
    <3> QED BY <1>6, <3>3, <3>4 DEF List, Typed
  <2> QED BY <2>1, <2>2
<1>7. CASE OpenGate
  BY <1>7 DEF OpenGate, Typed, Mains, MainPc, Begun, Gates
<1>8. CASE StartFrame
  BY <1>8 DEF StartFrame, Typed, Mains, MainPc, Begun, Frames
<1>9. CASE Publish
  BY <1>9 DEF Publish, Typed, Mains, MainPc, Begun, InBody, Runs, States
<1>10. CASE StopWatching
  BY <1>10 DEF StopWatching, Typed, Mains, MainPc, Sigs
<1>11. CASE Return
  <2>1. gate' \in Gates
    <3>1. <<>> \in Seq(Line)
      OBVIOUS
    <3> QED BY <1>11, <3>1 DEF Return, Gates
  <2> QED BY <1>11, <2>1 DEF Return, Typed, Ways
<1>12. CASE Say
  <2>1. main.task <= N
    BY <1>12, <1>a DEF Say, InTask, Working, InBody
  <2>2. Said(main.said + 1) \in Line /\ main.said + 1 \in 0..MaxMessages
    BY <1>12, <2>1, SaidIsLine DEF Say
  <2>3. screen' \in Screens /\ gate' \in Gates
    BY <1>12, <2>2, QueueTyped DEF Say
  <2>4. main' \in Mains
    BY <1>12, <2>2 DEF Say, Mains
  <2> QED BY <1>12, <2>3, <2>4 DEF Say, Typed
<1>13. CASE TaskEnds
  <2>1. main' \in Mains
    BY <1>13 DEF TaskEnds, Mains, MainPc, Begun, Verdicts
  <2> QED BY <1>13, <2>1 DEF TaskEnds, Typed
<1>14. CASE CallRun
  <2>1. M * main.nested + 1 \in 0..(M * MaxNested) /\ main.nested + 1 \in 0..MaxNested
    BY <1>14, NestBounds, <1>c DEF CallRun, Mains
  <2>2. main' \in Mains
    BY <1>14, <2>1 DEF CallRun, Mains, MainPc, Begun, InBody
  <2> QED BY <1>14, <2>2 DEF CallRun, Typed
<1>15. CASE NestCheck
  <2>1. main' \in Mains
    BY <1>15, <1>b DEF NestCheck, Mains, MainPc, Begun, InBody
  <2> QED BY <1>15, <2>1 DEF NestCheck, Typed
<1>16. CASE NestLine
  <2>1. Step("start", main.task, main.nest, "busy") \in Line
    BY <1>16, <1>a, StepIsLine DEF NestLine, InTask, Working, InBody, Kinds
  <2>2. screen' \in Screens /\ gate' \in Gates
    BY <1>16, <2>1, QueueTyped DEF NestLine
  <2>3. main' \in Mains
    BY <1>16 DEF NestLine, Mains, MainPc, Begun, InBody
  <2> QED BY <1>16, <2>2, <2>3 DEF NestLine, Typed
<1>d. ~LastNested => main.nest + 1 \in 0..(M * MaxNested)
  BY NestBounds DEF LastNested
<1>e. ASSUME NestOn PROVE main' \in Mains
  BY <1>e, <1>b, <1>d DEF NestOn, Mains, MainPc, Begun, InBody
<1>f. ASSUME main.task <= N PROVE NestResult \in Line
  BY <1>f, StepIsLine DEF NestResult, Kinds, Mains
<1>17. CASE NestRest
  <2>1. Step("idle", main.task, main.nest, "idle") \in Line
    BY <1>17, <1>a, StepIsLine DEF NestRest, InTask, Working, InBody, Kinds
  <2>2. screen' \in Screens /\ gate' \in Gates
    BY <1>17, <2>1, QueueTyped DEF NestRest
  <2>3. main' \in Mains
    BY <1>17, <1>b, <1>d DEF NestRest, Mains, MainPc, Begun, InBody
  <2> QED BY <1>17, <2>2, <2>3 DEF NestRest, Typed
<1>18. CASE NestQueue
  <2>1. NestResult \in Line
    BY <1>18, <1>a, <1>f DEF NestQueue, InTask, Working, InBody
  <2>2. screen' \in Screens /\ gate' \in Gates
    BY <1>18, <2>1, QueueTyped DEF NestQueue
  <2> QED BY <1>18, <1>e, <2>2 DEF NestQueue, Typed
<1>19. CASE NestReserve
  <2>1. Step("place", main.task, main.nest, "busy") \in Line
    BY <1>19, <1>a, StepIsLine DEF NestReserve, InTask, Working, InBody, Kinds
  <2> DEFINE S == Seq(Line)
  <2> DEFINE q == Append(gate.queue, Step("place", main.task, main.nest, "busy"))
  <2>2. q \in S /\ gate \in [open : BOOLEAN, queue : S]
    BY <2>1 DEF Gates
  <2>3. gate' = IF gate.open THEN [gate EXCEPT !.queue = q] ELSE gate
    BY <1>19 DEF NestReserve
  <2> HIDE DEF S, q
  <2>4. gate' \in [open : BOOLEAN, queue : S]
    BY <2>2, <2>3
  <2>5. gate' \in Gates
    BY <2>4 DEF S, Gates
  <2>6. main' \in Mains
    BY <1>19 DEF NestReserve, Mains, MainPc, Begun, InBody
  <2> QED BY <1>19, <2>5, <2>6 DEF NestReserve, Typed
<1>20. CASE NestEnds
  <2>1. main' \in Mains
    BY <1>20, <1>b DEF NestEnds, Mains, MainPc, Begun, InBody, Verdicts
  <2> QED BY <1>20, <2>1 DEF NestEnds, Typed
<1>21. CASE NestFill
  <2>1. CASE ~HasPlace
    <3>1. main' \in Mains
      BY <1>21, <2>1 DEF NestFill, Mains, MainPc, Begun, InBody
    <3> QED BY <1>21, <2>1, <3>1 DEF NestFill, Typed
  <2>2. CASE HasPlace
    <3>1. NestResult \in Line
      BY <1>21, <1>a, <1>f DEF NestFill, InTask, Working, InBody
    <3> DEFINE q == [k \in DOMAIN gate.queue |->
                       IF Blank(gate.queue[k]) THEN NestResult ELSE gate.queue[k]]
    <3> DEFINE S == Seq(Line)
    <3>2. gate.queue \in S /\ gate \in [open : BOOLEAN, queue : S]
      BY DEF Gates
    <3>3. q \in S
      <4>1. DOMAIN gate.queue = 1..Len(gate.queue) /\ Len(gate.queue) \in Nat
            /\ \A k \in DOMAIN gate.queue : gate.queue[k] \in Line
        BY <3>2
      <4>2. q \in [1..Len(gate.queue) -> Line]
        BY <3>1, <4>1
      <4> QED BY <4>1, <4>2
    <3>4. gate' = [gate EXCEPT !.queue = q] /\ NestOn
      BY <1>21, <2>2 DEF NestFill
    <3> HIDE DEF q, S
    <3>5. gate' \in [open : BOOLEAN, queue : S]
      BY <3>2, <3>3, <3>4
    <3>6. gate' \in Gates
      BY <3>5 DEF S, Gates
    <3> QED BY <1>21, <1>e, <3>4, <3>6 DEF NestFill, Typed
  <2> QED BY <2>1, <2>2
<1>22. CASE Leave
  <2>1. drain' \in [Drainers -> Drainings]
    BY <1>22, DrainTyped DEF Leave, DrainFrom, DrainTo, Drainers
  <2> QED BY <1>22, <2>1 DEF Leave, Typed, Mains, MainPc, Begun, Runs, States
<1>23. CASE Settle
  <2>1. drain' \in [Drainers -> Drainings]
    BY <1>23, DrainTyped DEF Settle, Drainers
  <2>2. main.task <= N /\ main.task + 1 \in 1..(N + 1)
    <3>1. main.pc \in InTask
      BY <1>23 DEF Settle, Owned, InTask
    <3> QED BY <1>a, <3>1
  <2> DEFINE t == IF main.verdict = "panic" THEN main.task ELSE main.task + 1
  <2> DEFINE pc == CASE main.verdict = "ok"    -> "next"
                     [] main.verdict = "fail"  -> "listing"
                     [] main.verdict = "panic" -> "stopping"
  <2>3. t \in 1..(N + 1) /\ main \in Mains
    BY <2>2 DEF Mains
  <2>4. pc \in MainPc
    BY DEF MainPc, Owned
  <2>5. main' = [main EXCEPT !.task = t, !.pc = pc]
    BY <1>23 DEF Settle
  <2> HIDE DEF t, pc
  <2>6. main' \in Mains
    BY <2>3, <2>4, <2>5 DEF Mains
  <2>7. run' \in Runs
    BY <1>23 DEF Settle, Runs, States
  <2> QED BY <1>23, <2>1, <2>6, <2>7 DEF Settle, Typed
<1>24. ASSUME NEW d \in Drainers, StopFrame(d) PROVE Typed'
  BY <1>24, DrainTyped DEF StopFrame, Typed, Frames
<1>25. ASSUME NEW d \in Drainers, Erase(d) PROVE Typed'
  BY <1>25, DrainTyped DEF Erase, Typed, Frames
<1>26. ASSUME NEW d \in Drainers, WriteResult(d) PROVE Typed'
  <2>1. main.task <= N
    BY <1>26, <1>a DEF WriteResult, Owned, Gated, InTask, Drainers
  <2>2. Verdict(d) \in Verdicts
    BY DEF Verdict, Verdicts, Mains
  <2>3. Step("result", main.task, 0, Verdict(d)) \in Line
    BY <2>1, <2>2, StepIsLine DEF Kinds
  <2>4. screen' \in Screens /\ drain' \in [Drainers -> Drainings]
    BY <1>26, <2>3, WriteTyped, DrainTyped DEF WriteResult
  <2> QED BY <1>26, <2>4 DEF WriteResult, Typed
<1>27. ASSUME NEW d \in Drainers, Take(d) PROVE Typed'
  <2> DEFINE S == Seq(Line)
  <2> DEFINE a == IF gate.queue = <<>> THEN "done" ELSE IF Batch = <<>> THEN "take" ELSE "write"
  <2>1. Batch \in S /\ a \in {"done", "take", "write"} /\ <<>> \in S
    BY BatchTyped
  <2>2. drain' = [drain EXCEPT ![d] = [at |-> a, batch |-> Batch]]
    BY <1>27 DEF Take
  <2>3. [at |-> a, batch |-> Batch] \in Drainings
    <3> HIDE DEF S, a
    <3>1. [at |-> a, batch |-> Batch] \in
            [at : {"no", "stop", "wait", "result", "take", "write", "done"}, batch : S]
      BY <2>1
    <3> QED BY <3>1 DEF S, Drainings
  <2>4. drain' \in [Drainers -> Drainings]
    <3> HIDE DEF a
    <3> QED BY <2>2, <2>3
  <2>5. gate' \in Gates
    <3>1. PICK o \in BOOLEAN : gate' = [open |-> o, queue |-> <<>>]
      BY <1>27 DEF Take, Gates
    <3> QED BY <2>1, <3>1 DEF Gates
  <2> QED BY <1>27, <2>4, <2>5 DEF Take, Typed
<1>28. ASSUME NEW d \in Drainers, WriteTaken(d) PROVE Typed'
  <2>1. drain[d].batch \in Seq(Line) /\ drain[d].batch # <<>>
    BY <1>28 DEF WriteTaken, Gated, Drainings
  <2>2. Head(drain[d].batch) \in Line /\ Tail(drain[d].batch) \in Seq(Line)
    BY <2>1
  <2>3. screen' \in Screens
    BY <1>28, <2>2, WriteTyped DEF WriteTaken
  <2> DEFINE S == Seq(Line)
  <2> DEFINE a == IF Len(drain[d].batch) = 1 THEN "take" ELSE "write"
  <2> DEFINE b == Tail(drain[d].batch)
  <2>4. drain' = [drain EXCEPT ![d] = [at |-> a, batch |-> b]]
    BY <1>28 DEF WriteTaken
  <2>5. [at |-> a, batch |-> b] \in Drainings
    <3>1. a \in {"take", "write"} /\ b \in S
      BY <2>2
    <3> HIDE DEF S, a, b
    <3>2. [at |-> a, batch |-> b] \in
            [at : {"no", "stop", "wait", "result", "take", "write", "done"}, batch : S]
      BY <3>1
    <3> QED BY <3>2 DEF S, Drainings
  <2>6. drain' \in [Drainers -> Drainings]
    <3> HIDE DEF a, b
    <3> QED BY <2>4, <2>5
  <2> QED BY <1>28, <2>3, <2>6 DEF WriteTaken, Typed
<1>29. CASE Tick
  BY <1>29 DEF Tick, Typed, Frames
<1>30. CASE Redraw
  BY <1>30 DEF Redraw, Typed, Frames
<1>31. CASE TickerStops
  BY <1>31 DEF TickerStops, Typed, Frames
<1>32. CASE Deliver
  <2>1. sig.sent + 1 \in 0..MaxSignals /\ sig.waiting + 1 \in 0..MaxSignals
        /\ sig.waiting + 1 <= sig.sent + 1
    BY <1>32, BoundsAssumption DEF Deliver, Sigs
  <2> QED BY <1>32, <2>1 DEF Deliver, Typed, Sigs
<1>g. sig.waiting > 0 => sig.waiting - 1 \in 0..MaxSignals /\ sig.waiting - 1 <= sig.sent
  BY BoundsAssumption DEF Sigs
<1>33. CASE WatchSees
  BY <1>33, <1>g DEF WatchSees, Typed, Sigs
<1>34. CASE WatchQuits
  BY <1>34 DEF WatchQuits, Typed, Sigs
<1>35. CASE WatchSecond
  BY <1>35, <1>g DEF WatchSecond, Typed, Sigs
<1>36. CASE DieOfSecond
  BY <1>36 DEF DieOfSecond, Typed, Ways
<1>h. ASSUME TakeOver
      PROVE  run' \in Runs /\ drain' \in [Drainers -> Drainings] /\ sig' \in Sigs
             /\ sig'.waiting <= sig'.sent
  <2>1. drain' \in [Drainers -> Drainings]
    BY <1>h, DrainTyped DEF TakeOver, DrainFrom, Drainers
  <2>2. run' \in Runs
    BY <1>h DEF TakeOver, Runs, States
  <2>3. sig' \in Sigs /\ sig'.waiting <= sig'.sent
    BY <1>h DEF TakeOver, Sigs
  <2> QED BY <2>1, <2>2, <2>3
<1>37. CASE Interrupt
  <2>1. CASE run.state \in {"starting", "draining"}
    BY <1>37, <2>1 DEF Interrupt, Typed, Runs, Sigs
  <2>2. CASE ~(run.state \in {"starting", "draining"})
    BY <1>37, <2>2, <1>h DEF Interrupt, Typed
  <2> QED BY <2>1, <2>2
<1>38. CASE Wake
  BY <1>38, <1>h DEF Wake, Typed
<1>39. CASE InterruptDrained
  <2>1. drain' \in [Drainers -> Drainings]
    BY <1>39, DrainTyped DEF InterruptDrained, Drainers
  <2> QED BY <1>39, <2>1 DEF InterruptDrained, Typed, Sigs
<1>40. CASE DieOfFirst
  BY <1>40 DEF DieOfFirst, Typed, Ways
<1>41. CASE Stall
  BY <1>41 DEF Stall, Typed, Screens
<1> QED BY <1>1, <1>2, <1>3, <1>4, <1>5, <1>6, <1>7, <1>8, <1>9, <1>10, <1>11, <1>12,
           <1>13, <1>14, <1>15, <1>16, <1>17, <1>18, <1>19, <1>20, <1>21, <1>22, <1>23,
           <1>24, <1>25, <1>26, <1>27, <1>28, <1>29, <1>30, <1>31, <1>32, <1>33, <1>34,
           <1>35, <1>36, <1>37, <1>38, <1>39, <1>40, <1>41
       DEF Next, Owner, Between, Body, Drain, Watcher, Interrupter, Drainers

(* The first state is of the types.                                          *)
LEMMA TypedInit == Init => Typed
<1> SUFFICES ASSUME Init PROVE Typed
  OBVIOUS
<1>1. M * MaxNested \in Nat /\ N \in Nat /\ N >= 1 /\ MaxNested \in Nat /\ MaxMessages \in Nat
      /\ MaxSignals \in Nat
  <2>1. M \in Nat /\ MaxNested \in Nat
    BY BoundsAssumption
  <2>2. M * MaxNested \in Nat
    BY <2>1
  <2> QED BY <2>1, <2>2, BoundsAssumption
<1>2. main \in Mains
  BY <1>1 DEF Init, Mains, MainPc, Verdicts
<1>3. <<>> \in Seq(Line)
  OBVIOUS
<1>4. gate \in Gates /\ screen \in Screens
  BY <1>3 DEF Init, Gates, Screens
<1>5. drain \in [Drainers -> Drainings]
  BY <1>3 DEF Init, Drainings
<1>6. sig \in Sigs /\ sig.waiting <= sig.sent
  BY <1>1 DEF Init, Sigs
<1> QED BY <1>2, <1>4, <1>5, <1>6 DEF Init, Typed, Runs, States, Frames, Ways

(***************************************************************************)
(* The types, for any number of tasks, nested Runs, messages and signals:   *)
(* what is counted stays within its bound, and every line is of a task of   *)
(* the Run or of a Run inside it.                                           *)
(***************************************************************************)
THEOREM TypeCorrect == Spec => []TypeOK
<1>1. Formed /\ RunInv /\ Typed /\ [Next]_vars => Typed'
  BY TypedStep
<1>2. Typed => TypeOK
  BY TypedOf
<1> QED BY <1>1, <1>2, TypedInit, RunInvariant, PTL DEF Spec
=============================================================================
