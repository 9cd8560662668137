-------------------------------- MODULE TaskLog --------------------------------
(***************************************************************************)
(* A task's log (src/internal/output/log.go): a child writes bytes to a     *)
(* file that only grows, and ws reads what is new at each tick, no more     *)
(* than the window at its end, for the lines it shows.  A byte is of a      *)
(* kind, and a line is the sequence of its bytes' places in the file.       *)
(***************************************************************************)
EXTENDS Integers, Sequences, FiniteSets, SequencesExt

CONSTANTS TailLines,    \* how many lines the tail has
          LineCap,      \* where a line is cut
          ReadWindow,   \* how much of what is new a read parses
          Marker,       \* how many bytes the truncation marker has
          MaxBytes      \* bound on what the child writes

ASSUME LogAssumption ==
  /\ {TailLines, ReadWindow, MaxBytes} \subseteq Nat \ {0}
  /\ Marker \in Nat /\ LineCap \in Nat /\ LineCap > Marker + 1

VARIABLES file,   \* the kinds of the bytes written
          log     \* what the log keeps of them

logVars == <<file, log>>

(* A rune is a text or a blank byte, or a lead byte and its continuation.    *)
ByteKinds == {"text", "blank", "lead", "cont", "lf", "cr"}

(* A line as it is shown: after the marker or not, and which bytes.          *)
ShownLine(mark, bytes) == [mark |-> mark, bytes |-> bytes]

(* from is where the last window began, for the property: a ghost.           *)
NewLog == [off |-> 0, from |-> 0, partial |-> <<>>, cr |-> FALSE, full |-> FALSE,
           cut |-> FALSE, lines |-> <<>>]

LogTypeOK ==
  /\ file \in Seq(ByteKinds) /\ Len(file) <= MaxBytes
  /\ log.off \in 0..Len(file) /\ log.from \in 0..log.off
  /\ {log.cr, log.full, log.cut} \subseteq BOOLEAN
  /\ ToSet(log.partial) \subseteq DOMAIN file /\ Len(log.partial) <= LineCap
  /\ Len(log.lines) <= TailLines

LogInit == file = <<>> /\ log = NewLog

-----------------------------------------------------------------------------
(* Lines.                                                                    *)

ShowsNothing(bytes) == \A k \in DOMAIN bytes : file[bytes[k]] = "blank"

TrimIncompleteRune(bytes) ==
  IF bytes # <<>> /\ file[Last(bytes)] = "lead" THEN Front(bytes) ELSE bytes

(* What is left of a rune that a window cut goes with the cut.               *)
TrimCut(bytes) ==
  IF bytes # <<>> /\ file[Head(bytes)] = "cont" THEN Tail(bytes) ELSE bytes

Capped(bytes, room) ==
  IF Len(bytes) <= room THEN bytes
  ELSE TrimIncompleteRune(SubSeq(bytes, 1, room))

Shown(l) ==
  LET rest == TrimCut(l.partial) IN
  IF ~l.cut THEN ShownLine(FALSE, l.partial)
  ELSE IF ShowsNothing(rest) THEN ShownLine(FALSE, rest)
  ELSE ShownLine(TRUE, Capped(rest, LineCap - Marker))

LastOf(lines) ==
  SubSeq(lines, Len(lines) - Min({Len(lines), TailLines}) + 1, Len(lines))

EndLine(l) ==
  [l EXCEPT !.partial = <<>>, !.full = FALSE, !.cut = FALSE,
            !.lines = IF ShowsNothing(Shown(l).bytes) THEN @
                      ELSE LastOf(Append(@, Shown(l)))]

(* A carriage return starts the line again, once something follows it.       *)
Restart(l) ==
  IF l.cr THEN [l EXCEPT !.partial = <<>>, !.full = FALSE, !.cr = FALSE, !.cut = FALSE]
  ELSE l

AddByte(l, i) ==
  LET line == Restart(l) IN
  IF line.full THEN line
  ELSE IF Len(line.partial) < LineCap THEN [line EXCEPT !.partial = Append(@, i)]
  ELSE [line EXCEPT !.full = TRUE, !.partial = TrimIncompleteRune(@)]

Consume(l, i) ==
  CASE file[i] = "lf" -> EndLine([l EXCEPT !.cr = FALSE])
    [] file[i] = "cr" -> [l EXCEPT !.cr = TRUE]
    [] OTHER          -> AddByte(l, i)

Skipped(start) ==
  [NewLog EXCEPT !.off = start, !.from = start, !.cut = file[start] \notin {"lf", "cr"}]

SkippedOnly(l, end) ==
  IF end - l.off <= ReadWindow + 1 THEN l
  ELSE [Skipped(end - ReadWindow - 1) EXCEPT !.lines = l.lines]

(* Past the window, what was kept goes; the read begins a byte before it.    *)
Window(l, end) ==
  IF end - l.off <= ReadWindow + 1 THEN l ELSE Skipped(end - ReadWindow - 1)

(* What is new is parsed byte by byte, up to stop.                           *)
Parsed(l, stop) ==
  LET read[k \in 0..(stop - l.off)] ==
        IF k = 0 THEN l ELSE Consume(read[k - 1], l.off + k)
  IN [read[stop - l.off] EXCEPT !.off = stop]

(* What Tail returns, and the live line.                                     *)
TailOf(l) ==
  LastOf(IF ShowsNothing(Shown(l).bytes) THEN l.lines ELSE Append(l.lines, Shown(l)))

LiveLine(l) ==
  IF ~ShowsNothing(Shown(l).bytes) THEN Shown(l)
  ELSE IF l.lines = <<>> THEN ShownLine(FALSE, <<>>) ELSE Last(l.lines)

-----------------------------------------------------------------------------
(* Steps.                                                                    *)

(* The child, or the task, writes; between two reads it may write any amount.*)
ChildWrites ==
  /\ Len(file) < MaxBytes
  /\ \E byte \in ByteKinds :
       /\ (byte = "cont") <=> (file # <<>> /\ Last(file) = "lead")
       /\ file' = Append(file, byte)
  /\ UNCHANGED log

(* readNew, under the log's lock: to the file's end when it began, or to     *)
(* where an error stopped it.                                                *)
ReadNew ==
  /\ log.off < Len(file)
  /\ LET w == Window(log, Len(file)) IN
     \E stop \in w.off..Len(file) : log' = Parsed(w, stop)
  /\ UNCHANGED file

LogNext == ChildWrites \/ ReadNew

LogSpec == LogInit /\ [][LogNext]_logVars

-----------------------------------------------------------------------------
(* What the log keeps to.                                                    *)

(* The lines of the file as a terminal would have shown them, each from its  *)
(* last restart; a line is told by the place before which it ends.           *)
LineEnds    == {i \in 1..log.off : file[i] = "lf"} \cup {log.off + 1}
Begins(e)   == Max({b \in 1..e : b = 1 \/ file[b - 1] = "lf"})
IsText(i)   == file[i] \notin {"lf", "cr"}
Restarts(e) == {i \in (Begins(e) + 1)..(e - 1) : IsText(i) /\ file[i - 1] = "cr"}
From(e)     == Max(Restarts(e) \cup {Begins(e)})

(* The members of S up to n, in their order.                                 *)
InOrder(S, n) ==
  LET upTo[k \in 0..n] ==
        IF k = 0 THEN <<>>
        ELSE IF k \in S THEN Append(upTo[k - 1], k) ELSE upTo[k - 1]
  IN upTo[n]

(* The bytes of a line that stand after a place.                             *)
TextOf(e, after) == InOrder({i \in From(e)..(e - 1) : IsText(i) /\ i > after}, e - 1)

(* And as a log that began to read at from can know it.                      *)
Known(e, from) ==
  IF From(e) > from \/ TextOf(e, 0) = <<>>
  THEN ShownLine(FALSE, Capped(TextOf(e, 0), LineCap))
  ELSE LET rest == TrimCut(Capped(TextOf(e, from), LineCap)) IN
       ShownLine(~ShowsNothing(rest), Capped(rest, LineCap - Marker))

KnownLines ==
  LET ends == InOrder({e \in LineEnds : e > log.from
                                        /\ ~ShowsNothing(Known(e, log.from).bytes)},
                      log.off + 1)
  IN [k \in DOMAIN ends |-> Known(ends[k], log.from)]

(***************************************************************************)
(* However the child's writes and the reads fall, and whatever the window   *)
(* skipped, the tail is the last lines that are not blank of what was read, *)
(* as a terminal would have shown them, with none left out between them;    *)
(* only a line that a window began inside has the marker; no kept line      *)
(* begins or ends inside a rune; and the live line is the tail's last.      *)
(***************************************************************************)
TailIsTrue ==
  LET tail == TailOf(log) IN
  /\ tail = LastOf(KnownLines)
  /\ \A k \in DOMAIN log.lines :
       /\ file[Head(log.lines[k].bytes)] # "cont"
       /\ file[Last(log.lines[k].bytes)] # "lead"
       /\ log.lines[k].mark => k = 1
  /\ LiveLine(log) = IF tail = <<>> THEN ShownLine(FALSE, <<>>) ELSE Last(tail)
=============================================================================
