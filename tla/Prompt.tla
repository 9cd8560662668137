-------------------------------- MODULE Prompt --------------------------------
(***************************************************************************)
(* A prompt, from the question to what its caller is told or the death of   *)
(* the process (src/internal/output/prompt.go, prompt_input.go, signal.go): *)
(* the goroutine that asks, Bubble Tea's run of the form, the channel of    *)
(* signals with its recorder and watchdog, and the terminal.  Under         *)
(* TERM=dumb there is no Bubble Tea and nothing is recorded: the form is    *)
(* read line by line.                                                       *)
(***************************************************************************)
EXTENDS Naturals, Sequences, FiniteSets

CONSTANTS NFields,    \* fields of the form
          MaxCopies   \* bound on the signals a prompt is sent; more than the
                      \* channel's three places, so that a copy can be dropped

ASSUME PromptAssumption == NFields \in Nat /\ MaxCopies \in Nat

VARIABLES asker,   \* the goroutine that asks, and what came of it
          tea,     \* Bubble Tea's run, and its copy of a signal
          queue,   \* os/signal's channel: the copies in it, and whether it is open
          rec,     \* the recorder and its watchdog
          tty      \* the terminal: raw, and whether it does not drain

promptVars == <<asker, tea, queue, rec, tty>>

Sigs == {"INT", "TERM", "HUP"}
Room == 3

(***************************************************************************)
(* What the caller is told: the answer, that the prompt was cancelled by a  *)
(* signal, that there is no terminal, or another error.                     *)
(***************************************************************************)
Told == {"none", "answer", "noTTY", "noAnswer", "insideRun", "failed",
         "INT", "TERM", "HUP"}
Deaths == {"no"} \cup Sigs

PromptTypeOK ==
  /\ asker \in [pc : {"ready", "save", "listen", "run", "stopping", "outcome",
                      "reading", "told", "dead", "off"},
                dumb : BOOLEAN, ignored : SUBSET {"INT", "HUP"}, told : Told,
                death : Deaths, lines : 0..NFields, asked : 0..NFields,
                latch : {"no", "ended", "failed"}, sent : 0..MaxCopies,
                got : SUBSET Sigs]
  /\ tea \in [at : {"off", "up", "quitting", "hung", "returned"},
              ret : {"none", "completed", "aborted", "incomplete", "error", "panic"},
              sig : {"none", "INT", "TERM"}]
  /\ queue \in [copies : Seq(Sigs), open : BOOLEAN] /\ Len(queue.copies) <= Room
  /\ rec \in [at : {"off", "recording", "restoring", "done"}, hangup : BOOLEAN,
              first : Sigs \cup {"none"}, armed : Sigs \cup {"none"}, fire : BOOLEAN]
  /\ tty \in [raw : BOOLEAN, stuck : BOOLEAN]

Calm(pc) ==
  /\ asker \in [pc : {pc}, dumb : BOOLEAN, ignored : SUBSET {"INT", "HUP"},
                told : {"none"}, death : {"no"}, lines : {0}, asked : {0},
                latch : {"no"}, sent : {0}, got : {{}}]
  /\ tea = [at |-> "off", ret |-> "none", sig |-> "none"]
  /\ queue = [copies |-> <<>>, open |-> FALSE]
  /\ rec = [at |-> "off", hangup |-> FALSE, first |-> "none", armed |-> "none",
            fire |-> FALSE]

PromptInit ==
  /\ Calm("ready") /\ asker.ignored \in {{}, {"INT", "HUP"}}
  /\ tty \in [raw : {FALSE},
              stuck : IF asker.dumb \/ asker.ignored # {} THEN {FALSE} ELSE BOOLEAN]

(* No prompt is asked.                                                       *)
PromptOff ==
  /\ Calm("off") /\ ~asker.dumb /\ asker.ignored = {}
  /\ tty = [raw |-> FALSE, stuck |-> FALSE]

In(pc)   == asker.pc = pc
Move(pc) == asker' = [asker EXCEPT !.pc = pc]
Tell(r)  == asker' = [asker EXCEPT !.pc = "told", !.told = r]

-----------------------------------------------------------------------------
(* Asking.                                                                   *)

(***************************************************************************)
(* ask refuses when stdin or stderr is not a terminal, when the form holds  *)
(* no field, and inside a running step.                                     *)
(***************************************************************************)
Ask ==
  /\ In("ready")
  /\ \E terminal \in BOOLEAN, step \in BOOLEAN :
       IF ~terminal THEN Tell("noTTY")
       ELSE IF NFields = 0 THEN Tell("noAnswer")
       ELSE IF step THEN Tell("insideRun")
       ELSE Move(IF asker.dumb THEN "reading" ELSE "listen")
  /\ UNCHANGED <<tea, queue, rec, tty>>

(* stdin's state is saved, and the recorder listens.                         *)
Listen ==
  /\ In("listen")
  /\ Move("run")
  /\ queue' = [queue EXCEPT !.open = TRUE] /\ rec' = [rec EXCEPT !.at = "recording"]
  /\ UNCHANGED <<tea, tty>>

RunForm ==
  /\ In("run") /\ tea.at = "off"
  /\ tea' = [tea EXCEPT !.at = "up"] /\ tty' = [tty EXCEPT !.raw = TRUE]
  /\ UNCHANGED <<asker, queue, rec>>

-----------------------------------------------------------------------------
(* Bubble Tea.                                                               *)

FormIs(at) == In("run") /\ tea.at = at

(* The operator answers, or types Ctrl-C; or the form ends some other way.   *)
TeaQuits ==
  /\ FormIs("up")
  /\ \E r \in {"completed", "aborted", "incomplete", "error", "panic"} :
       tea' = [tea EXCEPT !.at = "quitting", !.ret = r]
  /\ UNCHANGED <<asker, queue, rec, tty>>

(***************************************************************************)
(* Its handler ends the form on its own copy of a signal; a SIGTERM racing  *)
(* the operator's Enter comes out as a completed form.                      *)
(***************************************************************************)
TeaHandles ==
  /\ FormIs("up") /\ tea.sig # "none"
  /\ \E r \in IF tea.sig = "INT" THEN {"aborted"} ELSE {"incomplete", "completed"} :
       tea' = [tea EXCEPT !.at = "quitting", !.ret = r]
  /\ UNCHANGED <<asker, queue, rec, tty>>

(* A signal during the form's own quit: the handler blocks on its send.      *)
TeaHangs ==
  /\ FormIs("quitting") /\ tea.sig # "none"
  /\ tea' = [tea EXCEPT !.at = "hung"]
  /\ UNCHANGED <<asker, queue, rec, tty>>

TeaReturns ==
  /\ FormIs("quitting")
  /\ tea' = [tea EXCEPT !.at = "returned"] /\ tty' = [tty EXCEPT !.raw = FALSE]
  /\ Move("stopping")
  /\ UNCHANGED <<queue, rec>>

-----------------------------------------------------------------------------
(* The recorder.                                                             *)

(* A mutant: an unbuffered channel, and nobody who waits on it.              *)
Unbuffered == 0

(* Its channel has room for all three signals.                               *)
ChannelRoom == Room

Recorded == Sigs \ (asker.ignored \cap {"HUP"})

(* A copy is taken; the first, and a SIGHUP after another, arm the watchdog. *)
Take ==
  /\ rec.at = "recording" /\ queue.copies # <<>>
  /\ LET s == Head(queue.copies) IN
     rec' = [rec EXCEPT
       !.first  = IF @ = "none" THEN s ELSE @,
       !.hangup = @ \/ s = "HUP",
       !.armed  = IF @ = "none" \/ s = "HUP" THEN s ELSE @,
       !.fire   = @ \/ rec.armed = "none" \/ (s = "HUP" /\ rec.armed # "HUP")]
  /\ queue' = [queue EXCEPT !.copies = Tail(@)]
  /\ UNCHANGED <<asker, tea, tty>>

(* A mutant: the watchdog waits for a hangup only.                           *)
FireOnHangup ==
  /\ rec.at = "recording" /\ rec.fire /\ rec.armed = "HUP"
  /\ rec' = [rec EXCEPT !.at = "restoring", !.fire = FALSE]
  /\ UNCHANGED <<asker, tea, queue, tty>>

(* The grace is over, and the run had not returned when it was looked at.    *)
Fire ==
  /\ rec.at = "recording" /\ rec.fire
  /\ rec' = [rec EXCEPT !.at = "restoring", !.fire = FALSE]
  /\ UNCHANGED <<asker, tea, queue, tty>>

Dies(sig, t) ==
  /\ asker' = [asker EXCEPT !.pc = "dead", !.death = sig]
  /\ tty' = t

(* A mutant: the process dies with the terminal as the form left it.         *)
AsLeft == tty

(* restoreAndDie: a terminal that does not drain holds it back no more than  *)
(* 250 ms.                                                                   *)
Restored == [tty EXCEPT !.raw = tty.stuck /\ @]

RestoreAndDie ==
  /\ rec.at = "restoring" /\ ~In("dead")
  /\ Dies(rec.armed, Restored)
  /\ UNCHANGED <<tea, queue, rec>>

(* The source is stopped and its channel closed.                             *)
Stop ==
  /\ In("stopping")
  /\ Move("outcome") /\ queue' = [queue EXCEPT !.open = FALSE]
  /\ UNCHANGED <<tea, rec, tty>>

(* What is left in the channel is taken before the recorder sees it closed.  *)
Drained == queue.copies = <<>>

RecorderEnds ==
  /\ rec.at = "recording" /\ In("outcome") /\ Drained
  /\ rec' = [rec EXCEPT !.at = "done"]
  /\ UNCHANGED <<asker, tea, queue, tty>>

(***************************************************************************)
(* askNormal's rules: a recorded signal decides before what the run says,   *)
(* and among the signals SIGHUP, then the first.                            *)
(***************************************************************************)
Signalled == IF rec.hangup THEN "HUP" ELSE rec.first

Decide ==
  IF Signalled # "none" THEN Signalled
  ELSE CASE tea.ret \in {"panic", "error"} -> "failed"
         [] tea.ret = "aborted"            -> "INT"
         [] tea.ret = "incomplete"         -> "noAnswer"
         [] OTHER                          -> "answer"

Outcome ==
  /\ In("outcome") /\ rec.at = "done"
  /\ Tell(Decide)
  /\ UNCHANGED <<tea, queue, rec, tty>>

-----------------------------------------------------------------------------
(* The screen-reader mode.                                                   *)

(***************************************************************************)
(* A field is drawn and a line read for it.  A line its validator rejects   *)
(* is asked again; the end of input, a read error and an overlong line      *)
(* latch: huh answers this field and every later one with a default, and    *)
(* nothing more is drawn or read.                                           *)
(***************************************************************************)
ReadLine ==
  /\ In("reading") /\ asker.latch = "no" /\ asker.lines < NFields
  /\ \E l \in {"line", "rejected", "eof", "error", "overlong"} :
       asker' = [asker EXCEPT
         !.asked = asker.lines + 1,
         !.lines = IF l = "line" THEN @ + 1 ELSE @,
         !.latch = CASE l = "eof" -> "ended"
                     [] l \in {"error", "overlong"} -> "failed"
                     [] OTHER -> "no"]
  /\ UNCHANGED <<tea, queue, rec, tty>>

(* A mutant: only a read error makes the answers void.                       *)
DecideByError(huh) ==
  IF asker.latch = "failed" \/ huh # "ok" THEN "failed" ELSE "answer"

(* huh went through the fields left; it may have panicked on the way.        *)
DecideDumb(huh) ==
  IF asker.latch = "ended" THEN "INT"
  ELSE IF asker.latch = "failed" \/ huh # "ok" THEN "failed" ELSE "answer"

ReadEnds ==
  /\ In("reading")
  /\ asker.latch # "no" \/ asker.lines = NFields
  /\ \E huh \in {"ok", "panic", "error"} : Tell(DecideDumb(huh))
  /\ UNCHANGED <<tea, queue, rec, tty>>

-----------------------------------------------------------------------------
(* Signals.                                                                  *)

(* Where a signal still has its default action.                              *)
Default == In("ready") \/ In("listen") \/ In("reading")

(***************************************************************************)
(* A signal is delivered: its default action, or a copy for Bubble Tea,     *)
(* which takes SIGINT and SIGTERM, and one for the channel, dropped when    *)
(* there is no room.                                                        *)
(***************************************************************************)
Deliver ==
  /\ ~In("off") /\ ~In("told") /\ ~In("dead") /\ ~In("outcome")
  /\ asker.sent < MaxCopies
  /\ \E s \in Sigs :
       IF Default
       THEN IF s \in asker.ignored
            THEN asker' = [asker EXCEPT !.sent = @ + 1] /\ UNCHANGED <<tea, queue, rec, tty>>
            ELSE Dies(s, tty) /\ UNCHANGED <<tea, queue, rec>>
       ELSE LET heard == s \in Recorded
                fits  == Len(queue.copies) < ChannelRoom IN
            /\ asker' = [asker EXCEPT !.sent = @ + 1,
                                      !.got = IF heard THEN @ \cup {s} ELSE @]
            /\ queue' = IF heard /\ fits
                        THEN [queue EXCEPT !.copies = Append(@, s)] ELSE queue
            /\ tea' = IF s # "HUP" /\ tea.at \in {"up", "quitting"}
                      THEN [tea EXCEPT !.sig = s] ELSE tea
            /\ UNCHANGED <<rec, tty>>

(***************************************************************************)
(* A cancelled prompt goes to the root, which ends the process by its       *)
(* signal; one that was ignored at the start cannot, and its status is      *)
(* exited with.  Either way the status is the signal's.                     *)
(***************************************************************************)
RootDies ==
  /\ In("told") /\ asker.told \in Sigs
  /\ Dies(asker.told, tty)
  /\ UNCHANGED <<tea, queue, rec>>

PromptSteps ==
  \/ Listen \/ RunForm \/ TeaHandles \/ TeaReturns \/ Take \/ Fire
  \/ RestoreAndDie \/ Stop \/ RecorderEnds \/ Outcome \/ ReadEnds \/ RootDies

PromptNext == PromptSteps \/ Ask \/ TeaQuits \/ TeaHangs \/ ReadLine \/ Deliver

(***************************************************************************)
(* The goroutines run, and the grace passes; nobody answers, and nothing    *)
(* keeps Bubble Tea from hanging.                                           *)
(***************************************************************************)
PromptFairness ==
  /\ WF_promptVars(Listen \/ RunForm \/ TeaReturns \/ Stop \/ Outcome \/ ReadEnds)
  /\ WF_promptVars(Take \/ RecorderEnds)
  /\ WF_promptVars(Fire \/ RestoreAndDie)
  /\ WF_promptVars(RootDies)

PromptSpec == PromptInit /\ [][PromptNext]_promptVars /\ PromptFairness

-----------------------------------------------------------------------------
(* What a prompt keeps to.                                                   *)

(***************************************************************************)
(* A signal that came while the form was up, or after it and before the     *)
(* recorder was stopped, is never lost to an answer: the prompt was         *)
(* cancelled, by one of the signals that came, or the process died of one.  *)
(***************************************************************************)
SignalNeverAnAnswer ==
  asker.got # {} /\ (In("told") \/ In("dead")) =>
    asker.told \in asker.got \/ asker.death \in asker.got

(***************************************************************************)
(* The terminal is left as it was found, whichever way the prompt went, the *)
(* watchdog's included, unless it was not draining.                         *)
(***************************************************************************)
TerminalRestored == In("told") \/ In("dead") => ~tty.raw \/ tty.stuck

(***************************************************************************)
(* On a dumb terminal an answer is one line ended by Enter for every field, *)
(* each of which was asked: never a default that huh put there.             *)
(***************************************************************************)
AnsweredByEnter ==
  asker.dumb /\ asker.told = "answer" =>
    asker.lines = NFields /\ asker.asked = NFields /\ asker.latch = "no"

(***************************************************************************)
(* A prompt that was sent a signal ends, though Bubble Tea hangs and the    *)
(* terminal does not drain.                                                 *)
(***************************************************************************)
PromptEnds == asker.got # {} ~> In("told") \/ In("dead")
=============================================================================
