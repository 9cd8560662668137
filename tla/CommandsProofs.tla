---------------------------- MODULE CommandsProofs ----------------------------
(***************************************************************************)
(* What a prompt keeps to, for a form of any number of fields, any number   *)
(* of signals and any terminal: a signal that came is never lost to an      *)
(* answer, the terminal is left as it was found, and a dumb terminal's      *)
(* answer was typed.  And, last, the types of the four parts that           *)
(* MCCommands runs, from what is proved of each part alone.                 *)
(***************************************************************************)
EXTENDS MCCommands, VaultSessionProofs, WorkspacesProofs, ProxyDiagnosisProofs, TLAPS

AskerFields == {"pc", "dumb", "ignored", "told", "death", "lines", "asked", "latch",
                "sent", "got"}
TeaFields == {"at", "ret", "sig"}
RecFields == {"at", "hangup", "first", "armed", "fire"}

(* The records have their fields, and the channel is a sequence of signals.  *)
Formed ==
  /\ asker = [f \in AskerFields |-> asker[f]] /\ asker.got \in SUBSET Sigs
  /\ tea = [f \in TeaFields |-> tea[f]]
  /\ queue = [f \in {"copies", "open"} |-> queue[f]] /\ queue.copies \in Seq(Sigs)
  /\ rec = [f \in RecFields |-> rec[f]]
  /\ tty = [f \in {"raw", "stuck"} |-> tty[f]] /\ tty.stuck \in BOOLEAN

-----------------------------------------------------------------------------
(* The inductive invariant.                                                  *)

(* The terminal is raw while the form runs, and after a death that it held   *)
(* back.                                                                     *)
RawWhileItRuns == tty.raw => In("run") \/ (In("dead") /\ tty.stuck)

(***************************************************************************)
(* Before the channel is open nobody takes a signal, and no copy is there:  *)
(* a dumb terminal's prompt never opens it.                                 *)
(***************************************************************************)
Early == {"ready", "listen", "reading"}
AskerPlaces == Early \cup {"run", "stopping", "outcome", "told", "dead"}

Unheard ==
  /\ asker.pc \in AskerPlaces
  /\ asker.dumb => asker.pc \in {"ready", "reading", "told", "dead"} /\ rec.at = "off"
  /\ asker.pc \in Early => rec.at = "off" /\ asker.told = "none"
  /\ asker.pc \in {"run", "stopping", "outcome"} => rec.at # "off" /\ asker.told = "none"
  /\ rec.at = "off" => asker.got = {}
  /\ rec.at = "done" => asker.pc \in {"outcome", "told", "dead"}

(***************************************************************************)
(* What came is in the channel or was taken: the copies there, the first    *)
(* taken, the hangup and what the watchdog is armed with are signals that   *)
(* came, and a recorder that is done left no copy.                          *)
(***************************************************************************)
Heard ==
  /\ \A i \in 1..Len(queue.copies) : queue.copies[i] \in asker.got
  /\ asker.got # {} => queue.copies # <<>> \/ rec.first # "none"
  /\ rec.first # "none" => rec.first \in asker.got
  /\ rec.hangup => "HUP" \in asker.got
  /\ rec.armed # "none" => rec.armed \in asker.got
  /\ rec.fire \/ rec.at = "restoring" => rec.armed # "none"
  /\ rec.at = "done" => queue.copies = <<>>

(***************************************************************************)
(* A field that was asked and not answered yet is one past the lines read.  *)
(***************************************************************************)
FieldByField ==
  /\ asker.asked = asker.lines \/ asker.lines < NFields
  /\ asker.lines \in Nat /\ asker.latch \in {"no", "ended", "failed"}
  /\ AnsweredByEnter

(* A caller that was told, after a signal came, was told of one that came.   *)
Told1 == In("told") /\ asker.got # {} => asker.told \in asker.got

PromptInv == RawWhileItRuns /\ Unheard /\ Heard /\ Told1 /\ SignalNeverAnAnswer /\ FieldByField

-----------------------------------------------------------------------------
(* The shape of the records.                                                 *)

(* The records have their fields at first, and nothing has come.             *)
LEMMA FormedInit == PromptInit => Formed
<1> SUFFICES ASSUME PromptInit PROVE Formed
  OBVIOUS
<1> USE DEF PromptInit, Calm
<1>1. asker = [f \in AskerFields |-> asker[f]] /\ asker.got \in SUBSET Sigs
  BY DEF AskerFields
<1>2. tea = [f \in TeaFields |-> tea[f]]
  BY DEF TeaFields
<1>3. rec = [f \in RecFields |-> rec[f]]
  BY DEF RecFields
<1>4. tty = [f \in {"raw", "stuck"} |-> tty[f]] /\ tty.stuck \in BOOLEAN
  <2>1. tty \in [raw : {FALSE}, stuck : BOOLEAN]
    OBVIOUS
  <2> QED BY <2>1
<1>5. queue = [f \in {"copies", "open"} |-> queue[f]] /\ queue.copies \in Seq(Sigs)
  OBVIOUS
<1> QED BY <1>1, <1>2, <1>3, <1>4, <1>5 DEF Formed

(* A signal sent appends at most one copy, to a channel that has room.       *)
LEMMA DeliverLeads ==
  ASSUME Formed, Deliver
  PROVE  \/ \E s \in Sigs : /\ Default /\ s \notin asker.ignored
                            /\ asker' = [asker EXCEPT !.pc = "dead", !.death = s]
                            /\ UNCHANGED <<tea, queue, rec, tty>>
         \/ \E got \in SUBSET Sigs :
              /\ asker' = [asker EXCEPT !.sent = @ + 1, !.got = got]
              /\ asker.got \subseteq got /\ (got = asker.got \/ ~Default)
              /\ \/ queue' = queue /\ (got = {} \/ queue.copies # <<>> \/ got = asker.got)
                 \/ \E s \in got : queue' = [queue EXCEPT !.copies = Append(@, s)]
              /\ tea' = [f \in TeaFields |-> tea'[f]] /\ tea'.at = tea.at
              /\ asker.pc \notin {"told", "dead", "outcome"}
              /\ UNCHANGED <<rec, tty>>
<1> USE DEF Formed
<1> PICK s \in Sigs :
      IF Default
      THEN IF s \in asker.ignored
           THEN asker' = [asker EXCEPT !.sent = @ + 1] /\ UNCHANGED <<tea, queue, rec, tty>>
           ELSE Dies(s, tty) /\ UNCHANGED <<tea, queue, rec>>
      ELSE LET heard == s \in Recorded
               fits  == Len(queue.copies) < ChannelRoom IN
           /\ asker' = [asker EXCEPT !.sent = @ + 1,
                                     !.got = IF heard THEN @ \cup {s} ELSE @]
           /\ queue' = IF heard /\ fits
                       THEN [queue EXCEPT !.copies = Append(@, s)] ELSE queue
           /\ tea' = IF s # "HUP" /\ tea.at \in {"up", "quitting"}
                     THEN [tea EXCEPT !.sig = s] ELSE tea
           /\ UNCHANGED <<rec, tty>>
  BY DEF Deliver
<1>1. asker.pc \notin {"told", "dead", "outcome"}
  BY DEF Deliver, In
<1>2. CASE Default /\ s \in asker.ignored
  <2>1. asker' = [asker EXCEPT !.sent = @ + 1, !.got = asker.got]
    BY <1>2 DEF AskerFields
  <2> QED BY <1>1, <1>2, <2>1
<1>3. CASE Default /\ s \notin asker.ignored
  BY <1>3 DEF Dies
<1>4. CASE ~Default
  <2> DEFINE got == IF s \in Recorded THEN asker.got \cup {s} ELSE asker.got
  <2>1. /\ asker' = [asker EXCEPT !.sent = @ + 1, !.got = got]
        /\ got \in SUBSET Sigs /\ asker.got \subseteq got /\ UNCHANGED <<rec, tty>>
    BY <1>4 DEF AskerFields
  <2>2. tea' = [f \in TeaFields |-> tea'[f]] /\ tea'.at = tea.at
    BY <1>4 DEF TeaFields
  <2>3. CASE s \in Recorded /\ Len(queue.copies) < ChannelRoom
    BY <1>1, <1>4, <2>1, <2>2, <2>3
  <2>4. CASE s \notin Recorded
    BY <1>1, <1>4, <2>1, <2>2, <2>4
  <2>5. CASE s \in Recorded /\ ~(Len(queue.copies) < ChannelRoom)
    <3>1. queue.copies # <<>>
      BY <2>5 DEF ChannelRoom, Room
    <3> QED BY <1>1, <1>4, <2>1, <2>2, <2>5, <3>1
  <2> QED BY <2>3, <2>4, <2>5
<1> QED BY <1>2, <1>3, <1>4

(* Every step keeps the fields of the records.                               *)
LEMMA FormedStep == Formed /\ [PromptNext]_promptVars => Formed'
<1> SUFFICES ASSUME Formed, [PromptNext]_promptVars PROVE Formed'
  OBVIOUS
<1> USE DEF Formed, AskerFields, TeaFields, RecFields, Move, Tell
<1>1. CASE UNCHANGED promptVars
  BY <1>1 DEF promptVars
<1>2. CASE Ask
  BY <1>2 DEF Ask
<1>3. CASE Listen \/ RunForm \/ Stop
  BY <1>3 DEF Listen, RunForm, Stop
<1>4. CASE TeaQuits \/ TeaHandles \/ TeaHangs \/ TeaReturns
  BY <1>4 DEF TeaQuits, TeaHandles, TeaHangs, TeaReturns
<1>5. CASE Take
  <2>1. Tail(queue.copies) \in Seq(Sigs)
    BY <1>5 DEF Take
  <2> QED BY <1>5, <2>1 DEF Take
<1>6. CASE Fire \/ RecorderEnds
  BY <1>6 DEF Fire, RecorderEnds
<1>7. CASE RestoreAndDie \/ RootDies
  BY <1>7 DEF RestoreAndDie, RootDies, Dies, Restored
<1>8. CASE Outcome \/ ReadEnds \/ ReadLine
  BY <1>8 DEF Outcome, ReadEnds, ReadLine
<1>9. CASE Deliver
  <2>1. \A s \in Sigs : Append(queue.copies, s) \in Seq(Sigs)
    OBVIOUS
  <2>2. /\ asker' = [f \in AskerFields |-> asker'[f]] /\ asker'.got \in SUBSET Sigs
        /\ tea' = [f \in TeaFields |-> tea'[f]] /\ UNCHANGED <<rec, tty>>
        /\ queue' = queue \/ \E s \in Sigs : queue' = [queue EXCEPT !.copies = Append(@, s)]
    BY <1>9, DeliverLeads
  <2>3. queue' = [f \in {"copies", "open"} |-> queue'[f]] /\ queue'.copies \in Seq(Sigs)
    BY <2>1, <2>2
  <2> QED BY <2>2, <2>3
<1> QED BY <1>1, <1>2, <1>3, <1>4, <1>5, <1>6, <1>7, <1>8, <1>9 DEF PromptNext, PromptSteps

-----------------------------------------------------------------------------
(* The terminal, the signals and the lines.                                  *)

(* The invariant holds at first.                                             *)
LEMMA PromptInvInit == PromptInit => PromptInv
<1> SUFFICES ASSUME PromptInit PROVE PromptInv
  OBVIOUS
<1> USE DEF PromptInit, Calm
<1>1. ~tty.raw
  <2>1. tty \in [raw : {FALSE}, stuck : BOOLEAN]
    OBVIOUS
  <2> QED BY <2>1
<1>2. asker.pc = "ready" /\ asker.told = "none" /\ asker.lines = 0 /\ asker.asked = 0
      /\ asker.latch = "no" /\ asker.got = {}
  OBVIOUS
<1>3. rec.at = "off" /\ rec.first = "none" /\ ~rec.hangup /\ rec.armed = "none" /\ ~rec.fire
      /\ queue.copies = <<>>
  OBVIOUS
<1> HIDE DEF PromptInit, Calm
<1> QED BY <1>1, <1>2, <1>3 DEF PromptInv, RawWhileItRuns, Unheard, Heard, Told1,
           SignalNeverAnAnswer, FieldByField, AnsweredByEnter, In, Early, AskerPlaces

(* Every step keeps the terminal from being raw with no form to restore it.  *)
LEMMA RawStep ==
  ASSUME Formed, Unheard, RawWhileItRuns, [PromptNext]_promptVars
  PROVE  RawWhileItRuns'
<1> USE DEF Formed, AskerFields, TeaFields, RecFields, Move, Tell, RawWhileItRuns, In
<1>1. CASE UNCHANGED promptVars
  BY <1>1 DEF promptVars
<1>2. CASE Ask
  BY <1>2 DEF Ask
<1>3. CASE Listen \/ RunForm \/ Stop
  BY <1>3 DEF Listen, RunForm, Stop
<1>4. CASE TeaQuits \/ TeaHandles \/ TeaHangs \/ TeaReturns
  BY <1>4 DEF TeaQuits, TeaHandles, TeaHangs, TeaReturns, FormIs
<1>5. CASE Take \/ Fire \/ RecorderEnds
  BY <1>5 DEF Take, Fire, RecorderEnds
<1>6. CASE RestoreAndDie \/ RootDies
  BY <1>6 DEF RestoreAndDie, RootDies, Dies, Restored
<1>7. CASE Outcome \/ ReadEnds \/ ReadLine
  BY <1>7 DEF Outcome, ReadEnds, ReadLine
<1>8. CASE Deliver
  BY <1>8, DeliverLeads DEF Default
<1> QED BY <1>1, <1>2, <1>3, <1>4, <1>5, <1>6, <1>7, <1>8 DEF PromptNext, PromptSteps

(* Every step keeps where the prompt, its channel and its recorder are apart.*)
LEMMA UnheardStep ==
  ASSUME Formed, Unheard, [PromptNext]_promptVars
  PROVE  Unheard'
<1> USE DEF Formed, AskerFields, TeaFields, RecFields, Move, Tell, Unheard, In, Early, AskerPlaces
<1>1. CASE UNCHANGED promptVars
  BY <1>1 DEF promptVars
<1>2. CASE Ask
  BY <1>2 DEF Ask
<1>3. CASE Listen \/ RunForm \/ Stop
  BY <1>3 DEF Listen, RunForm, Stop
<1>4. CASE TeaQuits \/ TeaHandles \/ TeaHangs \/ TeaReturns
  BY <1>4 DEF TeaQuits, TeaHandles, TeaHangs, TeaReturns, FormIs
<1>5. CASE Take
  BY <1>5 DEF Take
<1>6. CASE Fire \/ RecorderEnds
  BY <1>6 DEF Fire, RecorderEnds
<1>7. CASE RestoreAndDie \/ RootDies
  BY <1>7 DEF RestoreAndDie, RootDies, Dies
<1>8. CASE Outcome \/ ReadEnds \/ ReadLine
  BY <1>8 DEF Outcome, ReadEnds, ReadLine
<1>9. CASE Deliver
  BY <1>9, DeliverLeads DEF Default
<1> QED BY <1>1, <1>2, <1>3, <1>4, <1>5, <1>6, <1>7, <1>8, <1>9 DEF PromptNext, PromptSteps

(* A copy that is taken is one that came, and the rest are.                  *)
LEMMA TakeHears ==
  ASSUME Formed, Heard, Take
  PROVE  Heard'
<1> USE DEF Formed, RecFields
<1> DEFINE s == Head(queue.copies)
<1>1. s \in asker.got /\ s # "none"
  <2>1. s = queue.copies[1] /\ 1 \in 1..Len(queue.copies)
    BY DEF Take
  <2> QED BY <2>1 DEF Heard, Sigs
<1>2. queue'.copies = Tail(queue.copies) /\ asker' = asker
  BY DEF Take
<1>3. \A i \in 1..Len(queue'.copies) : queue'.copies[i] \in asker'.got
  <2>1. \A i \in 1..Len(Tail(queue.copies)) :
          Tail(queue.copies)[i] = queue.copies[i + 1] /\ i + 1 \in 1..Len(queue.copies)
    BY DEF Take
  <2> QED BY <1>2, <2>1 DEF Heard
<1>4. /\ rec'.first = IF rec.first = "none" THEN s ELSE rec.first
      /\ rec'.hangup = (rec.hangup \/ s = "HUP")
      /\ rec'.armed = IF rec.armed = "none" \/ s = "HUP" THEN s ELSE rec.armed
      /\ rec'.at = "recording"
  BY DEF Take
<1>5. rec'.armed # "none"
  BY <1>1, <1>4
<1> HIDE DEF s
<1> QED BY <1>1, <1>2, <1>3, <1>4, <1>5 DEF Heard

(* Every step keeps account of the signals that came.                        *)
LEMMA HeardStep ==
  ASSUME Formed, Unheard, Heard, [PromptNext]_promptVars
  PROVE  Heard'
<1> USE DEF Formed, AskerFields, TeaFields, RecFields, Move, Tell
<1>1. CASE UNCHANGED promptVars
  BY <1>1 DEF promptVars, Heard
<1>2. CASE Ask
  BY <1>2 DEF Ask, Heard
<1>3. CASE Listen \/ RunForm \/ Stop
  BY <1>3 DEF Listen, RunForm, Stop, Heard, Unheard, In, Early
<1>4. CASE TeaQuits \/ TeaHandles \/ TeaHangs \/ TeaReturns
  BY <1>4 DEF TeaQuits, TeaHandles, TeaHangs, TeaReturns, Heard
<1>5. CASE Take
  BY <1>5, TakeHears
<1>6. CASE Fire \/ RecorderEnds
  BY <1>6 DEF Fire, RecorderEnds, Drained, Heard
<1>7. CASE RestoreAndDie \/ RootDies
  BY <1>7 DEF RestoreAndDie, RootDies, Dies, Heard
<1>8. CASE Outcome \/ ReadEnds \/ ReadLine
  BY <1>8 DEF Outcome, ReadEnds, ReadLine, Heard
<1>9. CASE Deliver
  <2>1. CASE \E s \in Sigs : /\ Default /\ s \notin asker.ignored
                             /\ asker' = [asker EXCEPT !.pc = "dead", !.death = s]
                             /\ UNCHANGED <<tea, queue, rec, tty>>
    BY <2>1 DEF Heard
  <2>2. ASSUME NEW got \in SUBSET Sigs,
               asker' = [asker EXCEPT !.sent = @ + 1, !.got = got],
               asker.got \subseteq got, got = asker.got \/ ~Default,
               asker.pc \notin {"told", "dead", "outcome"},
               \/ queue' = queue /\ (got = {} \/ queue.copies # <<>> \/ got = asker.got)
               \/ \E s \in got : queue' = [queue EXCEPT !.copies = Append(@, s)],
               UNCHANGED <<rec, tty>>
        PROVE  Heard'
    <3>1. asker'.got = got
      BY <2>2
    <3>2. rec.at # "done"
      BY <2>2 DEF Unheard
    <3>3. CASE queue' = queue /\ (got = {} \/ queue.copies # <<>> \/ got = asker.got)
      <4>1. queue'.copies = queue.copies /\ rec' = rec
        BY <2>2, <3>3
      <4>2. got # {} => queue.copies # <<>> \/ rec.first # "none"
        BY <2>2, <3>3 DEF Heard
      <4> HIDE DEF Formed
      <4> QED BY <2>2, <3>1, <3>2, <4>1, <4>2 DEF Heard
    <3>4. ASSUME NEW s \in got, queue' = [queue EXCEPT !.copies = Append(@, s)]
          PROVE  Heard'
      <4>1. queue'.copies = Append(queue.copies, s) /\ s \in Sigs
        BY <3>4
      <4>2. queue'.copies # <<>>
            /\ \A i \in 1..Len(queue'.copies) : queue'.copies[i] \in got
        <5>1. /\ Len(Append(queue.copies, s)) = Len(queue.copies) + 1
              /\ \A i \in 1..Len(Append(queue.copies, s)) :
                   Append(queue.copies, s)[i] = IF i = Len(queue.copies) + 1 THEN s ELSE queue.copies[i]
          BY <4>1
        <5>2. Len(queue.copies) \in Nat
          OBVIOUS
        <5>3. \A i \in 1..Len(queue.copies) : queue.copies[i] \in got
          BY <2>2 DEF Heard
        <5> HIDE DEF Formed
        <5> QED BY <4>1, <5>1, <5>2, <5>3
      <4> QED BY <2>2, <3>1, <3>2, <4>2 DEF Heard
    <3> QED BY <2>2, <3>3, <3>4
  <2> QED BY <1>9, <2>1, <2>2, DeliverLeads
<1> QED BY <1>1, <1>2, <1>3, <1>4, <1>5, <1>6, <1>7, <1>8, <1>9 DEF PromptNext, PromptSteps

(* Whatever the run says, a signal that came is what the prompt was told.    *)
LEMMA OutcomeTells ==
  ASSUME Formed, Heard, rec.at = "done", asker.got # {}
  PROVE  Decide \in asker.got
<1>1. rec.first # "none" /\ Signalled \in asker.got
  BY DEF Heard, Signalled
<1>2. Signalled # "none"
  BY <1>1 DEF Formed, Sigs
<1> QED BY <1>1, <1>2 DEF Decide

(* Every step keeps a signal that came from being lost to an answer.         *)
LEMMA ToldStep ==
  ASSUME Formed, Unheard, Heard, Told1, SignalNeverAnAnswer, [PromptNext]_promptVars
  PROVE  Told1' /\ SignalNeverAnAnswer'
<1> USE DEF Formed, AskerFields, TeaFields, RecFields, Move, Tell, Told1, SignalNeverAnAnswer, In
<1>1. CASE UNCHANGED promptVars
  BY <1>1 DEF promptVars
<1>2. CASE Ask
  BY <1>2 DEF Ask, Unheard, Early
<1>3. CASE Listen \/ RunForm \/ Stop
  BY <1>3 DEF Listen, RunForm, Stop
<1>4. CASE TeaQuits \/ TeaHandles \/ TeaHangs \/ TeaReturns
  BY <1>4 DEF TeaQuits, TeaHandles, TeaHangs, TeaReturns, FormIs
<1>5. CASE Take \/ Fire \/ RecorderEnds
  BY <1>5 DEF Take, Fire, RecorderEnds
<1>6. CASE RestoreAndDie
  BY <1>6 DEF RestoreAndDie, Dies, Heard
<1>7. CASE RootDies
  BY <1>7 DEF RootDies, Dies
<1>8. CASE Outcome
  BY <1>8, OutcomeTells DEF Outcome
<1>9. CASE ReadEnds \/ ReadLine
  BY <1>9 DEF ReadEnds, ReadLine, Unheard, Early
<1>10. CASE Deliver
  BY <1>10, DeliverLeads DEF Default, Unheard, Early
<1> QED BY <1>1, <1>2, <1>3, <1>4, <1>5, <1>6, <1>7, <1>8, <1>9, <1>10 DEF PromptNext, PromptSteps

(* Every step keeps the count of the lines that answered a field.            *)
LEMMA TypedStep ==
  ASSUME Formed, Unheard, FieldByField, [PromptNext]_promptVars
  PROVE  FieldByField'
<1> USE PromptAssumption
<1> USE DEF Formed, AskerFields, TeaFields, RecFields, Move, Tell, FieldByField, AnsweredByEnter, In
<1>1. CASE UNCHANGED promptVars
  BY <1>1 DEF promptVars
<1>2. CASE Ask
  BY <1>2 DEF Ask
<1>3. CASE Listen \/ RunForm \/ Stop
  BY <1>3 DEF Listen, RunForm, Stop
<1>4. CASE TeaQuits \/ TeaHandles \/ TeaHangs \/ TeaReturns
  BY <1>4 DEF TeaQuits, TeaHandles, TeaHangs, TeaReturns
<1>5. CASE Take \/ Fire \/ RecorderEnds
  BY <1>5 DEF Take, Fire, RecorderEnds
<1>6. CASE RestoreAndDie \/ RootDies
  BY <1>6 DEF RestoreAndDie, RootDies, Dies
<1>7. CASE Outcome
  BY <1>7 DEF Outcome, Unheard
<1>8. CASE ReadEnds
  <2>1. asker.latch # "no" \/ asker.lines = NFields
    BY <1>8 DEF ReadEnds
  <2> PICK huh \in {"ok", "panic", "error"} : Tell(DecideDumb(huh))
    BY <1>8 DEF ReadEnds
  <2>2. DecideDumb(huh) = "answer" => asker.latch = "no"
    BY DEF DecideDumb
  <2> QED BY <2>1, <2>2
<1>9. CASE ReadLine
  BY <1>9 DEF ReadLine, Unheard, Early
<1>10. CASE Deliver
  BY <1>10, DeliverLeads
<1> QED BY <1>1, <1>2, <1>3, <1>4, <1>5, <1>6, <1>7, <1>8, <1>9, <1>10 DEF PromptNext, PromptSteps

(* The invariant holds of every behaviour.                                   *)
LEMMA PromptInvariant == PromptSpec => [](Formed /\ PromptInv)
<1>1. PromptInit => Formed /\ PromptInv
  BY FormedInit, PromptInvInit
<1>2. Formed /\ PromptInv /\ [PromptNext]_promptVars => (Formed /\ PromptInv)'
  BY FormedStep, RawStep, UnheardStep, HeardStep, ToldStep, TypedStep DEF PromptInv
<1> QED BY <1>1, <1>2, PTL DEF PromptSpec

(***************************************************************************)
(* Whatever number of signals come, and whatever the form returns: one that *)
(* came while the form was up, or before the recorder was stopped, cancels  *)
(* the prompt or ends the process (prompt.go, askNormal and record).        *)
(***************************************************************************)
THEOREM SignalIsNeverAnAnswer == PromptSpec => []SignalNeverAnAnswer
<1>1. PromptInv => SignalNeverAnAnswer
  BY DEF PromptInv
<1> QED BY <1>1, PromptInvariant, PTL

(***************************************************************************)
(* The terminal is left as it was found, whether the form returned or the   *)
(* watchdog ended the process (prompt.go, restoreAndDie).                   *)
(***************************************************************************)
THEOREM TerminalAlwaysRestored == PromptSpec => []TerminalRestored
<1>1. PromptInv => TerminalRestored
  BY DEF PromptInv, RawWhileItRuns, TerminalRestored, In
<1> QED BY <1>1, PromptInvariant, PTL

(***************************************************************************)
(* For a form of any number of fields: a dumb terminal's answer is a line   *)
(* for every field, and no default of huh's (prompt_input.go).              *)
(***************************************************************************)
THEOREM AnswerIsAlwaysTyped == PromptSpec => []AnsweredByEnter
<1>1. PromptInv => AnsweredByEnter
  BY DEF PromptInv, FieldByField
<1> QED BY <1>1, PromptInvariant, PTL

-----------------------------------------------------------------------------
(* Type correctness.                                                         *)

Askers == [pc : {"ready", "save", "listen", "run", "stopping", "outcome", "reading",
                 "told", "dead", "off"},
           dumb : BOOLEAN, ignored : SUBSET {"INT", "HUP"}, told : Told, death : Deaths,
           lines : 0..NFields, asked : 0..NFields, latch : {"no", "ended", "failed"},
           sent : 0..MaxCopies, got : SUBSET Sigs]
Teas   == [at : {"off", "up", "quitting", "hung", "returned"},
           ret : {"none", "completed", "aborted", "incomplete", "error", "panic"},
           sig : {"none", "INT", "TERM"}]
Recs   == [at : {"off", "recording", "restoring", "done"}, hangup : BOOLEAN,
           first : Sigs \cup {"none"}, armed : Sigs \cup {"none"}, fire : BOOLEAN]
Queues == {q \in [copies : Seq(Sigs), open : BOOLEAN] : Len(q.copies) <= Room}

(* With why the process dies of a signal when the watchdog restores: it was  *)
(* armed with one.                                                           *)
PromptTyped ==
  /\ asker \in Askers /\ tea \in Teas /\ queue \in Queues /\ rec \in Recs
  /\ tty \in [raw : BOOLEAN, stuck : BOOLEAN]
  /\ rec.fire \/ rec.at = "restoring" => rec.armed # "none"

(* The types follow.                                                         *)
LEMMA PromptTypedIs == PromptTyped => PromptTypeOK
BY DEF PromptTyped, PromptTypeOK, Askers, Teas, Recs, Queues

(* A prompt that is asked begins with them, and so does none.                *)
LEMMA PromptTypedFirst == PromptInit \/ PromptOff => PromptTyped
<1> SUFFICES ASSUME PromptInit \/ PromptOff PROVE PromptTyped
  OBVIOUS
<1>1. asker \in Askers
  <2>1. 0 \in 0..NFields /\ 0 \in 0..MaxCopies /\ {} \in SUBSET Sigs
    BY PromptAssumption
  <2> QED BY <2>1 DEF PromptInit, PromptOff, Calm, Askers, Told, Deaths
<1>2. <<>> \in Seq(Sigs) /\ Len(<<>>) = 0
  OBVIOUS
<1>c. /\ tea = [at |-> "off", ret |-> "none", sig |-> "none"]
      /\ queue = [copies |-> <<>>, open |-> FALSE]
      /\ rec = [at |-> "off", hangup |-> FALSE, first |-> "none", armed |-> "none",
               fire |-> FALSE]
  BY DEF PromptInit, PromptOff, Calm
<1>3. queue \in Queues
  <2>1. queue \in [copies : Seq(Sigs), open : BOOLEAN] /\ queue.copies = <<>>
    BY <1>2, <1>c
  <2> QED BY <1>2, <2>1 DEF Queues, Room
<1>4. tea \in Teas /\ rec \in Recs /\ rec.fire = FALSE /\ rec.at = "off"
  BY <1>c DEF Teas, Recs
<1>5. tty \in [raw : BOOLEAN, stuck : BOOLEAN]
  <2>1. CASE PromptOff
    BY <2>1 DEF PromptOff
  <2>2. CASE PromptInit
    <3> DEFINE stuck == IF asker.dumb \/ asker.ignored # {} THEN {FALSE} ELSE BOOLEAN
    <3>1. tty \in [raw : {FALSE}, stuck : stuck] /\ stuck \subseteq BOOLEAN
      BY <2>2 DEF PromptInit
    <3> HIDE DEF stuck
    <3> QED BY <3>1
  <2> QED BY <2>1, <2>2
<1> QED BY <1>1, <1>3, <1>4, <1>5 DEF PromptTyped

(* Every step keeps them.                                                    *)
LEMMA PromptTypedStep ==
  ASSUME PromptTyped, [PromptNext]_promptVars
  PROVE  PromptTyped'
<1> USE DEF In, Move, Tell
<1>0. /\ asker \in Askers /\ tea \in Teas /\ queue \in Queues /\ rec \in Recs
      /\ tty \in [raw : BOOLEAN, stuck : BOOLEAN]
      /\ rec.fire \/ rec.at = "restoring" => rec.armed # "none"
  BY DEF PromptTyped
<1>a. ASSUME NEW b \in BOOLEAN, queue' = [queue EXCEPT !.open = b] PROVE queue' \in Queues
  <2> DEFINE S == Seq(Sigs)
  <2>1. queue \in [copies : S, open : BOOLEAN] /\ Len(queue.copies) <= Room
    BY <1>0 DEF Queues
  <2> HIDE DEF S
  <2>2. queue' \in [copies : S, open : BOOLEAN] /\ queue'.copies = queue.copies
    BY <1>a, <2>1
  <2> QED BY <2>1, <2>2 DEF S, Queues
<1>b. ASSUME NEW s \in Seq(Sigs), Len(s) <= Room, queue' = [queue EXCEPT !.copies = s]
      PROVE  queue' \in Queues
  <2> DEFINE S == Seq(Sigs)
  <2>1. queue \in [copies : S, open : BOOLEAN] /\ s \in S
    BY <1>0 DEF Queues
  <2> HIDE DEF S
  <2>2. queue' \in [copies : S, open : BOOLEAN] /\ queue'.copies = s
    BY <1>b, <2>1
  <2> QED BY <1>b, <2>2 DEF S, Queues
<1>c. queue.copies \in Seq(Sigs) /\ Len(queue.copies) <= Room
  BY <1>0 DEF Queues
<1>1. CASE UNCHANGED promptVars
  BY <1>0, <1>1 DEF promptVars, PromptTyped
<1>2. CASE Ask
  <2>1. \/ \E r \in Told : asker' = [asker EXCEPT !.pc = "told", !.told = r]
        \/ \E pc \in {"reading", "listen"} : asker' = [asker EXCEPT !.pc = pc]
    BY <1>2 DEF Ask, Told
  <2>2. asker' \in Askers
    BY <1>0, <2>1 DEF Askers
  <2> QED BY <1>0, <1>2, <2>2 DEF Ask, PromptTyped
<1>3. CASE Listen
  <2>1. asker' \in Askers
    BY <1>0, <1>3 DEF Listen, Askers
  <2>2. rec' \in Recs /\ rec'.fire = rec.fire /\ rec'.at = "recording" /\ rec'.armed = rec.armed
    BY <1>0, <1>3 DEF Listen, Recs
  <2> QED BY <1>0, <1>3, <1>a, <2>1, <2>2 DEF Listen, PromptTyped
<1>4. CASE RunForm
  BY <1>0, <1>4 DEF RunForm, Teas, PromptTyped
<1>5. CASE TeaQuits
  <2>1. tea' \in Teas
    BY <1>0, <1>5 DEF TeaQuits, Teas
  <2> QED BY <1>0, <1>5, <2>1 DEF TeaQuits, PromptTyped
<1>6. CASE TeaHandles
  <2>1. tea' \in Teas
    BY <1>0, <1>6 DEF TeaHandles, Teas
  <2> QED BY <1>0, <1>6, <2>1 DEF TeaHandles, PromptTyped
<1>7. CASE TeaHangs
  BY <1>0, <1>7 DEF TeaHangs, Teas, PromptTyped
<1>8. CASE TeaReturns
  BY <1>0, <1>8 DEF TeaReturns, Askers, Teas, PromptTyped
<1>9. CASE Take
  <2> DEFINE s == Head(queue.copies)
  <2>1. s \in Sigs /\ Tail(queue.copies) \in Seq(Sigs) /\ Len(Tail(queue.copies)) <= Room
    BY <1>9, <1>c DEF Take, Room
  <2>2. queue' \in Queues
    BY <1>9, <1>b, <2>1 DEF Take
  <2> DEFINE first  == IF rec.first = "none" THEN s ELSE rec.first
             hangup == rec.hangup \/ s = "HUP"
             armed  == IF rec.armed = "none" \/ s = "HUP" THEN s ELSE rec.armed
             fire   == rec.fire \/ rec.armed = "none" \/ (s = "HUP" /\ rec.armed # "HUP")
  <2>3. rec' = [rec EXCEPT !.first = first, !.hangup = hangup, !.armed = armed, !.fire = fire]
    BY <1>9 DEF Take
  <2>4. first \in Sigs /\ hangup \in BOOLEAN /\ armed \in Sigs /\ fire \in BOOLEAN
        /\ "none" \notin Sigs
    BY <1>0, <2>1 DEF Recs, Sigs
  <2> HIDE DEF s, first, hangup, armed, fire
  <2>5. rec' \in Recs /\ rec'.armed = armed
    BY <1>0, <2>3, <2>4 DEF Recs
  <2> QED BY <1>0, <1>9, <2>2, <2>4, <2>5 DEF Take, PromptTyped
<1>10. CASE Fire
  BY <1>0, <1>10 DEF Fire, Recs, PromptTyped
<1>11. CASE RestoreAndDie
  BY <1>0, <1>11 DEF RestoreAndDie, Dies, Restored, Askers, Recs, Deaths, PromptTyped
<1>12. CASE Stop
  <2>1. asker' \in Askers
    BY <1>0, <1>12 DEF Stop, Askers
  <2> QED BY <1>0, <1>12, <1>a, <2>1 DEF Stop, PromptTyped
<1>13. CASE RecorderEnds
  BY <1>0, <1>13 DEF RecorderEnds, Recs, PromptTyped
<1>14. CASE Outcome
  <2>1. Decide \in Told
    BY <1>0 DEF Decide, Signalled, Told, Recs, Teas, Sigs
  <2> QED BY <1>0, <1>14, <2>1 DEF Outcome, Askers, PromptTyped
<1>15. CASE ReadLine
  <2>1. asker.lines \in Nat /\ NFields \in Nat /\ asker.lines < NFields
    BY <1>0, <1>15, PromptAssumption DEF Askers, ReadLine
  <2>2. asker.lines + 1 \in 0..NFields
    BY <2>1
  <2>3. PICK l \in {"line", "rejected", "eof", "error", "overlong"} :
          asker' = [asker EXCEPT
            !.asked = asker.lines + 1,
            !.lines = IF l = "line" THEN asker.lines + 1 ELSE asker.lines,
            !.latch = CASE l = "eof" -> "ended"
                        [] l \in {"error", "overlong"} -> "failed"
                        [] OTHER -> "no"]
    BY <1>15 DEF ReadLine
  <2>4. asker' \in Askers
    BY <1>0, <2>2, <2>3 DEF Askers
  <2> QED BY <1>0, <1>15, <2>4 DEF ReadLine, PromptTyped
<1>16. CASE ReadEnds
  <2>1. \A huh \in {"ok", "panic", "error"} : DecideDumb(huh) \in Told
    BY DEF DecideDumb, Told
  <2>2. \E r \in Told : asker' = [asker EXCEPT !.pc = "told", !.told = r]
    BY <1>16, <2>1 DEF ReadEnds
  <2>3. asker' \in Askers
    BY <1>0, <2>2 DEF Askers
  <2> QED BY <1>0, <1>16, <2>3 DEF ReadEnds, PromptTyped
<1>17. CASE Deliver
  <2>1. asker.sent + 1 \in 0..MaxCopies
    BY <1>0, <1>17, PromptAssumption DEF Deliver, Askers
  <2>2. PICK s \in Sigs :
       IF Default
       THEN IF s \in asker.ignored
            THEN asker' = [asker EXCEPT !.sent = @ + 1] /\ UNCHANGED <<tea, queue, rec, tty>>
            ELSE Dies(s, tty) /\ UNCHANGED <<tea, queue, rec>>
       ELSE LET heard == s \in Recorded
                fits  == Len(queue.copies) < ChannelRoom IN
            /\ asker' = [asker EXCEPT !.sent = @ + 1,
                                      !.got = IF heard THEN @ \cup {s} ELSE @]
            /\ queue' = IF heard /\ fits
                        THEN [queue EXCEPT !.copies = Append(@, s)] ELSE queue
            /\ tea' = IF s # "HUP" /\ tea.at \in {"up", "quitting"}
                      THEN [tea EXCEPT !.sig = s] ELSE tea
            /\ UNCHANGED <<rec, tty>>
    BY <1>17 DEF Deliver
  <2>3. CASE Default
    <3>1. \/ asker' = [asker EXCEPT !.sent = asker.sent + 1]
          \/ asker' = [asker EXCEPT !.pc = "dead", !.death = s]
      BY <2>2, <2>3 DEF Dies
    <3>2. asker' \in Askers
      BY <1>0, <2>1, <3>1 DEF Askers, Deaths
    <3>3. UNCHANGED <<tea, queue, rec, tty>>
      BY <2>2, <2>3 DEF Dies
    <3> QED BY <1>0, <3>2, <3>3 DEF PromptTyped
  <2>4. CASE ~Default
    <3>1. asker' \in Askers
      <4> DEFINE got == IF s \in Recorded THEN asker.got \cup {s} ELSE asker.got
      <4>1. got \in SUBSET Sigs
        BY <1>0 DEF Askers
      <4>2. asker' = [asker EXCEPT !.sent = asker.sent + 1, !.got = got]
        BY <2>2, <2>4
      <4> HIDE DEF got
      <4> QED BY <1>0, <2>1, <4>1, <4>2 DEF Askers
    <3>2. tea' \in Teas
      BY <1>0, <2>2, <2>4 DEF Teas, Sigs
    <3>3. queue' \in Queues
      <4>1. Append(queue.copies, s) \in Seq(Sigs)
            /\ (Len(queue.copies) < ChannelRoom => Len(Append(queue.copies, s)) <= Room)
        BY <1>c DEF ChannelRoom, Room
      <4>2. queue' = queue \/ /\ Len(queue.copies) < ChannelRoom
                              /\ queue' = [queue EXCEPT !.copies = Append(queue.copies, s)]
        BY <2>2, <2>4
      <4> QED BY <1>0, <1>b, <4>1, <4>2
    <3> QED BY <1>0, <2>2, <2>4, <3>1, <3>2, <3>3 DEF PromptTyped
  <2> QED BY <2>3, <2>4
<1>18. CASE RootDies
  BY <1>0, <1>18 DEF RootDies, Dies, Askers, Deaths, PromptTyped
<1> QED BY <1>1, <1>2, <1>3, <1>4, <1>5, <1>6, <1>7, <1>8, <1>9, <1>10, <1>11, <1>12,
           <1>13, <1>14, <1>15, <1>16, <1>17, <1>18
       DEF PromptNext, PromptSteps

(***************************************************************************)
(* The types, for a form of any number of fields and any number of signals: *)
(* the channel never holds more copies than it has room for, and who dies   *)
(* of the watchdog dies of a signal.                                        *)
(***************************************************************************)
THEOREM PromptTypeCorrect == PromptSpec => []PromptTypeOK
<1>1. PromptTyped /\ [PromptNext]_promptVars => PromptTyped'
  BY PromptTypedStep
<1> QED BY <1>1, PromptTypedFirst, PromptTypedIs, PTL DEF PromptSpec

-----------------------------------------------------------------------------
(* The four parts together.                                                  *)

(* What holds of all four, whichever of them runs.                           *)
AllTyped == SessTyped /\ PromptTyped /\ WsTyped /\ DiagTyped

(* A step is a step of one part, and of the others none.                     *)
LEMMA AllTypedStep ==
  AllTyped /\ [Next]_<<on, sessVars, promptVars, wsVars, diagVars>> => AllTyped'
<1> SUFFICES ASSUME AllTyped, [Next]_<<on, sessVars, promptVars, wsVars, diagVars>>
             PROVE  AllTyped'
  OBVIOUS
<1>1. /\ [SessNext]_sessVars /\ [PromptNext]_promptVars
      /\ [WsNext]_wsVars /\ [DiagNext]_diagVars
  BY DEF Next
<1>2. SessTyped'
  BY <1>1, SessTypedStep DEF AllTyped
<1>3. PromptTyped'
  BY <1>1, PromptTypedStep DEF AllTyped
<1>4. WsTyped'
  BY <1>1, WsTypedStep DEF AllTyped
<1>5. DiagTyped'
  BY <1>1, DiagTypedStep DEF AllTyped
<1> QED BY <1>2, <1>3, <1>4, <1>5 DEF AllTyped

(***************************************************************************)
(* The types of the vault commands, of the prompts, of the workspaces and   *)
(* of the diagnosis hold in every state, of the part that runs and of those *)
(* that stand still.                                                        *)
(***************************************************************************)
THEOREM CommandsTypeCorrect == Spec => []TypeOK
<1>1. Init => AllTyped
  BY SessTypedFirst, PromptTypedFirst, WsTypedFirst, DiagTypedFirst DEF Init, AllTyped
<1>2. AllTyped /\ [Next]_<<on, sessVars, promptVars, wsVars, diagVars>> => AllTyped'
  BY AllTypedStep
<1>3. AllTyped => TypeOK
  BY SessTypedIs, PromptTypedIs, WsTypedIs, DiagTypedIs DEF AllTyped, TypeOK
<1> QED BY <1>1, <1>2, <1>3, PTL DEF Spec
=============================================================================
