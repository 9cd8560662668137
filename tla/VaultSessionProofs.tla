--------------------------- MODULE VaultSessionProofs ---------------------------
(***************************************************************************)
(* Proofs about VaultSession, for every set of commands and every bound on  *)
(* the signals sent and on the ingests run one after the other.             *)
(***************************************************************************)
EXTENDS VaultSession, TLAPS

(* The state is four records: which fields they have.                        *)
WsFields     == {"pc", "err", "exit", "code", "client", "bands", "tools", "sound",
                 "cut", "said", "pids", "lock", "agreed"}
SigFields    == {"sent", "watched", "waiting", "ctx", "forward"}
ServerFields == {"leader", "child", "stdin", "pipe", "told", "deaf"}
VaultFields  == {"runs", "copies", "forced", "lock", "orphans", "killed", "removed"}

Shaped == /\ ws     = [f \in WsFields     |-> ws[f]]
          /\ sig    = [f \in SigFields    |-> sig[f]]
          /\ server = [f \in ServerFields |-> server[f]]
          /\ vault  = [f \in VaultFields  |-> vault[f]]

(***************************************************************************)
(* The session: Close comes after the group was told to end, and from it on *)
(* the leader is reaped; a command at its waits for output can only be      *)
(* ended by a signal.                                                       *)
(***************************************************************************)
BeforeSession == {"typed", "confirm", "orphans", "watch", "spawn", "shake"}
Closed        == {"unhook", "xrepo", "render", "killGate", "killing", "surviving",
                  "lockGate", "clearing", "done"}
EndedClean == /\ server.leader = "reaped" /\ ~server.pipe
              /\ server.child = "gone" \/ server.told

SessionInv ==
  /\ ws.client => ws.pc \notin BeforeSession
  /\ At("close") => server.told
  /\ ws.client /\ ws.pc \in Closed => EndedClean
  /\ SessionEndsClean

(***************************************************************************)
(* The report of status: what a context that ended cut short is remembered  *)
(* as long as it has to be, and it is printed last.                         *)
(***************************************************************************)
SilenceInv ==
  /\ ws.cut => sig.ctx = "done"
  /\ Op({"status"}) /\ ws.cut /\ ws.pc \in {"term", "close", "unhook", "xrepo", "render"}
       => ws.err = "ctx"
  /\ Op({"status"}) /\ ws.said => At("ended")
  /\ InterruptedSaysNothing

(***************************************************************************)
(* The doctor's mutations: the report is printed before them, the gate of   *)
(* one is opened before it, and neither report nor gate changes after.      *)
(***************************************************************************)
Mutating == {"killGate", "killing", "surviving", "lockGate", "clearing", "done"}

DoctorInv ==
  /\ ws.pc \in Mutating => Op({"doctor"}) /\ ws.said
  /\ ws.said => ws.pc \in Mutating \cup {"ended"}
  /\ ws.pc \in {"killing", "surviving"} => "killing" \in ws.agreed
  /\ At("clearing") => ws.lock /\ "clearing" \in ws.agreed
  /\ vault.killed # {} =>
       Op({"doctor"}) /\ ws.pc \in {"surviving", "lockGate", "clearing", "done", "ended"}
  /\ vault.removed => Op({"doctor"}) /\ ws.pc \in {"done", "ended"}
  /\ DoctorDoesAsShown

(***************************************************************************)
(* The notes: an exit code is given once, at the end; and the code 0 of an  *)
(* answer stands for a note.                                                *)
(***************************************************************************)
IngestInv ==
  /\ vault.copies \in Nat
  /\ ws.exit = 0 => At("ended")
  /\ Op({"ingest"}) /\ ws.err = "code" /\ ws.code = 0 => vault.copies > 0
  /\ IngestOnce

(***************************************************************************)
(* The verdict: a report without red or yellow is of a vault that is well;  *)
(* but for the handshake that failed, whose check is the last but one.      *)
(***************************************************************************)
Green    == "red" \notin ws.bands /\ "yellow" \notin ws.bands
Pending  == \/ ws.pc \in {"xrepo", "wedged"} /\ ws.err # "none"
            \/ At("ended") /\ ws.exit = BySignal

VerdictInv ==
  /\ ws.tools \in {{}, {"gate"}, {"bare"}}
  /\ At("orphans") => Op({"doctor"})
  /\ ws.pc \in BeforeSession \cup {"forward", "work"} /\ Op({"status"}) => ws.sound
  /\ Op({"status", "doctor"}) /\ Green => ws.sound \/ Pending
  /\ VerdictHonest

SessInv == SessionInv /\ SilenceInv /\ DoctorInv /\ IngestInv /\ VerdictInv
-----------------------------------------------------------------------------
(* The records keep their fields.                                            *)

(* Nothing was done to the vault yet.                                        *)
AtFirst == /\ vault = [f \in VaultFields |-> vault[f]]
           /\ vault.copies = 0 /\ vault.killed = {} /\ ~vault.removed

(* A session starts with no second copy, nothing killed, nothing removed.   *)
LEMMA VaultAtFirst == SessInit => AtFirst
<1> SUFFICES ASSUME SessInit PROVE AtFirst
  OBVIOUS
<1>1. CASE cmd.op # "doctor"
  BY <1>1 DEF SessInit, AtFirst, Empty, VaultFields
<1>2. CASE cmd.op = "doctor"
  <2> PICK l \in {"none", "stale"}, o \in {{}, {"p1"}} :
             vault = [Empty EXCEPT !.lock = l, !.orphans = o]
    <3>1. CASE cmd.env = Good
      BY <1>2, <3>1 DEF SessInit
    <3>2. CASE ~(cmd.env = Good)
      <4>1. vault \in {[Empty EXCEPT !.lock = l, !.orphans = o] :
                         l \in {"none", "stale"}, o \in {{}}}
        BY <1>2, <3>2 DEF SessInit
      <4> QED BY <4>1
    <3> QED BY <3>1, <3>2
  <2> QED BY DEF AtFirst, Empty, VaultFields
<1> QED BY <1>1, <1>2

(* The records of a session have their fields at first.                     *)
LEMMA ShapedInit == SessInit => Shaped
<1> SUFFICES ASSUME SessInit PROVE Shaped
  OBVIOUS
<1>1. ws = [f \in WsFields |-> ws[f]]
  BY DEF SessInit, Started, WsFields
<1>2. sig = [f \in SigFields |-> sig[f]]
  BY DEF SessInit, Unhooked, SigFields
<1>3. server = [f \in ServerFields |-> server[f]]
  BY DEF SessInit, NoServer, ServerFields
<1>4. vault = [f \in VaultFields |-> vault[f]]
  BY VaultAtFirst DEF AtFirst
<1> QED BY <1>1, <1>2, <1>3, <1>4 DEF Shaped

(* What an answer to the question about a forced ingest leads to.            *)
LEMMA ConfirmLeads ==
  ASSUME Confirm
  PROVE  \/ Goto("watch") /\ UNCHANGED server
         \/ Over([ws EXCEPT !.err = "declined"], 0)
         \/ Over(ws, BySignal)
         \/ Over(ws, 1)
<1> PICK a \in Answers :
      CASE a = "yes"       -> Goto("watch") /\ UNCHANGED server
        [] a = "no"        -> Over([ws EXCEPT !.err = "declined"], 0)
        [] a = "cancelled" -> Over(ws, BySignal)
        [] a = "failed"    -> Over(ws, 1)
  BY DEF Confirm
<1>1. a \in {"yes", "no", "cancelled", "failed"}
  BY DEF Answers
<1> QED BY <1>1

(* A gate: it is passed with its act agreed to, skipped, or the end.         *)
Passes(act, next) ==
  \/ /\ UNCHANGED server
     /\ ws' = [f \in WsFields |-> ws'[f]] /\ ws'.pc \in {act, next}
     /\ ws'.pc = act => act \in ws'.agreed
     /\ ws.agreed \subseteq ws'.agreed
     /\ \A f \in WsFields \ {"pc", "agreed"} : ws'[f] = ws[f]
  \/ \E n : n # 0 /\ Over(ws, n)

(* Where the gate of a command leads.                                       *)
LEMMA GateLeads ==
  ASSUME Shaped, NEW asks, NEW todo, NEW act, NEW next, act # next,
         Gate(asks, todo, act, next)
  PROVE  Passes(act, next)
<1> USE DEF Shaped, WsFields
<1>1. CASE ~asks
  <2>1. CASE todo
    <3>1. ws' = [ws EXCEPT !.pc = act, !.agreed = @ \cup {act}] /\ UNCHANGED server
      BY <1>1, <2>1 DEF Gate
    <3> QED BY <3>1 DEF Passes
  <2>2. CASE ~todo
    BY <1>1, <2>2 DEF Gate, Passes
  <2> QED BY <2>1, <2>2
<1>2. CASE asks
  <2> PICK a \in Answers :
        CASE a = "yes"       -> /\ ws' = [ws EXCEPT !.pc = act, !.agreed = @ \cup {act}]
                                /\ UNCHANGED server
          [] a = "no"        -> Goto(next) /\ UNCHANGED server
          [] a = "cancelled" -> Over(ws, BySignal)
          [] a = "failed"    -> Over(ws, IF Verdict > 1 THEN Verdict ELSE 1)
    BY <1>2 DEF Gate
  <2>1. CASE a = "yes"
    BY <2>1 DEF Passes
  <2>2. CASE a = "no"
    BY <2>2 DEF Passes, Goto
  <2>3. CASE a = "cancelled"
    <3>1. BySignal # 0
      BY DEF BySignal
    <3> QED BY <2>3, <3>1 DEF Passes
  <2>4. CASE a = "failed"
    <3>1. (IF Verdict > 1 THEN Verdict ELSE 1) # 0
      BY DEF Verdict, HealthBandExitCode
    <3> QED BY <2>4, <3>1 DEF Passes
  <2> QED BY <2>1, <2>2, <2>3, <2>4 DEF Answers
<1> QED BY <1>1, <1>2

(* Where the gate of the kill switch leads.                                 *)
LEMMA KillGateLeads ==
  ASSUME Shaped, KillGate
  PROVE  At("killGate") /\ Passes("killing", "lockGate") /\ UNCHANGED <<cmd, sig, vault>>
BY GateLeads DEF KillGate

(* The locks are cleared only when there were some.                          *)
LEMMA LockGateLeads ==
  ASSUME Shaped, LockGate
  PROVE  /\ At("lockGate") /\ Passes("clearing", "done") /\ UNCHANGED <<cmd, sig, vault>>
         /\ ws'.pc = "clearing" => ws.lock
<1>1. At("lockGate") /\ Passes("clearing", "done") /\ UNCHANGED <<cmd, sig, vault>>
  BY GateLeads DEF LockGate
<1>2. SUFFICES ASSUME ~ws.lock PROVE ws'.pc # "clearing"
  BY <1>1
<1>3. ~AsksToClear /\ ~(Given("clear-stale-locks") /\ ws.lock)
  BY <1>2 DEF AsksToClear
<1>4. ws' = [ws EXCEPT !.pc = "done", !.agreed = @]
  BY <1>3 DEF LockGate, Gate
<1> QED BY <1>4 DEF Shaped, WsFields

(* A signal is recorded, or it ends the command.                             *)
LEMMA SignalLeads ==
  ASSUME Signal
  PROVE  /\ Running
         /\ UNCHANGED <<cmd, vault>>
         /\ UNCHANGED <<ws, server>> \/ Over(ws, BySignal)
<1>1. CASE Asking
  BY <1>1 DEF Signal
<1>2. CASE ~Asking /\ sig.watched
  BY <1>2 DEF Signal
<1>3. CASE ~Asking /\ ~sig.watched
  BY <1>3 DEF Signal
<1> QED BY <1>1, <1>2, <1>3

(* It does not end the context: that is for whoever waits for it.            *)
LEMMA SignalCounts ==
  ASSUME Shaped, Signal
  PROVE  sig' = [f \in SigFields |-> sig'[f]] /\ sig'.ctx = sig.ctx
<1> USE DEF Shaped, SigFields
<1>1. CASE Asking
  BY <1>1 DEF Signal
<1>2. CASE ~Asking /\ sig.watched
  BY <1>2 DEF Signal
<1>3. CASE ~Asking /\ ~sig.watched
  BY <1>3 DEF Signal
<1> QED BY <1>1, <1>2, <1>3

(***************************************************************************)
(* What a collector adds to the report: a band that is green only for a     *)
(* source that was read and is well.                                        *)
(***************************************************************************)
Collects(pc) ==
  \E band \in Bands, ok \in BOOLEAN : Signal1(band, ok, pc) /\ (band = "green" => ok)

Reported(pc) ==
  /\ ws'.pc = pc /\ ws' = [f \in WsFields |-> ws'[f]]
  /\ ws'.client = ws.client /\ ws'.exit = ws.exit /\ ws'.err = ws.err
  /\ ws'.code = ws.code /\ ws'.said = ws.said /\ ws'.tools = ws.tools
  /\ ws'.pids = ws.pids /\ ws'.lock = ws.lock /\ ws'.agreed = ws.agreed
  /\ ws'.cut => ws.cut \/ sig.ctx = "done"
  /\ Green' => Green /\ (ws.sound => ws'.sound)

(* A signal collected is one reported: it can only make the report worse.   *)
LEMMA Collected ==
  ASSUME Shaped, NEW pc, Collects(pc)
  PROVE  Reported(pc)
<1> PICK band \in Bands, ok \in BOOLEAN : Signal1(band, ok, pc) /\ (band = "green" => ok)
  BY DEF Collects
<1> USE DEF Shaped, WsFields, Signal1
<1>1. /\ ws'.pc = pc /\ ws' = [f \in WsFields |-> ws'[f]]
      /\ ws'.client = ws.client /\ ws'.exit = ws.exit /\ ws'.err = ws.err
      /\ ws'.code = ws.code /\ ws'.said = ws.said /\ ws'.tools = ws.tools
      /\ ws'.pids = ws.pids /\ ws'.lock = ws.lock /\ ws'.agreed = ws.agreed
  OBVIOUS
<1>2. ws'.cut => ws.cut \/ sig.ctx = "done"
  OBVIOUS
<1>3. ws'.bands = ws.bands \cup {band} /\ ws'.sound = (ws.sound /\ ok)
  OBVIOUS
<1>4. Green' => Green /\ (ws.sound => ws'.sound)
  BY <1>3 DEF Green, Bands
<1> QED BY <1>1, <1>2, <1>4 DEF Reported

(* So does a source that could not be read.                                 *)
LEMMA RedCollected ==
  ASSUME NEW pc, Signal1("red", FALSE, pc)
  PROVE  Collects(pc)
<1>1. "red" \in Bands /\ FALSE \in BOOLEAN
  BY DEF Bands
<1> SUFFICES \E band \in Bands, ok \in BOOLEAN : Signal1(band, ok, pc) /\ (band = "green" => ok)
  BY DEF Collects
<1> USE <1>1
<1> WITNESS "red" \in Bands, FALSE \in BOOLEAN
<1> QED OBVIOUS

(* The score is green for none of the measures but healthy ones.             *)
LEMMA GreenIsHealthy ==
  ASSUME NEW m \in Measures, NEW warn \in {{}, Sentinels},
         HealthBand(Score(m, warn)) = "green"
  PROVE  Healthy(m)
<1>1. SUFFICES ASSUME m = [cov |-> 101, suf |-> 40, link |-> -1, orphans |-> 200]
               PROVE  FALSE
  BY DEF Measures, Healthy
<1>2. ~(Score(m, warn) >= 70)
  BY <1>1 DEF Score, Less, Clamp, OrphanPct
<1> QED BY <1>2 DEF HealthBand

(* The health signal of a status is green only when the vault is healthy.   *)
LEMMA HealthLeads ==
  ASSUME Shaped, Health
  PROVE  At("health") /\ Reported("verify") /\ UNCHANGED <<cmd, sig, server, vault>>
<1>1. CASE \E m \in Measures, warn \in {{}, Sentinels} :
             Signal1(HealthBand(Score(m, warn)), Healthy(m), "verify")
  <2> PICK m \in Measures, warn \in {{}, Sentinels} :
              Signal1(HealthBand(Score(m, warn)), Healthy(m), "verify")
    BY <1>1
  <2>1. HealthBand(Score(m, warn)) \in Bands /\ Healthy(m) \in BOOLEAN
    BY DEF HealthBand, Bands, Healthy
  <2>2. Collects("verify")
    BY <2>1, GreenIsHealthy DEF Collects
  <2> QED BY <2>2, Collected DEF Health
<1>2. CASE Signal1("red", FALSE, "verify")
  BY <1>2, RedCollected, Collected DEF Health
<1> QED BY <1>1, <1>2 DEF Health

(* The signal of the backups is green only when their chain is intact.      *)
LEMMA VerifyLeads ==
  ASSUME Shaped, Verify
  PROVE  At("verify") /\ Reported("logs") /\ UNCHANGED <<cmd, sig, server, vault>>
<1> PICK uv \in BOOLEAN, last \in {"intact", "broken"} :
      LET chain == [k \in 1..8 |-> IF sig.ctx = "done" THEN "broken"
                                   ELSE IF k = 8 THEN last ELSE "intact"]
      IN  Signal1(ChainBand(uv, chain), uv /\ last = "intact", "logs")
  BY DEF Verify
<1> DEFINE chain == [k \in 1..8 |-> IF sig.ctx = "done" THEN "broken"
                                   ELSE IF k = 8 THEN last ELSE "intact"]
<1>1. /\ ChainBand(uv, chain) \in Bands /\ (uv /\ last = "intact") \in BOOLEAN
      /\ ChainBand(uv, chain) = "green" => uv /\ last = "intact"
  BY DEF ChainBand, Bands
<1>2. Collects("logs")
  BY <1>1 DEF Collects
<1> QED BY <1>2, Collected DEF Verify

(* What the listing of the tools tells a doctor, and a status.              *)
LEMMA ListToolsLeads ==
  ASSUME Shaped, ListTools
  PROVE  /\ At("work") /\ UNCHANGED <<cmd, sig, server, vault>>
         /\ \/ Op({"doctor"}) /\ (Goto("term") \/ Ends("term", "other"))
            \/ Op({"status"}) /\ Reported("health")
            \/ /\ Op({"status"})
               /\ \E tools \in {{}, {"gate"}, {"bare"}} :
                    ws' = [ws EXCEPT !.bands = {"green"}, !.pc = "health", !.tools = tools]
<1>1. Signal1("red", FALSE, "health") => Reported("health")
  BY RedCollected, Collected
<1> QED BY <1>1 DEF ListTools

(* The two signals of the logs and the one of the tools.                     *)
LEMMA LogsLeads ==
  ASSUME Shaped, Logs, ws.tools \in {{}, {"gate"}, {"bare"}}
  PROVE  At("logs") /\ Reported("judge") /\ UNCHANGED <<cmd, sig, server, vault>>
<1> PICK log \in {"absent", "there"}, age \in {-1, 95, 96, 101} :
      ws' = [ws EXCEPT
        !.pc = "judge",
        !.bands = @ \cup {CostBand(log), DedupBand(ws.tools), DrillBand(age)},
        !.sound = @ /\ log = "there" /\ ws.tools = {"gate"} /\ age \in 0..95]
  BY DEF Logs
<1> DEFINE ok == log = "there" /\ ws.tools = {"gate"} /\ age \in 0..95
<1> DEFINE bands == {CostBand(log), DedupBand(ws.tools), DrillBand(age)}
<1>1. "red" \notin bands /\ "yellow" \notin bands => ok
  BY DEF CostBand, DedupBand, DrillBand
<1>2. /\ ws'.pc = "judge" /\ ws' = [f \in WsFields |-> ws'[f]]
      /\ ws'.client = ws.client /\ ws'.exit = ws.exit /\ ws'.err = ws.err
      /\ ws'.code = ws.code /\ ws'.said = ws.said /\ ws'.tools = ws.tools
      /\ ws'.pids = ws.pids /\ ws'.lock = ws.lock /\ ws'.agreed = ws.agreed
      /\ ws'.cut = ws.cut /\ ws'.bands = ws.bands \cup bands
  BY DEF Shaped, WsFields
<1>3. ws'.sound = (ws.sound /\ ok)
  BY DEF Shaped, WsFields
<1>4. Green' => Green /\ (ws.sound => ws'.sound)
  BY <1>1, <1>2, <1>3 DEF Green
<1> QED BY <1>2, <1>4 DEF Reported, Logs

(***************************************************************************)
(* backup-verify and reindex say at once what they found, and 0 only for    *)
(* what is well.                                                            *)
(***************************************************************************)
Audits ==
  \E sound \in BOOLEAN, n \in {0, 1, 4, 255} :
    /\ Over([ws EXCEPT !.said = TRUE, !.sound = sound], n)
    /\ n = 0 => sound

(* The newest log that can be looked at is the one that is read.             *)
LEMMA BackupHonest ==
  ASSUME NEW root,
         NEW logs \in SUBSET {[age |-> 1, lines |-> <<"rot", "success", "blank">>],
                              [age |-> 0, lines |-> <<"success", "overlong", "rot">>],
                              [age |-> 2, lines |-> <<"success", "rot">>],
                              [age |-> 3, lines |-> <<"green", "garbled">>],
                              [age |-> 15, lines |-> <<"ok">>],
                              [age |-> -1, lines |-> <<"ok">>]},
         BackupExit(root, logs) = 0
  PROVE  \E l \in logs : /\ l.age \in {0, 1}
                         /\ \A o \in logs : o.age = -1 \/ l.age <= o.age
<1> DEFINE seen   == {l \in logs : l.age # -1}
           latest == CHOOSE l \in seen : \A o \in seen : l.age <= o.age
           read   == LinesRead(latest.lines)
           last   == latest.lines[CHOOSE k \in read : \A j \in read : j <= k]
<1>1. /\ seen # {} /\ latest.age <= 14 /\ read # {}
      /\ last \in {"green", "ok", "success"}
  <2>1. seen # {} /\ ~(latest.age > 14 \/ read = {})
    BY DEF BackupExit
  <2>2. last \in {"green", "ok", "success"}
    BY <2>1 DEF BackupExit
  <2> QED BY <2>1, <2>2
<1>2. \A l \in seen : l.age \in {0, 1, 2, 3, 15}
  OBVIOUS
<1>3. \E l \in seen : \A o \in seen : l.age <= o.age
  <2>1. CASE \E l \in seen : l.age = 0
    BY <1>2, <2>1
  <2>2. CASE (\E l \in seen : l.age = 1) /\ ~\E l \in seen : l.age = 0
    BY <1>2, <2>2
  <2>3. CASE (\E l \in seen : l.age = 2) /\ ~\E l \in seen : l.age \in {0, 1}
    BY <1>2, <2>3
  <2>4. CASE (\E l \in seen : l.age = 3) /\ ~\E l \in seen : l.age \in {0, 1, 2}
    BY <1>2, <2>4
  <2>5. CASE ~\E l \in seen : l.age \in {0, 1, 2, 3}
    BY <1>1, <1>2, <2>5
  <2> QED BY <2>1, <2>2, <2>3, <2>4, <2>5
<1>4. latest \in seen /\ \A o \in seen : latest.age <= o.age
  BY <1>3
<1> HIDE DEF latest
<1>5. latest.age # 2
  <2> SUFFICES ASSUME latest.age = 2 PROVE FALSE
    OBVIOUS
  <2>1. latest.lines = <<"success", "rot">>
    BY <1>4
  <2>2. read = {1, 2}
    BY <2>1 DEF LinesRead
  <2>3. last = "rot"
    BY <2>1, <2>2
  <2> QED BY <1>1, <2>3
<1>6. latest.age # 3
  <2> SUFFICES ASSUME latest.age = 3 PROVE FALSE
    OBVIOUS
  <2>1. latest.lines = <<"green", "garbled">>
    BY <1>4
  <2>2. read = {1, 2}
    BY <2>1 DEF LinesRead
  <2>3. last = "garbled"
    BY <2>1, <2>2
  <2> QED BY <1>1, <2>3
<1>7. latest.age \in {0, 1} /\ latest \in logs
  BY <1>1, <1>2, <1>4, <1>5, <1>6
<1>8. \A o \in logs : o.age = -1 \/ latest.age <= o.age
  BY <1>4
<1> QED BY <1>7, <1>8

(* A backup verify and a reindex end with what they found.                  *)
LEMMA AuditLeads ==
  ASSUME BackupVerify \/ Reindex
  PROVE  At("typed") /\ Op({"backup", "reindex"}) /\ Audits /\ UNCHANGED <<cmd, sig, vault>>
<1>1. CASE BackupVerify
  <2> DEFINE Kinds == {[age |-> 1, lines |-> <<"rot", "success", "blank">>],
                       [age |-> 0, lines |-> <<"success", "overlong", "rot">>],
                       [age |-> 2, lines |-> <<"success", "rot">>],
                       [age |-> 3, lines |-> <<"green", "garbled">>],
                       [age |-> 15, lines |-> <<"ok">>],
                       [age |-> -1, lines |-> <<"ok">>]}
  <2> DEFINE newest(logs) ==
        {l \in logs : l.age >= 0 /\ \A o \in logs : o.age = -1 \/ l.age <= o.age}
  <2> DEFINE recent(logs) == \E l \in newest(logs) : l.age \in {0, 1}
  <2>1. PICK logs \in SUBSET Kinds :
               Over([ws EXCEPT !.said = TRUE, !.sound = recent(logs)],
                    BackupExit(cmd.env.root, logs))
    BY <1>1 DEF BackupVerify
  <2>2. BackupExit(cmd.env.root, logs) \in {0, 1, 4, 255} /\ recent(logs) \in BOOLEAN
    BY DEF BackupExit
  <2>3. BackupExit(cmd.env.root, logs) = 0 => recent(logs)
    BY BackupHonest
  <2> HIDE DEF recent
  <2>4. Audits
    BY <2>1, <2>2, <2>3 DEF Audits
  <2> QED BY <1>1, <2>4 DEF BackupVerify, Op
<1>2. CASE Reindex
  <2> PICK child \in {"unstarted", "killed", "failed", "ended"} :
              Over([ws EXCEPT !.said = TRUE, !.sound = child = "ended"],
                   ReindexExit(cmd.env.root, child))
    BY <1>2 DEF Reindex
  <2>1. /\ ReindexExit(cmd.env.root, child) \in {0, 1, 4, 255}
        /\ (child = "ended") \in BOOLEAN
        /\ ReindexExit(cmd.env.root, child) = 0 => child = "ended"
    BY DEF ReindexExit
  <2>2. Audits
    BY <2>1 DEF Audits
  <2> QED BY <1>2, <2>2 DEF Reindex, Op
<1> QED BY <1>1, <1>2

(* In fields: they have the report printed, and are over.                    *)
LEMMA Audited ==
  ASSUME Shaped, Audits
  PROVE  /\ ws' = [f \in WsFields |-> ws'[f]]
         /\ ws'.pc = "ended" /\ ws'.said /\ ws'.exit \in {0, 1, 4, 255}
         /\ ws'.exit = 0 => ws'.sound
         /\ ws'.client = ws.client /\ ws'.err = ws.err /\ ws'.code = ws.code
         /\ ws'.cut = ws.cut /\ ws'.tools = ws.tools /\ ws'.pids = ws.pids
         /\ ws'.lock = ws.lock /\ ws'.agreed = ws.agreed
<1> PICK sound \in BOOLEAN, n \in {0, 1, 4, 255} :
      /\ Over([ws EXCEPT !.said = TRUE, !.sound = sound], n)
      /\ n = 0 => sound
  BY DEF Audits
<1> QED BY DEF Shaped, Over, WsFields

(* Of the answers of the server, one alone is rendered as 0.                 *)
LEMMA FineAloneIsZero ==
  ASSUME NEW e \in Replies
  PROVE  /\ RenderExit(e) = 0 => e = Fine
         /\ Op({"ingest"}) /\ e = Fine => Stores
<1>1. e = Fine \/ \E c : e = Failed(c)
  BY DEF Replies, Refusals
<1>2. RenderExit(e) = 0 => e = Fine
  <2> SUFFICES ASSUME NEW c, e = Failed(c) PROVE RenderExit(e) # 0
    BY <1>1
  <2>1. e.code = c /\ e.ok = FALSE /\ e # Fine
    BY DEF Failed, Fine
  <2>2. \A code : MapErrorCodeToExitCode(code) # 0
    BY DEF MapErrorCodeToExitCode
  <2>3. CASE c # "none"
    BY <2>1, <2>2, <2>3 DEF RenderExit
  <2>4. CASE c = "none"
    BY <2>1, <2>2, <2>4 DEF RenderExit, ExitCode
  <2> QED BY <2>3, <2>4
<1>3. Fine # Failed("DEDUP_BLOCKED")
  BY DEF Fine, Failed
<1> QED BY <1>2, <1>3 DEF Replies

(***************************************************************************)
(* A call, answered, garbled or cut: a code or an error, and for ingest     *)
(* maybe a note, which it wrote if the code is 0.                           *)
(***************************************************************************)
LEMMA CallLeads ==
  ASSUME CallAnswered \/ CallGarbled \/ CallCut
  PROVE  /\ At("work") /\ Op({"call", "predict", "ingest"})
         /\ UNCHANGED <<cmd, sig, server>>
         /\ \/ \E n : /\ Exits("term", n)
                      /\ Op({"ingest"}) /\ n = 0 => vault' = Stored
            \/ Ends("term", "other")
         /\ vault' = vault \/ (Op({"ingest"}) /\ Stores /\ vault' = Stored)
<1>1. CASE CallAnswered
  <2> PICK e \in Replies :
        /\ Exits("term", IF Op({"predict"}) THEN PredictExit(e) ELSE RenderExit(e))
        /\ vault' = IF Op({"ingest"}) /\ e = Fine THEN Stored ELSE vault
    BY <1>1 DEF CallAnswered
  <2>1. CASE Op({"ingest"})
    <3>1. ~Op({"predict"})
      BY <2>1 DEF Op
    <3>2. Exits("term", RenderExit(e))
      BY <3>1
    <3>3. vault' = vault \/ (Stores /\ vault' = Stored)
      BY <2>1, FineAloneIsZero
    <3>4. RenderExit(e) = 0 => vault' = Stored
      BY <2>1, FineAloneIsZero
    <3> QED BY <1>1, <2>1, <3>2, <3>3, <3>4 DEF CallAnswered
  <2>2. CASE ~Op({"ingest"})
    BY <1>1, <2>2 DEF CallAnswered
  <2> QED BY <2>1, <2>2
<1>2. CASE CallGarbled \/ CallCut
  <2>1. vault' \in {vault} \cup (IF Op({"ingest"}) /\ Stores THEN {Stored} ELSE {})
    BY <1>2 DEF CallGarbled, CallCut
  <2>2. CASE Op({"ingest"}) /\ Stores
    BY <1>2, <2>1, <2>2 DEF CallGarbled, CallCut
  <2>3. CASE ~(Op({"ingest"}) /\ Stores)
    BY <1>2, <2>1, <2>3 DEF CallGarbled, CallCut
  <2> QED BY <2>2, <2>3
<1> QED BY <1>1, <1>2

(* As far as the command itself goes.                                        *)
LEMMA CallMoves ==
  ASSUME CallAnswered \/ CallGarbled \/ CallCut
  PROVE  /\ At("work") /\ Op({"call", "predict", "ingest"})
         /\ UNCHANGED <<cmd, sig, server>>
         /\ (\E n : Exits("term", n)) \/ Ends("term", "other")
         /\ vault' = vault \/ vault' = Stored
<1>1. (\E n : Exits("term", n)) \/ Ends("term", "other")
  BY CallLeads
<1> QED BY <1>1, CallLeads

(* What the note it wrote leaves alone.                                      *)
LEMMA StoredFields ==
  ASSUME Shaped, vault' = Stored
  PROVE  /\ vault'.copies = vault.copies + 1
         /\ Given("dedup-force") \/ vault.forced => vault'.forced
         /\ vault'.killed = vault.killed /\ vault'.removed = vault.removed
BY DEF Shaped, Stored, VaultFields

(* What is printed and returned, by the command.                             *)
LEMMA RenderLeads ==
  ASSUME Render
  PROVE  /\ At("render") /\ UNCHANGED <<cmd, sig, vault>>
         /\ \/ /\ Op({"doctor"})
               /\ ws' = [ws EXCEPT !.said = TRUE, !.pc = "killGate"] /\ UNCHANGED server
            \/ /\ Op({"status"}) /\ ws.err # "ctx"
               /\ Over([ws EXCEPT !.said = TRUE], Verdict)
            \/ /\ ~Op({"doctor"}) /\ (Op({"status"}) => ws.err = "ctx")
               /\ Over(ws, IF ws.err = "code" THEN ws.code ELSE 1)
<1>1. CASE Op({"doctor"})
  BY <1>1 DEF Render
<1>2. CASE ~Op({"doctor"}) /\ Op({"status"}) /\ ws.err # "ctx"
  BY <1>2 DEF Render
<1>3. CASE ~Op({"doctor"}) /\ ~(Op({"status"}) /\ ws.err # "ctx")
  BY <1>3 DEF Render
<1> QED BY <1>1, <1>2, <1>3

(* The exit code of a report is 0 only for one that is all green.            *)
LEMMA ZeroIsGreen == Verdict = 0 => Green
BY DEF Verdict, HealthBandExitCode, Worst, Green

(* The doctor's first look, as far as the verdict goes.                      *)
LEMMA LooksLeads ==
  ASSUME Shaped, DoctorLooks
  PROVE  /\ At("orphans") /\ UNCHANGED <<cmd, sig, server, vault>>
         /\ ws'.pc = "spawn" /\ ws'.exit = ws.exit /\ ws'.said = ws.said
         /\ ws'.tools = ws.tools
         /\ Green' => ws'.sound
<1> PICK n \in {Cardinality(vault.orphans), -1, 0} :
      LET pids  == IF n > 0 THEN vault.orphans ELSE {}
          stale == {l \in {vault.lock} : l = "stale"}
          root  == cmd.env.root
      IN  ws' = [ws EXCEPT
            !.pc = "spawn", !.pids = pids, !.lock = root # "none" /\ stale # {},
            !.bands = {OrphanBand(n), LockBand(root, stale), TokenBand(cmd.env.token)},
            !.sound = cmd.env.token /\ root # "none" /\ stale = {} /\ pids = {}]
  BY DEF DoctorLooks
<1> DEFINE pids  == IF n > 0 THEN vault.orphans ELSE {}
           stale == {l \in {vault.lock} : l = "stale"}
           bands == {OrphanBand(n), LockBand(cmd.env.root, stale), TokenBand(cmd.env.token)}
           sound == cmd.env.token /\ cmd.env.root # "none" /\ stale = {} /\ pids = {}
<1>1. "red" \notin bands /\ "yellow" \notin bands => sound
  BY DEF OrphanBand, LockBand, TokenBand
<1>2. /\ ws'.pc = "spawn" /\ ws'.exit = ws.exit /\ ws'.said = ws.said
      /\ ws'.tools = ws.tools /\ ws'.bands = bands
  BY DEF Shaped, WsFields
<1>3. ws'.sound = sound
  BY DEF Shaped, WsFields
<1> QED BY <1>1, <1>2, <1>3 DEF Green, DoctorLooks

(* No client: the report of status is red, the doctor goes on to the last    *)
(* but one of its checks with an error.                                      *)
LEMMA WithoutLeads ==
  ASSUME Shaped, NEW interrupted, WithoutClient(interrupted)
  PROVE  /\ ws'.pc \in {"xrepo", "unhook"} /\ ws'.exit = ws.exit
         /\ ws'.said = ws.said /\ ws'.tools = ws.tools
         /\ Op({"status"}) => ~Green'
         /\ Op({"doctor"}) => ws'.pc = "xrepo" /\ ws'.err = "other"
<1> USE DEF Shaped, WsFields, WithoutClient
<1>1. /\ ws'.pc \in {"xrepo", "unhook"} /\ ws'.exit = ws.exit
      /\ ws'.said = ws.said /\ ws'.tools = ws.tools
  OBVIOUS
<1>2. Op({"status"}) => ~Green'
  <2>1. "red" \in ToSet(DownReport)
    BY DEF ToSet, DownReport
  <2> QED BY <2>1 DEF Green
<1>3. Op({"doctor"}) => ws'.pc = "xrepo" /\ ws'.err = "other"
  BY DEF Op
<1> QED BY <1>1, <1>2, <1>3

(* The last two checks.                                                      *)
LEMMA XrepoLeads ==
  ASSUME Shaped, Xrepo
  PROVE  /\ At("xrepo") /\ UNCHANGED <<cmd, sig, server, vault>>
         /\ ws'.pc = "render" /\ ws'.exit = ws.exit /\ ws'.said = ws.said
         /\ ws'.tools = ws.tools
         /\ Green' => Green /\ ws.err = "none" /\ (ws.sound => ws'.sound)
<1> PICK walker \in {"absent", "agrees", "drifted"} :
      LET passed == ws.err = "none" IN
      ws' = [ws EXCEPT
        !.pc = "render", !.sound = @ /\ passed /\ walker = "agrees",
        !.bands = @ \cup {IF passed THEN "green" ELSE "red",
                           XrepoBand(cmd.env.root, walker)}]
  BY DEF Xrepo
<1> DEFINE passed == ws.err = "none"
           bands  == {IF passed THEN "green" ELSE "red", XrepoBand(cmd.env.root, walker)}
<1>1. "red" \notin bands /\ "yellow" \notin bands => passed /\ walker = "agrees"
  BY DEF XrepoBand
<1>2. /\ ws'.pc = "render" /\ ws'.exit = ws.exit /\ ws'.said = ws.said
      /\ ws'.tools = ws.tools /\ ws'.bands = ws.bands \cup bands
  BY DEF Shaped, WsFields
<1>3. ws'.sound = (ws.sound /\ passed /\ walker = "agrees")
  BY DEF Shaped, WsFields
<1> QED BY <1>1, <1>2, <1>3 DEF Green, Xrepo

(* Every step keeps the fields of the records.                              *)
LEMMA ShapedStep == Shaped /\ [SessNext]_sessVars => Shaped'
<1> SUFFICES ASSUME Shaped, [SessNext]_sessVars PROVE Shaped'
  OBVIOUS
<1> USE DEF Shaped, Over, Goto, Ends, Exits
<1>1. CASE BadInput \/ BackupVerify \/ Reindex \/ Prepare \/ DoctorBegin
  BY <1>1 DEF BadInput, BackupVerify, Reindex, Prepare, DoctorBegin
<1>2. CASE Confirm
  BY <1>2, ConfirmLeads DEF Confirm
<1>3. CASE DoctorLooks \/ Watch \/ NoClient
  BY <1>3 DEF DoctorLooks, Watch, NoClient, WithoutClient
<1>4. CASE Spawn
  BY <1>4 DEF Spawn, ServerFields
<1>5. CASE Initialized \/ InitializeFails \/ Forward
  BY <1>5 DEF Initialized, InitializeFails, WithoutClient, Forward
<1>6. CASE CallAnswered \/ CallGarbled \/ CallCut
  BY <1>6 DEF CallAnswered, CallGarbled, CallCut, Stored
<1>7. CASE ListTools
  BY <1>7, ListToolsLeads DEF Reported
<1>8. CASE Health \/ Verify
  BY <1>8, HealthLeads, VerifyLeads DEF Reported
<1>9. CASE HealthScore \/ Wedges \/ Logs \/ Judge
  BY <1>9 DEF HealthScore, Wedges, Logs, Judge
<1>10. CASE Term \/ Close \/ Unhook \/ Xrepo \/ Render
  BY <1>10 DEF Term, TermGroup, Close, Unhook, Xrepo, Render
<1>11. CASE KillGate \/ LockGate
  BY <1>11, KillGateLeads, LockGateLeads DEF Passes
<1>12. CASE KillOrphans \/ KillSurvivors \/ ClearLocks \/ DoctorEnds
  BY <1>12 DEF KillOrphans, KillSurvivors, ClearLocks, DoctorEnds
<1>13. CASE Signal
  BY <1>13, SignalLeads, SignalCounts
<1>14. CASE Cancel \/ Deadline \/ PassOn \/ ServerEnds \/ ServerCrashes
  BY <1>14 DEF Cancel, Deadline, PassOn, ServerEnds, ServerCrashes, Cut
<1>15. CASE Elsewhere
  BY <1>15 DEF Elsewhere
<1>16. CASE Again
  BY <1>16 DEF Again, Started, Unhooked, NoServer, WsFields, SigFields, ServerFields
<1>17. CASE UNCHANGED sessVars
  BY <1>17 DEF sessVars
<1> QED BY <1>1, <1>2, <1>3, <1>4, <1>5, <1>6, <1>7, <1>8, <1>9, <1>10, <1>11, <1>12, <1>13,
           <1>14, <1>15, <1>16, <1>17 DEF SessNext, Steps
-----------------------------------------------------------------------------
(* What every step keeps.                                                    *)

(* Every step keeps the session's part.                                      *)
LEMMA SessionStep ==
  ASSUME Shaped, SessionInv, [SessNext]_sessVars
  PROVE  SessionInv'
<1> USE DEF Shaped, SessionInv, SessionEndsClean, EndedClean, BeforeSession, Closed,
            WsFields, ServerFields, Over, Goto, Ends, Exits, At, Op, BySignal
<1>1. CASE BadInput
  BY <1>1 DEF BadInput
<1>2. CASE BackupVerify \/ Reindex
  BY <1>2, AuditLeads, Audited
<1>3. CASE Prepare
  BY <1>3 DEF Prepare
<1>4. CASE Confirm
  BY <1>4, ConfirmLeads DEF Confirm
<1>5. CASE DoctorBegin
  BY <1>5 DEF DoctorBegin
<1>6. CASE DoctorLooks
  BY <1>6 DEF DoctorLooks
<1>7. CASE Watch
  BY <1>7 DEF Watch
<1>8. CASE NoClient
  BY <1>8 DEF NoClient, WithoutClient, AbortsSpawn
<1>9. CASE Spawn
  BY <1>9 DEF Spawn
<1>10. CASE Initialized
  BY <1>10 DEF Initialized
<1>11. CASE InitializeFails
  BY <1>11 DEF InitializeFails, WithoutClient, AbortsSpawn
<1>12. CASE Forward
  BY <1>12 DEF Forward
<1>13. CASE CallAnswered \/ CallGarbled \/ CallCut
  BY <1>13, CallMoves, StoredFields
<1>14. CASE ListTools
  BY <1>14, ListToolsLeads DEF Reported
<1>15. CASE HealthScore
  BY <1>15 DEF HealthScore
<1>16. CASE Health
  BY <1>16, HealthLeads DEF Reported
<1>17. CASE Verify
  BY <1>17, VerifyLeads DEF Reported
<1>18. CASE Wedges
  BY <1>18 DEF Wedges
<1>19. CASE Logs
  BY <1>19 DEF Logs
<1>20. CASE Judge
  BY <1>20 DEF Judge, Interrupted
<1>21. CASE Term
  BY <1>21 DEF Term, TermGroup
<1>22. CASE Close
  BY <1>22 DEF Close
<1>23. CASE Unhook
  BY <1>23 DEF Unhook
<1>24. CASE Xrepo
  BY <1>24 DEF Xrepo
<1>25. CASE Render
  <2>1. CASE ws' = [ws EXCEPT !.said = TRUE, !.pc = "killGate"] /\ UNCHANGED server
    BY <1>25, <2>1, RenderLeads
  <2>2. CASE \E n : Over([ws EXCEPT !.said = TRUE], n)
    BY <1>25, <2>2 DEF Render
  <2>3. CASE \E n : Over(ws, n)
    BY <1>25, <2>3 DEF Render
  <2> QED BY <1>25, <2>1, <2>2, <2>3, RenderLeads
<1>26. CASE KillGate
  BY <1>26, KillGateLeads DEF Passes
<1>27. CASE KillOrphans
  BY <1>27 DEF KillOrphans, Victims
<1>28. CASE KillSurvivors
  BY <1>28 DEF KillSurvivors, Victims
<1>29. CASE LockGate
  BY <1>29, LockGateLeads DEF Passes
<1>30. CASE ClearLocks
  BY <1>30 DEF ClearLocks
<1>31. CASE DoctorEnds
  BY <1>31 DEF DoctorEnds
<1>32. CASE Signal
  <2>1. CASE UNCHANGED <<ws, server>>
    BY <1>32, <2>1, SignalLeads
  <2>2. CASE Over(ws, BySignal)
    BY <1>32, <2>2, SignalLeads DEF Running
  <2> QED BY <1>32, <2>1, <2>2, SignalLeads
<1>33. CASE Cancel \/ Deadline \/ PassOn
  BY <1>33 DEF Cancel, Deadline, PassOn, Cut, Running
<1>34. CASE ServerEnds \/ ServerCrashes
  BY <1>34 DEF ServerEnds, ServerCrashes, Cut
<1>35. CASE Elsewhere
  BY <1>35 DEF Elsewhere
<1>36. CASE Again
  BY <1>36 DEF Again, Started
<1>37. CASE UNCHANGED sessVars
  BY <1>37 DEF sessVars
<1> QED BY <1>1, <1>2, <1>3, <1>4, <1>5, <1>6, <1>7, <1>8, <1>9, <1>10, <1>11, <1>12,
           <1>13, <1>14, <1>15, <1>16, <1>17, <1>18, <1>19, <1>20, <1>21, <1>22, <1>23,
           <1>24, <1>25, <1>26, <1>27, <1>28, <1>29, <1>30, <1>31, <1>32, <1>33, <1>34,
           <1>35, <1>36, <1>37 DEF SessNext, Steps

(* Every step keeps the part of the report of status.                        *)
LEMMA SilenceStep ==
  ASSUME Shaped, SilenceInv, [SessNext]_sessVars
  PROVE  SilenceInv'
<1> USE DEF Shaped, SilenceInv, InterruptedSaysNothing, WsFields, SigFields,
            Over, Goto, Ends, Exits, At, Op, BySignal
<1>1. CASE BadInput
  BY <1>1 DEF BadInput
<1>2. CASE BackupVerify \/ Reindex
  BY <1>2, AuditLeads, Audited
<1>3. CASE Prepare
  BY <1>3 DEF Prepare
<1>4. CASE Confirm
  BY <1>4, ConfirmLeads DEF Confirm
<1>5. CASE DoctorBegin
  BY <1>5 DEF DoctorBegin
<1>6. CASE DoctorLooks
  BY <1>6 DEF DoctorLooks
<1>7. CASE Watch
  BY <1>7 DEF Watch
<1>8. CASE NoClient
  BY <1>8 DEF NoClient, WithoutClient, AbortsSpawn
<1>9. CASE Spawn
  BY <1>9 DEF Spawn
<1>10. CASE Initialized
  BY <1>10 DEF Initialized
<1>11. CASE InitializeFails
  BY <1>11 DEF InitializeFails, WithoutClient, AbortsSpawn
<1>12. CASE Forward
  BY <1>12 DEF Forward
<1>13. CASE CallAnswered \/ CallGarbled \/ CallCut
  BY <1>13, CallMoves, StoredFields
<1>14. CASE ListTools
  BY <1>14, ListToolsLeads DEF Reported
<1>15. CASE HealthScore
  BY <1>15 DEF HealthScore
<1>16. CASE Health
  BY <1>16, HealthLeads DEF Reported
<1>17. CASE Verify
  BY <1>17, VerifyLeads DEF Reported
<1>18. CASE Wedges
  BY <1>18 DEF Wedges
<1>19. CASE Logs
  BY <1>19 DEF Logs
<1>20. CASE Judge
  BY <1>20 DEF Judge, Interrupted
<1>21. CASE Term
  BY <1>21 DEF Term, TermGroup
<1>22. CASE Close
  BY <1>22 DEF Close
<1>23. CASE Unhook
  BY <1>23 DEF Unhook
<1>24. CASE Xrepo
  <2>1. ws'.said = ws.said /\ ws'.cut = ws.cut /\ ws'.err = ws.err /\ ws'.pc = "render"
    BY <1>24 DEF Xrepo
  <2>2. At("xrepo") /\ UNCHANGED <<cmd, sig>>
    BY <1>24 DEF Xrepo
  <2> QED BY <2>1, <2>2
<1>25. CASE Render
  BY <1>25, RenderLeads
<1>26. CASE KillGate
  BY <1>26, KillGateLeads DEF Passes
<1>27. CASE KillOrphans
  BY <1>27 DEF KillOrphans, Victims
<1>28. CASE KillSurvivors
  BY <1>28 DEF KillSurvivors, Victims
<1>29. CASE LockGate
  BY <1>29, LockGateLeads DEF Passes
<1>30. CASE ClearLocks
  BY <1>30 DEF ClearLocks
<1>31. CASE DoctorEnds
  BY <1>31 DEF DoctorEnds
<1>32. CASE Signal
  BY <1>32, SignalLeads, SignalCounts DEF Running
<1>33. CASE Cancel \/ Deadline \/ PassOn
  BY <1>33 DEF Cancel, Deadline, PassOn, Cut, Running
<1>34. CASE ServerEnds \/ ServerCrashes
  BY <1>34 DEF ServerEnds, ServerCrashes, Cut
<1>35. CASE Elsewhere
  BY <1>35 DEF Elsewhere
<1>36. CASE Again
  BY <1>36 DEF Again, Started
<1>37. CASE UNCHANGED sessVars
  BY <1>37 DEF sessVars
<1> QED BY <1>1, <1>2, <1>3, <1>4, <1>5, <1>6, <1>7, <1>8, <1>9, <1>10, <1>11, <1>12,
           <1>13, <1>14, <1>15, <1>16, <1>17, <1>18, <1>19, <1>20, <1>21, <1>22, <1>23,
           <1>24, <1>25, <1>26, <1>27, <1>28, <1>29, <1>30, <1>31, <1>32, <1>33, <1>34,
           <1>35, <1>36, <1>37 DEF SessNext, Steps

(* Every step keeps the part of the doctor's mutations.                      *)
LEMMA DoctorStep ==
  ASSUME Shaped, DoctorInv, [SessNext]_sessVars
  PROVE  DoctorInv'
<1> USE DEF Shaped, DoctorInv, DoctorDoesAsShown, Mutating, WsFields, VaultFields,
            Over, Goto, Ends, Exits, At, Op, BySignal
<1>1. CASE BadInput
  BY <1>1 DEF BadInput
<1>2. CASE BackupVerify \/ Reindex
  BY <1>2, AuditLeads, Audited
<1>3. CASE Prepare
  BY <1>3 DEF Prepare
<1>4. CASE Confirm
  BY <1>4, ConfirmLeads DEF Confirm
<1>5. CASE DoctorBegin
  BY <1>5 DEF DoctorBegin
<1>6. CASE DoctorLooks
  BY <1>6 DEF DoctorLooks
<1>7. CASE Watch
  BY <1>7 DEF Watch
<1>8. CASE NoClient
  BY <1>8 DEF NoClient, WithoutClient, AbortsSpawn
<1>9. CASE Spawn
  BY <1>9 DEF Spawn
<1>10. CASE Initialized
  BY <1>10 DEF Initialized
<1>11. CASE InitializeFails
  BY <1>11 DEF InitializeFails, WithoutClient, AbortsSpawn
<1>12. CASE Forward
  BY <1>12 DEF Forward
<1>13. CASE CallAnswered \/ CallGarbled \/ CallCut
  BY <1>13, CallMoves, StoredFields
<1>14. CASE ListTools
  BY <1>14, ListToolsLeads DEF Reported
<1>15. CASE HealthScore
  BY <1>15 DEF HealthScore
<1>16. CASE Health
  BY <1>16, HealthLeads DEF Reported
<1>17. CASE Verify
  BY <1>17, VerifyLeads DEF Reported
<1>18. CASE Wedges
  BY <1>18 DEF Wedges
<1>19. CASE Logs
  BY <1>19 DEF Logs
<1>20. CASE Judge
  BY <1>20 DEF Judge, Interrupted
<1>21. CASE Term
  BY <1>21 DEF Term, TermGroup
<1>22. CASE Close
  BY <1>22 DEF Close
<1>23. CASE Unhook
  BY <1>23 DEF Unhook
<1>24. CASE Xrepo
  BY <1>24 DEF Xrepo
<1>25. CASE Render
  BY <1>25, RenderLeads
<1>26. CASE KillGate
  BY <1>26, KillGateLeads DEF Passes
<1>27. CASE KillOrphans
  BY <1>27 DEF KillOrphans, Victims
<1>28. CASE KillSurvivors
  BY <1>28 DEF KillSurvivors, Victims
<1>29. CASE LockGate
  BY <1>29, LockGateLeads DEF Passes
<1>30. CASE ClearLocks
  BY <1>30 DEF ClearLocks
<1>31. CASE DoctorEnds
  BY <1>31 DEF DoctorEnds
<1>32. CASE Signal
  BY <1>32, SignalLeads DEF Running
<1>33. CASE Cancel \/ Deadline \/ PassOn
  BY <1>33 DEF Cancel, Deadline, PassOn, Cut, Running
<1>34. CASE ServerEnds \/ ServerCrashes
  BY <1>34 DEF ServerEnds, ServerCrashes, Cut
<1>35. CASE Elsewhere
  BY <1>35 DEF Elsewhere
<1>36. CASE Again
  BY <1>36 DEF Again, Started
<1>37. CASE UNCHANGED sessVars
  BY <1>37 DEF sessVars
<1> QED BY <1>1, <1>2, <1>3, <1>4, <1>5, <1>6, <1>7, <1>8, <1>9, <1>10, <1>11, <1>12,
           <1>13, <1>14, <1>15, <1>16, <1>17, <1>18, <1>19, <1>20, <1>21, <1>22, <1>23,
           <1>24, <1>25, <1>26, <1>27, <1>28, <1>29, <1>30, <1>31, <1>32, <1>33, <1>34,
           <1>35, <1>36, <1>37 DEF SessNext, Steps

(* Every step keeps the part of the notes.                                   *)
LEMMA IngestStep ==
  ASSUME Shaped, IngestInv, DoctorInv, [SessNext]_sessVars
  PROVE  IngestInv'
<1> USE DEF Shaped, IngestInv, DoctorInv, IngestOnce, Mutating, WsFields, VaultFields,
            Over, Goto, Ends, Exits, At, Op, BySignal
<1>1. CASE BadInput
  BY <1>1 DEF BadInput
<1>2. CASE BackupVerify \/ Reindex
  BY <1>2, AuditLeads, Audited
<1>3. CASE Prepare
  BY <1>3 DEF Prepare
<1>4. CASE Confirm
  <2> At("confirm") /\ UNCHANGED <<cmd, sig, vault>>
    BY <1>4 DEF Confirm
  <2>1. CASE Goto("watch")
    BY <2>1
  <2>2. CASE Over([ws EXCEPT !.err = "declined"], 0)
    BY <2>2
  <2>3. CASE Over(ws, BySignal)
    BY <2>3
  <2>4. CASE Over(ws, 1)
    BY <2>4
  <2> QED BY <1>4, <2>1, <2>2, <2>3, <2>4, ConfirmLeads
<1>5. CASE DoctorBegin
  BY <1>5 DEF DoctorBegin
<1>6. CASE DoctorLooks
  BY <1>6 DEF DoctorLooks
<1>7. CASE Watch
  BY <1>7 DEF Watch
<1>8. CASE NoClient
  BY <1>8 DEF NoClient, WithoutClient, AbortsSpawn
<1>9. CASE Spawn
  BY <1>9 DEF Spawn
<1>10. CASE Initialized
  BY <1>10 DEF Initialized
<1>11. CASE InitializeFails
  BY <1>11 DEF InitializeFails, WithoutClient, AbortsSpawn
<1>12. CASE Forward
  BY <1>12 DEF Forward
<1>13. CASE CallAnswered \/ CallGarbled \/ CallCut
  <2>1. At("work") /\ UNCHANGED cmd /\ ws'.pc = "term" /\ ws'.exit = ws.exit
    BY <1>13, CallLeads
  <2>2. Op({"ingest"}) /\ ws'.err = "code" /\ ws'.code = 0 => vault' = Stored
    BY <1>13, CallLeads
  <2>3. CASE vault' = vault
    <3>1. vault' # Stored
      BY <2>3, StoredFields
    <3> QED BY <2>1, <2>2, <2>3, <3>1
  <2>4. CASE Op({"ingest"}) /\ Stores /\ vault' = Stored
    <3>1. vault'.copies = vault.copies + 1
      BY <2>4, StoredFields
    <3>2. vault'.copies > 1 => vault'.forced
      BY <2>4, <3>1, StoredFields DEF Stores, NoteArgs
    <3> QED BY <2>1, <3>1, <3>2
  <2> QED BY <1>13, <2>3, <2>4, CallLeads
<1>14. CASE ListTools
  BY <1>14, ListToolsLeads DEF Reported
<1>15. CASE HealthScore
  BY <1>15 DEF HealthScore
<1>16. CASE Health
  BY <1>16, HealthLeads DEF Reported
<1>17. CASE Verify
  BY <1>17, VerifyLeads DEF Reported
<1>18. CASE Wedges
  BY <1>18 DEF Wedges
<1>19. CASE Logs
  BY <1>19 DEF Logs
<1>20. CASE Judge
  BY <1>20 DEF Judge, Interrupted
<1>21. CASE Term
  BY <1>21 DEF Term, TermGroup
<1>22. CASE Close
  BY <1>22 DEF Close
<1>23. CASE Unhook
  BY <1>23 DEF Unhook
<1>24. CASE Xrepo
  BY <1>24 DEF Xrepo
<1>25. CASE Render
  <2> At("render") /\ UNCHANGED <<cmd, sig, vault>>
    BY <1>25, RenderLeads
  <2>1. CASE Op({"doctor"}) \/ Op({"status"})
    BY <1>25, <2>1, RenderLeads
  <2>2. CASE Over(ws, IF ws.err = "code" THEN ws.code ELSE 1)
    <3>1. CASE ws.err = "code"
      BY <2>2, <3>1
    <3>2. CASE ws.err # "code"
      BY <2>2, <3>2
    <3> QED BY <3>1, <3>2
  <2> QED BY <1>25, <2>1, <2>2, RenderLeads
<1>26. CASE KillGate
  BY <1>26, KillGateLeads DEF Passes
<1>27. CASE KillOrphans
  BY <1>27 DEF KillOrphans, Victims
<1>28. CASE KillSurvivors
  BY <1>28 DEF KillSurvivors, Victims
<1>29. CASE LockGate
  BY <1>29, LockGateLeads DEF Passes
<1>30. CASE ClearLocks
  BY <1>30 DEF ClearLocks
<1>31. CASE DoctorEnds
  BY <1>31 DEF DoctorEnds
<1>32. CASE Signal
  <2>1. CASE UNCHANGED <<ws, server>>
    BY <1>32, <2>1, SignalLeads
  <2>2. CASE Over(ws, BySignal)
    BY <1>32, <2>2, SignalLeads DEF Running
  <2> QED BY <1>32, <2>1, <2>2, SignalLeads
<1>33. CASE Cancel \/ Deadline \/ PassOn
  BY <1>33 DEF Cancel, Deadline, PassOn, Cut, Running
<1>34. CASE ServerEnds \/ ServerCrashes
  BY <1>34 DEF ServerEnds, ServerCrashes, Cut
<1>35. CASE Elsewhere
  BY <1>35 DEF Elsewhere
<1>36. CASE Again
  BY <1>36 DEF Again, Started
<1>37. CASE UNCHANGED sessVars
  BY <1>37 DEF sessVars
<1> QED BY <1>1, <1>2, <1>3, <1>4, <1>5, <1>6, <1>7, <1>8, <1>9, <1>10, <1>11, <1>12,
           <1>13, <1>14, <1>15, <1>16, <1>17, <1>18, <1>19, <1>20, <1>21, <1>22, <1>23,
           <1>24, <1>25, <1>26, <1>27, <1>28, <1>29, <1>30, <1>31, <1>32, <1>33, <1>34,
           <1>35, <1>36, <1>37 DEF SessNext, Steps

(* Every step keeps the part of the verdict.                                 *)
LEMMA VerdictStep ==
  ASSUME Shaped, VerdictInv, DoctorInv, IngestInv, [SessNext]_sessVars
  PROVE  VerdictInv'
<1> USE DEF Shaped, VerdictInv, VerdictHonest, Pending, BeforeSession, DoctorInv, IngestInv,
            WsFields, Mutating, Over, Goto, Ends, Exits, At, Op, BySignal
<1>1. CASE BadInput
  BY <1>1 DEF BadInput, Green
<1>2. CASE BackupVerify \/ Reindex
  BY <1>2, AuditLeads, Audited DEF Green
<1>3. CASE Prepare
  BY <1>3 DEF Prepare, Green
<1>4. CASE Confirm
  BY <1>4, ConfirmLeads DEF Confirm, Green
<1>5. CASE DoctorBegin
  BY <1>5 DEF DoctorBegin, Green
<1>6. CASE DoctorLooks
  BY <1>6, LooksLeads
<1>7. CASE Watch
  BY <1>7 DEF Watch, Green
<1>8. CASE NoClient
  BY <1>8, WithoutLeads DEF NoClient
<1>9. CASE Spawn
  BY <1>9 DEF Spawn, Green
<1>10. CASE Initialized
  BY <1>10 DEF Initialized, Green
<1>11. CASE InitializeFails
  BY <1>11, WithoutLeads DEF InitializeFails
<1>12. CASE Forward
  BY <1>12 DEF Forward, Green
<1>13. CASE CallAnswered \/ CallGarbled \/ CallCut
  BY <1>13, CallMoves, StoredFields DEF Green
<1>14. CASE ListTools
  <2> USE ListToolsLeads
  <2>1. CASE Goto("term") \/ Ends("term", "other")
    BY <1>14, <2>1 DEF Green
  <2>2. CASE Reported("health")
    BY <1>14, <2>2 DEF Reported
  <2>3. CASE \E tools \in {{}, {"gate"}, {"bare"}} :
               ws' = [ws EXCEPT !.bands = {"green"}, !.pc = "health", !.tools = tools]
    <3> Op({"status"}) \/ Op({"doctor"})
      BY <1>14
    <3> PICK tools \in {{}, {"gate"}, {"bare"}} :
               ws' = [ws EXCEPT !.bands = {"green"}, !.pc = "health", !.tools = tools]
      BY <2>3
    <3>1. ws'.sound = ws.sound /\ ws'.tools = tools /\ ws'.pc = "health"
      OBVIOUS
    <3>2. ws'.said = ws.said /\ ws'.exit = ws.exit
      OBVIOUS
    <3> QED BY <1>14, <3>1, <3>2
  <2> QED BY <1>14, <2>1, <2>2, <2>3
<1>15. CASE HealthScore
  BY <1>15 DEF HealthScore, Green
<1>16. CASE Health
  BY <1>16, HealthLeads DEF Reported
<1>17. CASE Verify
  BY <1>17, VerifyLeads DEF Reported
<1>18. CASE Wedges
  BY <1>18 DEF Wedges, Green
<1>19. CASE Logs
  BY <1>19, LogsLeads DEF Reported
<1>20. CASE Judge
  BY <1>20 DEF Judge, Interrupted, Green
<1>21. CASE Term
  BY <1>21 DEF Term, TermGroup, Green
<1>22. CASE Close
  BY <1>22 DEF Close, Green
<1>23. CASE Unhook
  BY <1>23 DEF Unhook, Green
<1>24. CASE Xrepo
  BY <1>24, XrepoLeads
<1>25. CASE Render
  BY <1>25, RenderLeads, ZeroIsGreen DEF Green, Mutating
<1>26. CASE KillGate
  BY <1>26, KillGateLeads DEF Passes, Green
<1>27. CASE KillOrphans
  BY <1>27 DEF KillOrphans, Victims, Green
<1>28. CASE KillSurvivors
  BY <1>28 DEF KillSurvivors, Victims, Green
<1>29. CASE LockGate
  BY <1>29, LockGateLeads DEF Passes, Green
<1>30. CASE ClearLocks
  BY <1>30 DEF ClearLocks, Green
<1>31. CASE DoctorEnds
  BY <1>31, ZeroIsGreen DEF DoctorEnds, Green
<1>32. CASE Signal
  <2>1. CASE UNCHANGED <<ws, server>>
    BY <1>32, <2>1, SignalLeads DEF Green
  <2>2. CASE Over(ws, BySignal)
    BY <1>32, <2>2, SignalLeads DEF Running, Green
  <2> QED BY <1>32, <2>1, <2>2, SignalLeads
<1>33. CASE Cancel \/ Deadline \/ PassOn
  BY <1>33 DEF Cancel, Deadline, PassOn, Cut, Running, Green
<1>34. CASE ServerEnds \/ ServerCrashes
  BY <1>34 DEF ServerEnds, ServerCrashes, Cut, Green
<1>35. CASE Elsewhere
  BY <1>35 DEF Elsewhere, Green
<1>36. CASE Again
  BY <1>36 DEF Again, Started, Green
<1>37. CASE UNCHANGED sessVars
  BY <1>37 DEF sessVars, Green
<1> QED BY <1>1, <1>2, <1>3, <1>4, <1>5, <1>6, <1>7, <1>8, <1>9, <1>10, <1>11, <1>12,
           <1>13, <1>14, <1>15, <1>16, <1>17, <1>18, <1>19, <1>20, <1>21, <1>22, <1>23,
           <1>24, <1>25, <1>26, <1>27, <1>28, <1>29, <1>30, <1>31, <1>32, <1>33, <1>34,
           <1>35, <1>36, <1>37 DEF SessNext, Steps

-----------------------------------------------------------------------------
(* The theorems.                                                             *)

(* What holds of a command that was only typed.                              *)
LEMMA SessInvInit == SessInit => SessInv
<1> SUFFICES ASSUME SessInit PROVE SessInv
  OBVIOUS
<1>1. ws = Started /\ AtFirst
  <2>1. ws = Started
    BY DEF SessInit
  <2> QED BY <2>1, VaultAtFirst
<1> USE DEF At, Op, AtFirst
<1>2. SessionInv
  BY <1>1 DEF Started, SessionInv, SessionEndsClean, Closed
<1>3. SilenceInv
  BY <1>1 DEF Started, SilenceInv, InterruptedSaysNothing
<1>4. DoctorInv
  BY <1>1 DEF Started, DoctorInv, DoctorDoesAsShown, Mutating
<1>5. IngestInv
  BY <1>1 DEF Started, IngestInv, IngestOnce
<1>6. VerdictInv
  BY <1>1 DEF Started, VerdictInv, VerdictHonest, BySignal
<1> QED BY <1>2, <1>3, <1>4, <1>5, <1>6 DEF SessInv

(***************************************************************************)
(* The invariants of a session hold throughout it, whatever its server, the *)
(* operator, the signals and the deadlines do.                              *)
(***************************************************************************)
THEOREM SessionInvariant == SessSpec => [](Shaped /\ SessInv)
<1>1. SessInit => Shaped /\ SessInv
  BY ShapedInit, SessInvInit
<1>2. Shaped /\ SessInv /\ [SessNext]_sessVars => (Shaped /\ SessInv)'
  BY ShapedStep, SessionStep, SilenceStep, DoctorStep, IngestStep, VerdictStep DEF SessInv
<1> QED BY <1>1, <1>2, PTL DEF SessSpec

(***************************************************************************)
(* A command that had a session and returned reaped its leader, and left no *)
(* process of the group that was not asked to end (Client.Close).           *)
(***************************************************************************)
THEOREM SessionAlwaysEndsClean == SessSpec => []SessionEndsClean
<1>1. Shaped /\ SessInv => SessionEndsClean
  BY DEF SessInv, SessionInv
<1> QED BY <1>1, SessionInvariant, PTL

(***************************************************************************)
(* A report of ws vault status never shows what its own cancelled context   *)
(* broke (runVaultStatus).                                                  *)
(***************************************************************************)
THEOREM StatusNeverReportsItsInterruption == SessSpec => []InterruptedSaysNothing
<1>1. Shaped /\ SessInv => InterruptedSaysNothing
  BY DEF SessInv, SilenceInv
<1> QED BY <1>1, SessionInvariant, PTL

(***************************************************************************)
(* Exit code 0 of status, doctor, backup-verify and reindex is for what was *)
(* read, and was well (HealthBandExitCode, runBackupVerify).                *)
(***************************************************************************)
THEOREM VerdictAlwaysHonest == SessSpec => []VerdictHonest
<1>1. Shaped /\ SessInv => VerdictHonest
  BY DEF SessInv, VerdictInv
<1> QED BY <1>1, SessionInvariant, PTL

(***************************************************************************)
(* However often an ingest is tried again after an answer that was lost,    *)
(* its note is there once it exits 0, and twice only by force               *)
(* (newVaultIngestCmd).                                                     *)
(***************************************************************************)
THEOREM IngestAlwaysOnce == SessSpec => []IngestOnce
<1>1. Shaped /\ SessInv => IngestOnce
  BY DEF SessInv, IngestInv
<1> QED BY <1>1, SessionInvariant, PTL

(***************************************************************************)
(* The doctor never kills or removes what its printed report did not list,  *)
(* nor before the gate was passed (runDoctor).                              *)
(***************************************************************************)
THEOREM DoctorAlwaysDoesAsShown == SessSpec => []DoctorDoesAsShown
<1>1. Shaped /\ SessInv => DoctorDoesAsShown
  BY DEF SessInv, DoctorInv
<1> QED BY <1>1, SessionInvariant, PTL

-----------------------------------------------------------------------------
(* Type correctness.                                                         *)

Places == {"typed", "confirm", "orphans", "watch", "spawn", "shake", "forward", "work",
           "health", "verify", "wedged", "logs", "judge", "term", "close", "unhook",
           "xrepo", "render", "killGate", "killing", "surviving", "lockGate", "clearing",
           "done", "ended", "off"}
Statuses == 0..7 \cup {-1, BySignal, 255}

Errors   == {"none", "ctx", "other", "declined", "code"}

Ordered ==
  /\ ws.pc \in Places /\ ws.err \in Errors
  /\ ws.code \in 0..7 /\ ws.exit \in Statuses /\ ws.bands \subseteq Bands

Signals == [sent : 0..MaxSignals, watched : BOOLEAN, waiting : BOOLEAN,
            ctx : {"live", "done"}, forward : {"off", "armed", "waiting", "spent"}]
Servers == [leader : {"none", "run", "dead", "reaped"}, child : {"none", "run", "gone"},
            stdin : BOOLEAN, pipe : BOOLEAN, told : BOOLEAN, deaf : BOOLEAN]
Vaults  == [runs : 0..MaxRuns, copies : 0..MaxRuns, forced : BOOLEAN,
            lock : {"none", "stale", "held"}, orphans : SUBSET Pids,
            killed : SUBSET Pids, removed : BOOLEAN]

(* A run of ingest writes one note at most: before its call it has none.     *)
Unwritten == {"typed", "confirm", "orphans", "watch", "spawn", "shake", "forward", "work"}

NoteEach ==
  /\ vault.copies <= vault.runs
  /\ ws.pc \in Unwritten => vault.copies < vault.runs

SessTyped ==
  /\ Shaped /\ cmd \in Typed(SessOps) /\ Ordered
  /\ sig \in Signals /\ server \in Servers /\ vault \in Vaults /\ NoteEach

(* The types follow.                                                         *)
LEMMA SessTypedIs == SessTyped => SessTypeOK
BY DEF SessTyped, Ordered, SessTypeOK, Places, Errors, Statuses, Signals, Servers, Vaults

(* What a command finds.                                                     *)
LEMMA InitIs ==
  ASSUME SessInit
  PROVE  /\ cmd \in Typed(SessOps) /\ sig = Unhooked /\ server = NoServer /\ ws = Started
         /\ vault = Empty \/ \E l \in {"none", "stale"}, o \in {{}, {"p1"}} :
                               vault = [Empty EXCEPT !.lock = l, !.orphans = o]
<1>1. CASE cmd.op # "doctor"
  BY <1>1 DEF SessInit
<1>2. CASE cmd.op = "doctor"
  <2>1. CASE cmd.env = Good
    BY <1>2, <2>1 DEF SessInit
  <2>2. CASE ~(cmd.env = Good)
    <3>1. vault \in {[Empty EXCEPT !.lock = l, !.orphans = o] :
                       l \in {"none", "stale"}, o \in {{}}}
      BY <1>2, <2>2 DEF SessInit
    <3>2. cmd \in Typed(SessOps) /\ sig = Unhooked /\ server = NoServer /\ ws = Started
      BY <1>2, <2>2 DEF SessInit
    <3> QED BY <3>1, <3>2
  <2> QED BY <2>1, <2>2
<1> QED BY <1>1, <1>2

(* So with no command, but for where it is.                                  *)
LEMMA FirstIs ==
  ASSUME SessInit \/ SessOff
  PROVE  /\ cmd \in Typed(SessOps) /\ sig = Unhooked /\ server = NoServer
         /\ ws = Started \/ ws = [Started EXCEPT !.pc = "off"]
         /\ vault = Empty \/ \E l \in {"none", "stale"}, o \in {{}, {"p1"}} :
                               vault = [Empty EXCEPT !.lock = l, !.orphans = o]
<1>1. CASE SessOff
  <2>1. PICK o \in SessOps : TRUE
    BY SessAssumption
  <2>2. Good \in Envs /\ {} \in SUBSET Flags(o)
    BY DEF Envs
  <2> DEFINE c == [op |-> o, env |-> Good, given |-> {}]
  <2>3. c \in [op : {o}, env : Envs, given : SUBSET Flags(o)]
    <3> HIDE DEF Good
    <3> QED BY <2>2
  <2>4. [op : {o}, env : Envs, given : SUBSET Flags(o)]
          \in {[op : {q}, env : Envs, given : SUBSET Flags(q)] : q \in SessOps}
    BY <2>1
  <2> HIDE DEF c
  <2>5. c \in Typed(SessOps)
    BY <2>3, <2>4 DEF Typed
  <2>6. (CHOOSE d \in Typed(SessOps) : TRUE) \in Typed(SessOps)
    BY <2>5
  <2> QED BY <1>1, <2>6 DEF SessOff
<1>2. CASE SessInit
  BY <1>2, InitIs
<1> QED BY <1>1, <1>2

(* A command begins with them, and so does none.                             *)
LEMMA SessTypedFirst == SessInit \/ SessOff => SessTyped
<1> SUFFICES ASSUME SessInit \/ SessOff PROVE SessTyped
  OBVIOUS
<1>1. cmd \in Typed(SessOps)
  BY FirstIs
<1>2. sig = Unhooked /\ server = NoServer
      /\ (ws = Started \/ ws = [Started EXCEPT !.pc = "off"])
  BY FirstIs
<1>3. /\ ws = [f \in WsFields |-> ws[f]] /\ Ordered
  BY <1>2 DEF Started, WsFields, Ordered, Places, Errors, Statuses
<1>4. sig = [f \in SigFields |-> sig[f]] /\ sig \in Signals
  <2>1. 0 \in 0..MaxSignals
    BY SessAssumption
  <2> QED BY <1>2, <2>1 DEF Unhooked, Signals, SigFields
<1>5. server = [f \in ServerFields |-> server[f]] /\ server \in Servers
  BY <1>2 DEF NoServer, Servers, ServerFields
<1>6. vault = Empty \/ \E l \in {"none", "stale"}, o \in {{}, {"p1"}} :
                         vault = [Empty EXCEPT !.lock = l, !.orphans = o]
  BY FirstIs
<1>7. /\ vault = [f \in VaultFields |-> vault[f]] /\ vault \in Vaults
      /\ vault.copies = 0 /\ vault.runs = 1
  <2>1. 0 \in 0..MaxRuns /\ 1 \in 0..MaxRuns
    BY SessAssumption
  <2>2. CASE vault = Empty
    BY <2>1, <2>2 DEF Empty, Vaults, VaultFields, Pids
  <2>3. ASSUME NEW l \in {"none", "stale"}, NEW o \in {{}, {"p1"}},
               vault = [Empty EXCEPT !.lock = l, !.orphans = o]
        PROVE  /\ vault = [f \in VaultFields |-> vault[f]] /\ vault \in Vaults
               /\ vault.copies = 0 /\ vault.runs = 1
    <3>1. o \in SUBSET Pids
      BY DEF Pids
    <3>2. vault = [runs |-> 1, copies |-> 0, forced |-> FALSE, lock |-> l, orphans |-> o,
                   killed |-> {}, removed |-> FALSE]
      BY <2>3 DEF Empty
    <3> QED BY <2>1, <3>1, <3>2 DEF Vaults, VaultFields
  <2> QED BY <1>6, <2>2, <2>3
<1> QED BY <1>1, <1>3, <1>4, <1>5, <1>7 DEF SessTyped, Shaped, NoteEach

(* The statuses.                                                             *)
LEMMA CodesAre ==
  /\ \A e : RenderExit(e) \in 0..7 /\ PredictExit(e) \in 0..7
  /\ \A band : HealthBandExitCode(band) \in 0..2
  /\ Verdict \in 0..2
<1>1. \A c : MapErrorCodeToExitCode(c) \in 0..7
  BY DEF MapErrorCodeToExitCode
<1>2. \A e : ExitCode(e) \in 0..7
  BY <1>1 DEF ExitCode
<1>3. \A e : RenderExit(e) \in 0..7 /\ PredictExit(e) \in 0..7
  BY <1>1, <1>2 DEF RenderExit, PredictExit
<1>4. \A band : HealthBandExitCode(band) \in 0..2
  BY DEF HealthBandExitCode
<1> QED BY <1>3, <1>4 DEF Verdict

(* The bands.                                                                *)
LEMMA BandsAre ==
  /\ \A n : OrphanBand(n) \in Bands /\ HealthBand(n) \in Bands /\ DrillBand(n) \in Bands
  /\ \A root, stale : LockBand(root, stale) \in Bands /\ XrepoBand(root, stale) \in Bands
  /\ \A token : TokenBand(token) \in Bands
  /\ \A log : CostBand(log) \in Bands
  /\ \A tools : DedupBand(tools) \in Bands
  /\ \A uv, streams : ChainBand(uv, streams) \in Bands
  /\ ToSet(DownReport) \subseteq Bands
<1>1. ToSet(DownReport) \subseteq Bands
  BY DEF ToSet, DownReport, Bands
<1>2. \A n : OrphanBand(n) \in Bands /\ HealthBand(n) \in Bands /\ DrillBand(n) \in Bands
  BY DEF OrphanBand, HealthBand, DrillBand, Bands
<1>3. \A root, stale : LockBand(root, stale) \in Bands /\ XrepoBand(root, stale) \in Bands
  BY DEF LockBand, XrepoBand, Bands
<1>4. /\ \A token : TokenBand(token) \in Bands
      /\ \A log : CostBand(log) \in Bands
      /\ \A uv, streams : ChainBand(uv, streams) \in Bands
  BY DEF TokenBand, CostBand, ChainBand, Bands
<1>5. \A tools : DedupBand(tools) \in Bands
  BY DEF DedupBand, Bands
<1> QED BY <1>1, <1>2, <1>3, <1>4, <1>5

(* A gate ends the doctor with a status of its own.                          *)
LEMMA GateCodes ==
  ASSUME NEW asks, NEW todo, NEW act, NEW next, Gate(asks, todo, act, next)
  PROVE  \/ \E pc \in {act, next} : \E agreed : ws' = [ws EXCEPT !.pc = pc, !.agreed = agreed]
         \/ Goto(next)
         \/ \E n \in {1, 2, BySignal} : Over(ws, n)
<1>1. CASE ~asks
  <2> DEFINE pc     == IF todo THEN act ELSE next
  <2> DEFINE agreed == IF todo THEN ws.agreed \cup {act} ELSE ws.agreed
  <2>1. ws' = [ws EXCEPT !.pc = pc, !.agreed = agreed] /\ pc \in {act, next}
    BY <1>1 DEF Gate
  <2> HIDE DEF pc, agreed
  <2> QED BY <2>1
<1>2. CASE asks
  <2> PICK a \in Answers :
        CASE a = "yes"       -> /\ ws' = [ws EXCEPT !.pc = act, !.agreed = @ \cup {act}]
                                /\ UNCHANGED server
          [] a = "no"        -> Goto(next) /\ UNCHANGED server
          [] a = "cancelled" -> Over(ws, BySignal)
          [] a = "failed"    -> Over(ws, IF Verdict > 1 THEN Verdict ELSE 1)
    BY <1>2 DEF Gate
  <2>1. a \in {"yes", "no", "cancelled", "failed"}
    BY DEF Answers
  <2>2. (IF Verdict > 1 THEN Verdict ELSE 1) \in {1, 2}
    BY CodesAre
  <2>3. CASE a = "yes"
    <3> DEFINE agreed == ws.agreed \cup {act}
    <3>1. ws' = [ws EXCEPT !.pc = act, !.agreed = agreed]
      BY <2>3
    <3> HIDE DEF agreed
    <3> QED BY <3>1
  <2>4. CASE a = "no"
    BY <2>4
  <2>5. CASE a = "cancelled"
    BY <2>5
  <2>6. CASE a = "failed"
    BY <2>2, <2>6
  <2> QED BY <2>1, <2>3, <2>4, <2>5, <2>6
<1> QED BY <1>1, <1>2

(* A move of the command.                                                    *)
LEMMA GotoOrdered ==
  ASSUME Shaped, Ordered, NEW pc \in Places, Goto(pc)
  PROVE  Ordered'
BY DEF Shaped, Ordered, Goto, WsFields

(* With or without an error.                                                 *)
LEMMA EndsOrdered ==
  ASSUME Shaped, Ordered, NEW pc \in Places, NEW e \in Errors, Ends(pc, e)
  PROVE  Ordered'
BY DEF Shaped, Ordered, Ends, WsFields

(* With a status.                                                            *)
LEMMA ExitsOrdered ==
  ASSUME Shaped, Ordered, NEW pc \in Places, NEW n \in 0..7, Exits(pc, n)
  PROVE  Ordered'
BY DEF Shaped, Ordered, Exits, WsFields, Errors

(* The end of the command.                                                   *)
LEMMA OverOrdered ==
  ASSUME Shaped, Ordered, NEW n \in Statuses, Over(ws, n)
  PROVE  Ordered'
BY DEF Shaped, Ordered, Over, WsFields, Places

(* The end with the report shown.                                            *)
LEMMA SaidOrdered ==
  ASSUME Shaped, Ordered, NEW n \in Statuses, NEW sound,
         Over([ws EXCEPT !.said = TRUE, !.sound = sound], n) \/
         Over([ws EXCEPT !.said = TRUE], n)
  PROVE  Ordered'
BY DEF Shaped, Ordered, Over, WsFields, Places

(* The statuses of an end.                                                   *)
LEMMA Ending == BySignal \in Statuses /\ 255 \in Statuses /\ 0..7 \subseteq Statuses
BY DEF BySignal, Statuses

(* What an answer and a call lead to.                                        *)
LEMMA CallCodes ==
  ASSUME CallAnswered \/ CallGarbled \/ CallCut
  PROVE  Ends("term", "other") \/ \E n \in 0..7 : Exits("term", n)
<1>1. CASE CallAnswered
  <2> PICK e \in Replies : Exits("term", IF Op({"predict"}) THEN PredictExit(e) ELSE RenderExit(e))
    BY <1>1 DEF CallAnswered
  <2>1. (IF Op({"predict"}) THEN PredictExit(e) ELSE RenderExit(e)) \in 0..7
    BY CodesAre
  <2> QED BY <2>1
<1>2. CASE CallGarbled \/ CallCut
  BY <1>2 DEF CallGarbled, CallCut
<1> QED BY <1>1, <1>2

(* A band is added to the report.                                            *)
LEMMA BandOrdered ==
  ASSUME Shaped, Ordered, NEW pc \in Places, NEW band \in Bands, NEW ok, Signal1(band, ok, pc)
  PROVE  Ordered'
BY DEF Shaped, Ordered, Signal1, WsFields

(* No client.                                                                *)
LEMMA WithoutOrdered ==
  ASSUME Shaped, Ordered, NEW interrupted, WithoutClient(interrupted)
  PROVE  Ordered'
<1> DEFINE pc    == IF Op({"doctor"}) THEN "xrepo" ELSE "unhook"
<1> DEFINE err   == IF Op({"status"}) THEN IF interrupted THEN "ctx" ELSE "none" ELSE "other"
<1> DEFINE bands == IF Op({"status"}) THEN ToSet(DownReport) ELSE ws.bands
<1>1. pc \in Places /\ err \in Errors
  BY DEF Places, Errors
<1>2. bands \subseteq Bands
  BY BandsAre DEF Ordered
<1>3. ws'.pc = pc /\ ws'.err = err /\ ws'.bands = bands /\ ws'.code = ws.code
      /\ ws'.exit = ws.exit
  BY DEF WithoutClient, Shaped, WsFields
<1> HIDE DEF pc, err, bands
<1> QED BY <1>1, <1>2, <1>3 DEF Ordered

(* The gate of a mutation.                                                   *)
LEMMA GateOrdered ==
  ASSUME Shaped, Ordered, NEW asks, NEW todo, NEW act \in Places, NEW next \in Places,
         Gate(asks, todo, act, next)
  PROVE  Ordered'
<1>1. CASE \E n \in {1, 2, BySignal} : Over(ws, n)
  BY <1>1, OverOrdered, Ending
<1>2. CASE \E pc \in {act, next} : \E agreed : ws' = [ws EXCEPT !.pc = pc, !.agreed = agreed]
  BY <1>2 DEF Shaped, Ordered, WsFields
<1>3. CASE Goto(next)
  BY <1>3, GotoOrdered
<1> QED BY <1>1, <1>2, <1>3, GateCodes

(* Every step of the command keeps what it knows in order.                   *)
LEMMA OrderedStep ==
  ASSUME Shaped, Ordered, [SessNext]_sessVars
  PROVE  Ordered'
<1>1. CASE BadInput
  BY <1>1, OverOrdered, Ending DEF BadInput
<1>2. CASE BackupVerify \/ Reindex
  <2>1. PICK sound \in BOOLEAN, n \in {0, 1, 4, 255} :
          Over([ws EXCEPT !.said = TRUE, !.sound = sound], n)
    BY <1>2, AuditLeads DEF Audits
  <2>2. n \in Statuses
    BY Ending
  <2> QED BY <2>1, <2>2, SaidOrdered
<1>3. CASE Prepare
  BY <1>3, GotoOrdered DEF Prepare, Places
<1>4. CASE Confirm
  <2>1. CASE Goto("watch")
    BY <2>1, GotoOrdered DEF Places
  <2>2. CASE Over([ws EXCEPT !.err = "declined"], 0)
    BY <2>2, Ending DEF Over, Shaped, Ordered, WsFields, Places, Errors
  <2>3. CASE Over(ws, BySignal) \/ Over(ws, 1)
    BY <2>3, OverOrdered, Ending
  <2> QED BY <1>4, <2>1, <2>2, <2>3, ConfirmLeads
<1>5. CASE DoctorBegin
  <2>1. CASE Over(ws, 1)
    BY <2>1, OverOrdered, Ending
  <2>2. CASE Goto("orphans")
    BY <2>2, GotoOrdered DEF Places
  <2> QED BY <1>5, <2>1, <2>2 DEF DoctorBegin
<1>6. CASE DoctorLooks
  <2> PICK n \in {Cardinality(vault.orphans), -1, 0} :
        LET pids  == IF n > 0 THEN vault.orphans ELSE {}
            stale == {l \in {vault.lock} : l = "stale"}
            root  == cmd.env.root
        IN  ws' = [ws EXCEPT
              !.pc = "spawn", !.pids = pids, !.lock = root # "none" /\ stale # {},
              !.bands = {OrphanBand(n), LockBand(root, stale), TokenBand(cmd.env.token)},
              !.sound = cmd.env.token /\ root # "none" /\ stale = {} /\ pids = {}]
    BY <1>6 DEF DoctorLooks
  <2> DEFINE stale == {l \in {vault.lock} : l = "stale"}
  <2> DEFINE bands == {OrphanBand(n), LockBand(cmd.env.root, stale), TokenBand(cmd.env.token)}
  <2>1. bands \subseteq Bands
    BY BandsAre
  <2>2. ws'.pc = "spawn" /\ ws'.bands = bands /\ ws'.err = ws.err /\ ws'.code = ws.code
        /\ ws'.exit = ws.exit
    BY DEF Shaped, WsFields
  <2> HIDE DEF stale, bands
  <2> QED BY <2>1, <2>2 DEF Ordered, Places
<1>7. CASE Watch \/ Spawn \/ Forward \/ Wedges \/ Term \/ Unhook
  BY <1>7, GotoOrdered DEF Watch, Spawn, Forward, Wedges, Term, Unhook, Places
<1>8. CASE NoClient \/ InitializeFails
  BY <1>8, WithoutOrdered DEF NoClient, InitializeFails
<1>9. CASE Initialized
  BY <1>9 DEF Initialized, Shaped, WsFields, Ordered, Places
<1>10. CASE CallAnswered \/ CallGarbled \/ CallCut
  BY <1>10, CallCodes, EndsOrdered, ExitsOrdered DEF Places, Errors
<1>11. CASE ListTools
  <2>1. CASE Signal1("red", FALSE, "health")
    BY <2>1, BandOrdered DEF Places, Bands
  <2>2. CASE Goto("term") \/ Ends("term", "other")
    BY <2>2, GotoOrdered, EndsOrdered DEF Places, Errors
  <2>3. CASE \E tools \in {{}, {"gate"}, {"bare"}} :
               ws' = [ws EXCEPT !.bands = {"green"}, !.pc = "health", !.tools = tools]
    <3>1. {"green"} \subseteq Bands
      BY DEF Bands
    <3> QED BY <2>3, <3>1 DEF Shaped, WsFields, Ordered, Places
  <2> QED BY <1>11, <2>1, <2>2, <2>3 DEF ListTools
<1>12. CASE HealthScore
  <2>1. \A band : HealthBandExitCode(band) \in 0..7
    BY CodesAre
  <2>2. "term" \in Places /\ "other" \in Errors
    BY DEF Places, Errors
  <2> QED BY <1>12, <2>1, <2>2, EndsOrdered, ExitsOrdered DEF HealthScore
<1>13. CASE Health
  <2>1. \E band \in Bands : \E ok : Signal1(band, ok, "verify")
    BY <1>13, BandsAre DEF Health, Bands
  <2>2. "verify" \in Places
    BY DEF Places
  <2> QED BY <2>1, <2>2, BandOrdered
<1>14. CASE Verify
  <2> PICK uv \in BOOLEAN, last \in {"intact", "broken"} :
        LET chain == [k \in 1..8 |-> IF sig.ctx = "done" THEN "broken"
                                     ELSE IF k = 8 THEN last ELSE "intact"]
        IN  Signal1(ChainBand(uv, chain), uv /\ last = "intact", "logs")
    BY <1>14 DEF Verify
  <2> DEFINE chain == [k \in 1..8 |-> IF sig.ctx = "done" THEN "broken"
                                     ELSE IF k = 8 THEN last ELSE "intact"]
  <2>1. ChainBand(uv, chain) \in Bands /\ "logs" \in Places
    BY BandsAre DEF Places
  <2> DEFINE ok == uv /\ last = "intact"
  <2>2. Signal1(ChainBand(uv, chain), ok, "logs")
    OBVIOUS
  <2> HIDE DEF chain, ok
  <2> QED BY <2>1, <2>2, BandOrdered
<1>15. CASE Logs
  <2> PICK log \in {"absent", "there"}, age \in {-1, 95, 96, 101} :
        ws' = [ws EXCEPT
          !.pc = "judge",
          !.bands = @ \cup {CostBand(log), DedupBand(ws.tools), DrillBand(age)},
          !.sound = @ /\ log = "there" /\ ws.tools = {"gate"} /\ age \in 0..95]
    BY <1>15 DEF Logs
  <2> DEFINE bands == ws.bands \cup {CostBand(log), DedupBand(ws.tools), DrillBand(age)}
  <2>1. bands \subseteq Bands
    BY BandsAre DEF Ordered
  <2>2. ws'.pc = "judge" /\ ws'.bands = bands /\ ws'.err = ws.err /\ ws'.code = ws.code
        /\ ws'.exit = ws.exit
    BY DEF Shaped, WsFields
  <2> HIDE DEF bands
  <2> QED BY <2>1, <2>2 DEF Ordered, Places
<1>16. CASE Judge
  <2>1. Ends("judge", "ctx") \/ \E e \in {"ctx", "none"} : Ends("term", e)
    BY <1>16 DEF Judge
  <2> QED BY <2>1, EndsOrdered DEF Places, Errors
<1>17. CASE Close
  <2>1. \E pc \in {"xrepo", "unhook"} : Goto(pc) \/ Ends(pc, "other")
    BY <1>17 DEF Close
  <2> QED BY <2>1, GotoOrdered, EndsOrdered DEF Places, Errors
<1>18. CASE Xrepo
  <2> PICK walker \in {"absent", "agrees", "drifted"} :
        LET passed == ws.err = "none" IN
        ws' = [ws EXCEPT
          !.pc = "render", !.sound = @ /\ passed /\ walker = "agrees",
          !.bands = @ \cup {IF passed THEN "green" ELSE "red",
                             XrepoBand(cmd.env.root, walker)}]
    BY <1>18 DEF Xrepo
  <2> DEFINE bands == ws.bands \cup {IF ws.err = "none" THEN "green" ELSE "red",
                                     XrepoBand(cmd.env.root, walker)}
  <2>1. "green" \in Bands /\ "red" \in Bands
    BY DEF Bands
  <2>2. bands \subseteq Bands
    BY <2>1, BandsAre DEF Ordered
  <2>3. ws'.pc = "render" /\ ws'.bands = bands /\ ws'.err = ws.err /\ ws'.code = ws.code
        /\ ws'.exit = ws.exit
    BY DEF Shaped, WsFields
  <2> HIDE DEF bands
  <2> QED BY <2>2, <2>3 DEF Ordered, Places
<1>19. CASE Render
  <2>1. CASE ws' = [ws EXCEPT !.said = TRUE, !.pc = "killGate"]
    BY <2>1 DEF Shaped, WsFields, Ordered, Places
  <2>2. CASE Over([ws EXCEPT !.said = TRUE], Verdict)
    <3>1. Verdict \in Statuses
      BY CodesAre, Ending
    <3> QED BY <2>2, <3>1, SaidOrdered
  <2>3. CASE Over(ws, IF ws.err = "code" THEN ws.code ELSE 1)
    <3>1. (IF ws.err = "code" THEN ws.code ELSE 1) \in Statuses
      BY Ending DEF Ordered
    <3> QED BY <2>3, <3>1, OverOrdered
  <2> QED BY <1>19, <2>1, <2>2, <2>3, RenderLeads
<1>20. CASE KillGate
  BY <1>20, GateOrdered DEF KillGate, Places
<1>21. CASE LockGate
  BY <1>21, GateOrdered DEF LockGate, Places
<1>22. CASE KillOrphans \/ KillSurvivors \/ ClearLocks
  BY <1>22, GotoOrdered DEF KillOrphans, KillSurvivors, ClearLocks, Places
<1>23. CASE DoctorEnds
  BY <1>23, OverOrdered, CodesAre, Ending DEF DoctorEnds
<1>24. CASE Signal
  <2>1. CASE UNCHANGED <<ws, server>>
    BY <2>1 DEF Ordered
  <2>2. CASE Over(ws, BySignal)
    BY <2>2, OverOrdered, Ending
  <2> QED BY <1>24, <2>1, <2>2, SignalLeads
<1>25. CASE Cancel \/ Deadline \/ PassOn \/ ServerEnds \/ ServerCrashes \/ Elsewhere
  BY <1>25 DEF Cancel, Deadline, PassOn, ServerEnds, ServerCrashes, Elsewhere, Ordered
<1>26. CASE Again
  BY <1>26 DEF Again, Started, Ordered, Places, Errors, Statuses
<1>27. CASE UNCHANGED sessVars
  BY <1>27 DEF sessVars, Ordered
<1> QED BY <1>1, <1>2, <1>3, <1>4, <1>5, <1>6, <1>7, <1>8, <1>9, <1>10, <1>11, <1>12,
           <1>13, <1>14, <1>15, <1>16, <1>17, <1>18, <1>19, <1>20, <1>21, <1>22, <1>23,
           <1>24, <1>25, <1>26, <1>27
       DEF SessNext, Steps

(* The signals of a command.                                                 *)
LEMMA SignalsStep ==
  ASSUME sig \in Signals, [SessNext]_sessVars
  PROVE  sig' \in Signals
<1>1. CASE Steps
  <2>1. CASE UNCHANGED sig
    BY <2>1
  <2>2. CASE Watch \/ Forward \/ Unhook
    BY <2>2 DEF Watch, Forward, Unhook, Signals
  <2>3. CASE ~(Watch \/ Forward \/ Unhook)
    <3>1. CASE BackupVerify \/ Reindex
      BY <3>1, <2>1, AuditLeads
    <3>2. CASE CallAnswered \/ CallGarbled \/ CallCut
      BY <3>2, <2>1, CallMoves
    <3>3. CASE BadInput \/ Prepare \/ Confirm \/ DoctorBegin \/ DoctorLooks \/ NoClient
               \/ Spawn \/ Initialized \/ InitializeFails
      BY <3>3, <2>1 DEF BadInput, Prepare, Confirm, DoctorBegin, DoctorLooks, NoClient,
                        Spawn, Initialized, InitializeFails
    <3>4. CASE ListTools \/ HealthScore \/ Health \/ Verify \/ Wedges \/ Logs \/ Judge
               \/ Term \/ Close \/ Xrepo
      BY <3>4, <2>1 DEF ListTools, HealthScore, Health, Verify, Wedges, Logs, Judge,
                        Term, Close, Xrepo
    <3>5. CASE Render \/ KillGate \/ KillOrphans \/ KillSurvivors \/ LockGate \/ ClearLocks
               \/ DoctorEnds
      BY <3>5, <2>1 DEF Render, KillGate, KillOrphans, KillSurvivors, LockGate, ClearLocks,
                        DoctorEnds
    <3> QED BY <1>1, <2>3, <3>1, <3>2, <3>3, <3>4, <3>5 DEF Steps
  <2> QED BY <2>2, <2>3
<1>2. CASE Signal
  <2>1. sig.sent + 1 \in 0..MaxSignals
    BY <1>2, SessAssumption DEF Signal, Signals
  <2> DEFINE next == [sig EXCEPT !.sent = @ + 1]
  <2>2. next \in Signals
    BY <2>1 DEF Signals
  <2>3. sig' = next \/ sig' = [next EXCEPT !.waiting = TRUE,
                                 !.forward = IF @ = "armed" THEN "waiting" ELSE @]
    BY <1>2 DEF Signal
  <2> HIDE DEF next
  <2>4. CASE sig' = [next EXCEPT !.waiting = TRUE,
                                 !.forward = IF @ = "armed" THEN "waiting" ELSE @]
    BY <2>2, <2>4 DEF Signals
  <2> QED BY <2>2, <2>3, <2>4
<1>3. CASE Cancel \/ Deadline \/ PassOn
  BY <1>3 DEF Cancel, Deadline, PassOn, Signals
<1>4. CASE ServerEnds \/ ServerCrashes \/ Elsewhere \/ UNCHANGED sessVars
  BY <1>4 DEF ServerEnds, ServerCrashes, Elsewhere, sessVars
<1>5. CASE Again
  <2>1. 0 \in 0..MaxSignals
    BY SessAssumption
  <2> QED BY <1>5, <2>1 DEF Again, Unhooked, Signals
<1> QED BY <1>1, <1>2, <1>3, <1>4, <1>5 DEF SessNext

(* Its server.                                                               *)
LEMMA ServersStep ==
  ASSUME server \in Servers, [SessNext]_sessVars
  PROVE  server' \in Servers
<1>1. \A s \in Servers : [s EXCEPT !.stdin = FALSE, !.pipe = FALSE] \in Servers
  BY DEF Servers
<1>2. \A w, n : Over(w, n) => server' \in Servers
  BY <1>1 DEF Over
<1>3. Cut \in Servers /\ [Cut EXCEPT !.child = "gone"] \in Servers
  BY DEF Cut, Servers
<1>4. \A asks, todo, act, next : Gate(asks, todo, act, next) => server' \in Servers
  <2> SUFFICES ASSUME NEW asks, NEW todo, NEW act, NEW next, Gate(asks, todo, act, next)
               PROVE  UNCHANGED server \/ \E n : Over(ws, n)
    BY <1>2
  <2>1. CASE ~asks
    BY <2>1 DEF Gate
  <2>2. CASE asks
    <3> PICK a \in Answers :
          CASE a = "yes"       -> /\ ws' = [ws EXCEPT !.pc = act, !.agreed = @ \cup {act}]
                                  /\ UNCHANGED server
            [] a = "no"        -> Goto(next) /\ UNCHANGED server
            [] a = "cancelled" -> Over(ws, BySignal)
            [] a = "failed"    -> Over(ws, IF Verdict > 1 THEN Verdict ELSE 1)
      BY <2>2 DEF Gate
    <3>1. a \in {"yes", "no", "cancelled", "failed"}
      BY DEF Answers
    <3> QED BY <3>1
  <2> QED BY <2>1, <2>2
<1>5. CASE Steps
  <2>1. CASE BadInput \/ BackupVerify \/ Reindex \/ Confirm \/ DoctorEnds
    <3>1. CASE BackupVerify \/ Reindex
      BY <3>1, <1>2, AuditLeads DEF Audits
    <3>2. CASE Confirm
      BY <3>2, <1>2, ConfirmLeads
    <3> QED BY <2>1, <3>1, <3>2, <1>2 DEF BadInput, DoctorEnds
  <2>2. CASE Prepare \/ DoctorLooks \/ Watch \/ NoClient \/ Initialized \/ Forward
    BY <2>2 DEF Prepare, DoctorLooks, Watch, NoClient, Initialized, Forward
  <2>3. CASE DoctorBegin
    BY <2>3, <1>2 DEF DoctorBegin
  <2>4. CASE Spawn
    BY <2>4 DEF Spawn, Servers
  <2>5. CASE InitializeFails \/ Term \/ Close
    BY <2>5 DEF InitializeFails, Term, TermGroup, Close, Servers
  <2>6. CASE CallAnswered \/ CallGarbled \/ CallCut
    BY <2>6, CallMoves
  <2>7. CASE ListTools \/ HealthScore \/ Health \/ Verify \/ Wedges \/ Logs \/ Judge
             \/ Unhook \/ Xrepo \/ KillOrphans \/ KillSurvivors \/ ClearLocks
    BY <2>7 DEF ListTools, HealthScore, Health, Verify, Wedges, Logs, Judge, Unhook, Xrepo,
                KillOrphans, KillSurvivors, ClearLocks
  <2>8. CASE Render
    BY <2>8, <1>2, RenderLeads
  <2>9. CASE KillGate \/ LockGate
    BY <2>9, <1>4 DEF KillGate, LockGate
  <2> QED BY <1>5, <2>1, <2>2, <2>3, <2>4, <2>5, <2>6, <2>7, <2>8, <2>9 DEF Steps
<1>6. CASE Signal
  BY <1>6, <1>2, SignalLeads
<1>7. CASE Cancel \/ Deadline \/ ServerEnds \/ ServerCrashes
  BY <1>7, <1>3 DEF Cancel, Deadline, ServerEnds, ServerCrashes
<1>8. CASE PassOn
  BY <1>8 DEF PassOn, Servers
<1>9. CASE Elsewhere \/ UNCHANGED sessVars
  BY <1>9 DEF Elsewhere, sessVars
<1>10. CASE Again
  BY <1>10 DEF Again, NoServer, Servers
<1> QED BY <1>5, <1>6, <1>7, <1>8, <1>9, <1>10 DEF SessNext

(* Where a command that wrote its note can be.                               *)
NoteMade == Places \ Unwritten

(* A call comes once: none follows one.                                      *)
LEMMA NoteWritten ==
  ASSUME Shaped, Ordered, [SessNext]_sessVars, ws.pc \in NoteMade, ~Again
  PROVE  ws'.pc \in NoteMade
<1>1. \A pc \in NoteMade : \A e : Goto(pc) \/ Ends(pc, e) => ws'.pc \in NoteMade
  BY DEF Goto, Ends, Shaped, WsFields
<1>2. \A n : Over(ws, n) => ws'.pc \in NoteMade
  BY DEF Over, Shaped, WsFields, NoteMade, Unwritten, Places
<1>3. \A pc \in NoteMade : \A band, ok : Signal1(band, ok, pc) => ws'.pc \in NoteMade
  BY DEF Signal1, Shaped, WsFields
<1>4. CASE Steps
  <2>1. ~(BadInput \/ BackupVerify \/ Reindex \/ Prepare \/ Confirm \/ DoctorBegin \/ DoctorLooks
          \/ Watch \/ NoClient)
    BY AuditLeads DEF BadInput, Prepare, Confirm, DoctorBegin, DoctorLooks,
                      Watch, NoClient, At, NoteMade, Unwritten
  <2>2. ~(Spawn \/ Initialized \/ InitializeFails \/ Forward \/ CallAnswered \/ CallGarbled
          \/ CallCut \/ ListTools \/ HealthScore)
    BY CallMoves DEF Spawn, Initialized, InitializeFails, Forward, ListTools, HealthScore,
                     At, NoteMade, Unwritten
  <2>3. {"term", "close", "unhook", "xrepo", "render", "killGate", "killing", "surviving",
         "lockGate", "clearing", "done", "ended", "wedged", "logs", "judge", "health", "verify"}
          \subseteq NoteMade
    BY DEF NoteMade, Places, Unwritten
  <2>4. CASE Health \/ Verify
    BY <2>4, <2>3, HealthLeads, VerifyLeads DEF Reported
  <2>5. CASE Wedges \/ Judge \/ Term \/ Close \/ Unhook
    BY <2>5, <2>3, <1>1 DEF Wedges, Judge, Term, Close, Unhook
  <2>6. CASE Logs
    BY <2>6, <2>3 DEF Logs, Shaped, WsFields
  <2>7. CASE Xrepo
    BY <2>7, <2>3, XrepoLeads
  <2>8. CASE Render
    <3>1. CASE ws' = [ws EXCEPT !.said = TRUE, !.pc = "killGate"]
      BY <3>1, <2>3 DEF Shaped, WsFields
    <3>2. CASE Over([ws EXCEPT !.said = TRUE], Verdict)
      BY <3>2, <2>3 DEF Over, Shaped, WsFields
    <3> QED BY <2>8, <3>1, <3>2, <1>2, RenderLeads
  <2>9. CASE KillGate \/ LockGate
    BY <2>9, <2>3, <1>2, KillGateLeads, LockGateLeads DEF Passes
  <2>10. CASE KillOrphans \/ KillSurvivors \/ ClearLocks \/ DoctorEnds
    BY <2>10, <2>3, <1>1, <1>2 DEF KillOrphans, KillSurvivors, ClearLocks, DoctorEnds
  <2> QED BY <1>4, <2>1, <2>2, <2>4, <2>5, <2>6, <2>7, <2>8, <2>9, <2>10 DEF Steps
<1>5. CASE Signal
  BY <1>5, <1>2, SignalLeads
<1>6. CASE Cancel \/ Deadline \/ PassOn \/ ServerEnds \/ ServerCrashes \/ Elsewhere
  BY <1>6 DEF Cancel, Deadline, PassOn, ServerEnds, ServerCrashes, Elsewhere
<1>7. CASE UNCHANGED sessVars
  BY <1>7 DEF sessVars
<1> QED BY <1>4, <1>5, <1>6, <1>7 DEF SessNext

(* The command typed, once more or still.                                    *)
LEMMA CommandStep ==
  ASSUME cmd \in Typed(SessOps), [SessNext]_sessVars
  PROVE  cmd' \in Typed(SessOps)
<1>1. CASE Again
  <2>1. PICK o \in SessOps : cmd \in [op : {o}, env : Envs, given : SUBSET Flags(o)]
    BY DEF Typed
  <2>2. o = "ingest"
    BY <1>1, <2>1 DEF Again, Op
  <2>3. cmd' \in [op : {"ingest"}, env : Envs, given : SUBSET Flags("ingest")]
    BY <1>1 DEF Again, Typed
  <2>4. [op : {"ingest"}, env : Envs, given : SUBSET Flags("ingest")]
          \in {[op : {q}, env : Envs, given : SUBSET Flags(q)] : q \in SessOps}
    BY <2>2
  <2> QED BY <2>3, <2>4 DEF Typed
<1>2. CASE Steps
  <2>1. CASE BackupVerify \/ Reindex
    BY <2>1, AuditLeads
  <2>2. CASE BadInput \/ Prepare \/ Confirm \/ DoctorBegin \/ DoctorLooks \/ Watch \/ NoClient
             \/ Spawn \/ Initialized \/ InitializeFails \/ Forward
    BY <2>2 DEF BadInput, Prepare, Confirm, DoctorBegin, DoctorLooks, Watch, NoClient, Spawn,
                Initialized, InitializeFails, Forward
  <2>3. CASE CallAnswered \/ CallGarbled \/ CallCut
    BY <2>3, CallMoves
  <2>4. CASE ListTools \/ HealthScore \/ Health \/ Verify \/ Wedges \/ Logs \/ Judge
             \/ Term \/ Close \/ Unhook \/ Xrepo \/ Render
    BY <2>4 DEF ListTools, HealthScore, Health, Verify, Wedges, Logs, Judge, Term, Close,
                Unhook, Xrepo, Render
  <2>5. CASE KillGate \/ KillOrphans \/ KillSurvivors \/ LockGate \/ ClearLocks \/ DoctorEnds
    BY <2>5 DEF KillGate, KillOrphans, KillSurvivors, LockGate, ClearLocks, DoctorEnds
  <2> QED BY <1>2, <2>1, <2>2, <2>3, <2>4, <2>5 DEF Steps
<1>3. CASE Signal
  BY <1>3, SignalLeads
<1>4. CASE Cancel \/ Deadline \/ PassOn \/ ServerEnds \/ ServerCrashes \/ Elsewhere
  BY <1>4 DEF Cancel, Deadline, PassOn, ServerEnds, ServerCrashes, Elsewhere
<1>5. CASE UNCHANGED sessVars
  BY <1>5 DEF sessVars
<1> QED BY <1>1, <1>2, <1>3, <1>4, <1>5 DEF SessNext

(* The vault without its note, or as it was.                                 *)
Kept == /\ vault' \in Vaults
        /\ vault'.copies = vault.copies /\ vault'.runs = vault.runs

(* What is done to a vault, but for its note.                                *)
LEMMA VaultKept ==
  ASSUME vault \in Vaults, [SessNext]_sessVars,
         ~Again, ~(CallAnswered \/ CallGarbled \/ CallCut)
  PROVE  Kept
<1>1. CASE UNCHANGED vault
  BY <1>1 DEF Kept
<1>2. CASE KillOrphans
  <2> PICK gone \in SUBSET (Victims \cap vault.orphans) :
             vault' = [vault EXCEPT !.orphans = @ \ gone, !.killed = @ \cup gone]
    BY <1>2 DEF KillOrphans
  <2>1. vault.orphans \ gone \subseteq Pids /\ vault.killed \cup gone \subseteq Pids
    BY DEF Vaults
  <2> QED BY <2>1 DEF Kept, Vaults
<1>3. CASE KillSurvivors
  <2> DEFINE orphans == vault.orphans \ Victims
  <2> DEFINE killed  == vault.killed \cup (Victims \cap vault.orphans)
  <2>1. orphans \subseteq Pids /\ killed \subseteq Pids
    BY DEF Vaults
  <2>2. vault' = [vault EXCEPT !.orphans = orphans, !.killed = killed]
    BY <1>3 DEF KillSurvivors
  <2> HIDE DEF orphans, killed
  <2> QED BY <2>1, <2>2 DEF Kept, Vaults
<1>4. CASE ClearLocks
  <2> DEFINE removed == vault.removed \/ vault.lock # "none"
  <2>1. removed \in BOOLEAN
    BY DEF Vaults
  <2>2. vault' = [vault EXCEPT !.lock = "none", !.removed = removed]
    BY <1>4 DEF ClearLocks
  <2> HIDE DEF removed
  <2> QED BY <2>1, <2>2 DEF Kept, Vaults
<1>5. CASE Elsewhere
  <2>1. \/ vault' = [vault EXCEPT !.lock = "held"]
        \/ \E o \in SUBSET Pids : vault' = [vault EXCEPT !.orphans = o]
    <3>1. vault.orphans \cup {"p2"} \in SUBSET Pids /\ vault.orphans \ {"p1"} \in SUBSET Pids
      BY DEF Vaults, Pids
    <3> QED BY <1>5, <3>1 DEF Elsewhere
  <2> QED BY <2>1 DEF Kept, Vaults
<1>6. CASE ~(KillOrphans \/ KillSurvivors \/ ClearLocks \/ Elsewhere)
  <2>1. CASE Steps
    <3>1. CASE BackupVerify \/ Reindex
      BY <3>1, <1>1, AuditLeads
    <3>2. CASE BadInput \/ Prepare \/ Confirm \/ DoctorBegin \/ DoctorLooks \/ Watch
               \/ NoClient \/ Spawn \/ Initialized \/ InitializeFails \/ Forward
      BY <3>2, <1>1 DEF BadInput, Prepare, Confirm, DoctorBegin, DoctorLooks, Watch, NoClient,
                        Spawn, Initialized, InitializeFails, Forward
    <3>3. CASE ListTools \/ HealthScore \/ Health \/ Verify \/ Wedges \/ Logs \/ Judge
               \/ Term \/ Close \/ Unhook \/ Xrepo \/ Render
      BY <3>3, <1>1 DEF ListTools, HealthScore, Health, Verify, Wedges, Logs, Judge, Term,
                        Close, Unhook, Xrepo, Render
    <3>4. CASE KillGate \/ LockGate \/ DoctorEnds
      BY <3>4, <1>1 DEF KillGate, LockGate, DoctorEnds
    <3> QED BY <2>1, <1>6, <3>1, <3>2, <3>3, <3>4 DEF Steps
  <2>2. CASE Signal
    BY <2>2, <1>1, SignalLeads
  <2>3. CASE Cancel \/ Deadline \/ PassOn \/ ServerEnds \/ ServerCrashes \/ UNCHANGED sessVars
    BY <2>3, <1>1 DEF Cancel, Deadline, PassOn, ServerEnds, ServerCrashes, sessVars
  <2> QED BY <1>6, <2>1, <2>2, <2>3 DEF SessNext
<1> QED BY <1>2, <1>3, <1>4, <1>5, <1>6

(* A note for every run of ingest at most.                                   *)
LEMMA VaultsStep ==
  ASSUME Shaped, Ordered, vault \in Vaults, NoteEach, [SessNext]_sessVars
  PROVE  vault' \in Vaults /\ NoteEach'
<1>0. vault.copies \in 0..MaxRuns /\ vault.runs \in 0..MaxRuns /\ MaxRuns \in Nat
  BY SessAssumption DEF Vaults
<1>1. CASE Again
  <2>1. vault.runs + 1 \in 0..MaxRuns
    BY <1>0, <1>1 DEF Again
  <2>2. vault' = [vault EXCEPT !.runs = vault.runs + 1]
    BY <1>1 DEF Again
  <2>3. vault' \in Vaults /\ vault'.copies = vault.copies /\ vault'.runs = vault.runs + 1
    BY <2>1, <2>2 DEF Vaults
  <2> QED BY <1>0, <2>3 DEF NoteEach
<1>2. CASE CallAnswered \/ CallGarbled \/ CallCut
  <2>1. ws.pc = "work" /\ ws'.pc = "term"
    BY <1>2, CallMoves DEF At, Exits, Ends, Shaped, WsFields
  <2>2. vault.copies < vault.runs /\ ws'.pc \notin Unwritten
    BY <2>1 DEF NoteEach, Unwritten
  <2>3. CASE vault' = vault
    BY <1>0, <2>2, <2>3 DEF NoteEach
  <2>4. CASE vault' = Stored
    <3> DEFINE forced == vault.forced \/ Given("dedup-force")
    <3>1. forced \in BOOLEAN /\ vault.copies + 1 \in 0..MaxRuns
      BY <1>0, <2>2 DEF Vaults
    <3>2. vault' = [vault EXCEPT !.copies = vault.copies + 1, !.forced = forced]
      BY <2>4 DEF Stored
    <3> HIDE DEF forced
    <3>3. vault' \in Vaults /\ vault'.copies = vault.copies + 1 /\ vault'.runs = vault.runs
      BY <3>1, <3>2 DEF Vaults
    <3> QED BY <1>0, <2>2, <3>3 DEF NoteEach
  <2> QED BY <1>2, <2>3, <2>4, CallMoves
<1>3. CASE ~Again /\ ~(CallAnswered \/ CallGarbled \/ CallCut)
  <2>1. Kept
    BY <1>3, VaultKept
  <2>2. ws'.pc \in Unwritten => ws.pc \in Unwritten
    <3>1. ws.pc \notin Unwritten => ws'.pc \in NoteMade
      BY <1>3, NoteWritten DEF Ordered, NoteMade
    <3> QED BY <3>1 DEF NoteMade
  <2> QED BY <2>1, <2>2 DEF Kept, NoteEach
<1> QED BY <1>1, <1>2, <1>3

(* Every step keeps the types.                                               *)
LEMMA SessTypedStep == SessTyped /\ [SessNext]_sessVars => SessTyped'
BY ShapedStep, CommandStep, OrderedStep, SignalsStep, ServersStep, VaultsStep DEF SessTyped

(***************************************************************************)
(* The types of a session hold in every state of it.                        *)
(***************************************************************************)
THEOREM SessionTypeCorrect == SessSpec => []SessTypeOK
<1>1. SessInit => SessTyped
  BY SessTypedFirst
<1>2. SessTyped /\ [SessNext]_sessVars => SessTyped'
  BY SessTypedStep
<1>3. SessTyped => SessTypeOK
  BY SessTypedIs
<1> QED BY <1>1, <1>2, <1>3, PTL DEF SessSpec
=============================================================================
