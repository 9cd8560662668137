----------------------------- MODULE VaultSession -----------------------------
(***************************************************************************)
(* A ws vault command from the shell to its exit: the client it starts for  *)
(* the vault-ai server (src/internal/mcp/client.go), the calls it makes,    *)
(* the signals it is sent, and what it leaves behind                        *)
(* (src/cmd/vault_client.go, vault_status.go, vault_ingest.go,              *)
(* vault_doctor.go).  The server is a process group of its own: its leader, *)
(* uv, and the python it runs.                                              *)
(***************************************************************************)
EXTENDS VaultReport

CONSTANTS SessOps,      \* the commands that are run
          MaxRuns,      \* bound on the ingests run one after the other
          MaxSignals    \* bound on the signals a command is sent

ASSUME SessAssumption ==
  /\ SessOps \subseteq {"call", "predict", "score", "status", "ingest", "doctor",
                       "backup", "reindex"}
  /\ SessOps # {} /\ MaxRuns \in Nat \ {0} /\ MaxSignals \in Nat

VARIABLES cmd,      \* the command typed, with what flags, and where
          ws,       \* the goroutine of its RunE
          sig,      \* its signals: sent, not passed on yet; and its context
          server,   \* the process group of the server it started
          vault     \* what is there before and after it

sessVars == <<cmd, ws, sig, server, vault>>

Pids     == {"p1", "p2"}
BySignal == 130   \* the status of a process a signal ended, as a shell reads it

UvFacts == {"found", "absolute", "resolves", "regular", "dirSeen", "dirPrivate",
            "dirOurs"}

(* The environment of a command: all there, or one thing not.                *)
Good == [token |-> TRUE, root |-> ResolveRepoRoot("none", "none", "/home/u"),
         uv |-> [f \in UvFacts |-> TRUE]]
Envs == {Good, [Good EXCEPT !.token = FALSE],
         [Good EXCEPT !.root = ResolveRepoRoot("none", "none", "none")],
         [Good EXCEPT !.uv["dirPrivate"] = FALSE]}

(* Flags, and whether there is a terminal to ask on.                         *)
Flags(op) == CASE op = "ingest" -> {"dedup-force", "yes", "terminal"}
               [] op = "doctor" -> {"kill-orphans", "clear-stale-locks", "yes",
                                    "terminal"}
               [] OTHER         -> {}
Typed(ops) == UNION {[op : {o}, env : Envs, given : SUBSET Flags(o)] : o \in ops}

Unhooked == [sent |-> 0, watched |-> FALSE, waiting |-> FALSE, ctx |-> "live",
             forward |-> "off"]
NoServer == [leader |-> "none", child |-> "none", stdin |-> FALSE, pipe |-> FALSE,
             told |-> FALSE, deaf |-> FALSE]
Started  == [pc |-> "typed", err |-> "none", exit |-> -1, code |-> 0, client |-> FALSE,
             bands |-> {}, tools |-> {}, sound |-> TRUE, cut |-> FALSE,
             said |-> FALSE, pids |-> {}, lock |-> FALSE, agreed |-> {}]
Empty    == [runs |-> 1, copies |-> 0, forced |-> FALSE, lock |-> "none",
             orphans |-> {}, killed |-> {}, removed |-> FALSE]

SessTypeOK ==
  /\ cmd \in Typed(SessOps)
  /\ ws.pc \in {"typed", "confirm", "orphans", "watch", "spawn", "shake", "forward",
                "work", "health", "verify", "wedged", "logs", "judge", "term",
                "close", "unhook", "xrepo", "render", "killGate", "killing",
                "surviving", "lockGate", "clearing", "done", "ended", "off"}
  /\ ws.err \in {"none", "ctx", "other", "declined", "code"} /\ ws.code \in 0..7
  /\ ws.exit \in 0..7 \cup {-1, BySignal, 255}
  /\ ws.bands \subseteq Bands
  /\ sig \in [sent : 0..MaxSignals, watched : BOOLEAN, waiting : BOOLEAN,
              ctx : {"live", "done"}, forward : {"off", "armed", "waiting", "spent"}]
  /\ server \in [leader : {"none", "run", "dead", "reaped"},
                 child : {"none", "run", "gone"}, stdin : BOOLEAN, pipe : BOOLEAN,
                 told : BOOLEAN, deaf : BOOLEAN]
  /\ vault \in [runs : 0..MaxRuns, copies : 0..MaxRuns, forced : BOOLEAN,
                lock : {"none", "stale", "held"}, orphans : SUBSET Pids,
                killed : SUBSET Pids, removed : BOOLEAN]

SessInit ==
  /\ cmd \in Typed(SessOps)
  /\ ws = Started /\ sig = Unhooked /\ server = NoServer
  /\ vault \in IF cmd.op # "doctor" THEN {Empty}
               ELSE {[Empty EXCEPT !.lock = l, !.orphans = o] :
                       l \in {"none", "stale"},
                       o \in IF cmd.env = Good THEN {{}, {"p1"}} ELSE {{}}}

(* No vault command is run.                                                  *)
SessOff ==
  /\ cmd = CHOOSE c \in Typed(SessOps) : TRUE
  /\ ws = [Started EXCEPT !.pc = "off"] /\ sig = Unhooked
  /\ server = NoServer /\ vault = Empty

At(pc)      == ws.pc = pc
Op(ops)     == cmd.op \in ops
Given(flag) == flag \in cmd.given
Goto(pc)    == ws' = [ws EXCEPT !.pc = pc]
Ends(pc, e) == ws' = [ws EXCEPT !.pc = pc, !.err = e]
Exits(pc, n) == ws' = [ws EXCEPT !.pc = pc, !.err = "code", !.code = n]

(* The process ends; the kernel closes its end of the server's stdin.        *)
Over(w, exit) ==
  /\ ws' = [w EXCEPT !.pc = "ended", !.exit = exit]
  /\ server' = [server EXCEPT !.stdin = FALSE, !.pipe = FALSE]

-----------------------------------------------------------------------------
(* Before the client.                                                        *)

(* ingest's file and predict's count; and a force without a reason.          *)
BadInput ==
  /\ At("typed") /\ Op({"ingest", "predict"})
  /\ Over(ws, 1)
  /\ UNCHANGED <<cmd, sig, vault>>

(* backup-verify and reindex have no client.                                 *)
BackupVerify ==
  /\ At("typed") /\ Op({"backup"})
  /\ \E logs \in SUBSET {[age |-> 1, lines |-> <<"rot", "success", "blank">>],
                         [age |-> 0, lines |-> <<"success", "overlong", "rot">>],
                         [age |-> 2, lines |-> <<"success", "rot">>],
                         [age |-> 3, lines |-> <<"green", "garbled">>],
                         [age |-> 15, lines |-> <<"ok">>],
                         [age |-> -1, lines |-> <<"ok">>]} :
       LET newest == {l \in logs : l.age >= 0 /\ \A o \in logs : o.age = -1 \/ l.age <= o.age}
       IN  Over([ws EXCEPT !.said = TRUE, !.sound = \E l \in newest : l.age \in {0, 1}],
                BackupExit(cmd.env.root, logs))
  /\ UNCHANGED <<cmd, sig, vault>>

Reindex ==
  /\ At("typed") /\ Op({"reindex"})
  /\ \E child \in {"unstarted", "killed", "failed", "ended"} :
       Over([ws EXCEPT !.said = TRUE, !.sound = child = "ended"],
            ReindexExit(cmd.env.root, child))
  /\ UNCHANGED <<cmd, sig, vault>>

Prepare ==
  /\ At("typed") /\ ~Op({"doctor", "backup", "reindex"})
  /\ Goto(IF Given("dedup-force") /\ ~Given("yes") THEN "confirm" ELSE "watch")
  /\ UNCHANGED <<cmd, sig, server, vault>>

(***************************************************************************)
(* A prompt, seen from its caller: an answer, a cancellation by a signal,   *)
(* or neither.                                                              *)
(***************************************************************************)
Answers == IF ~Given("terminal") THEN {"failed"}
           ELSE IF sig.sent > 0 THEN {"cancelled"} ELSE {"yes", "no", "failed"}

Confirm ==
  /\ At("confirm")
  /\ \E a \in Answers :
       CASE a = "yes"       -> Goto("watch") /\ UNCHANGED server
         [] a = "no"        -> Over([ws EXCEPT !.err = "declined"], 0)
         [] a = "cancelled" -> Over(ws, BySignal)
         [] a = "failed"    -> Over(ws, 1)
  /\ UNCHANGED <<cmd, sig, vault>>

(* The doctor that would have to ask, and cannot, refuses before it looks.   *)
Refuses ==
  /\ Given("kill-orphans") \/ Given("clear-stale-locks")
  /\ ~Given("yes") /\ ~Given("terminal")

DoctorBegin ==
  /\ At("typed") /\ Op({"doctor"})
  /\ IF Refuses THEN Over(ws, 1) ELSE Goto("orphans") /\ UNCHANGED server
  /\ UNCHANGED <<cmd, sig, vault>>

(***************************************************************************)
(* The orphans, the stale locks and the token.  pgrep counts the servers    *)
(* there are, or prints words (-1), or nothing (0).                         *)
(***************************************************************************)
DoctorLooks ==
  /\ At("orphans")
  /\ \E n \in {Cardinality(vault.orphans), -1, 0} :
       LET pids  == IF n > 0 THEN vault.orphans ELSE {}
           stale == {l \in {vault.lock} : l = "stale"}
           root  == cmd.env.root
       IN  ws' = [ws EXCEPT
             !.pc = "spawn", !.pids = pids, !.lock = root # "none" /\ stale # {},
             !.bands = {OrphanBand(n), LockBand(root, stale), TokenBand(cmd.env.token)},
             !.sound = cmd.env.token /\ root # "none" /\ stale = {} /\ pids = {}]
  /\ UNCHANGED <<cmd, sig, server, vault>>

-----------------------------------------------------------------------------
(* The client.                                                               *)

(* signalContext; the dry run of the doctor goes without.                    *)
Watch ==
  /\ At("watch")
  /\ Goto("spawn") /\ sig' = [sig EXCEPT !.watched = TRUE]
  /\ UNCHANGED <<cmd, server, vault>>

Unready == ~cmd.env.token \/ cmd.env.root = "none" \/ ~UvUsable(cmd.env.uv)

(***************************************************************************)
(* runVaultStatus and checkBrokenFDPass when there is no client: a status   *)
(* that was interrupted says nothing, one that was not says so.             *)
(***************************************************************************)
WithoutClient(interrupted) ==
  LET cut == sig.ctx = "done" IN
  ws' = [ws EXCEPT
    !.pc    = IF Op({"doctor"}) THEN "xrepo" ELSE "unhook",
    !.err   = IF Op({"status"}) THEN IF interrupted THEN "ctx" ELSE "none" ELSE "other",
    !.bands = IF Op({"status"}) THEN ToSet(DownReport) ELSE @,
    !.cut   = cut, !.sound = FALSE]

AbortsSpawn == sig.ctx = "done"

(* NewClient fails before it started anything, or cannot start it.           *)
NoClient ==
  /\ At("spawn")
  /\ WithoutClient(AbortsSpawn)
  /\ UNCHANGED <<cmd, sig, server, vault>>

Spawn ==
  /\ At("spawn") /\ ~Unready /\ sig.ctx = "live"
  /\ \E deaf \in BOOLEAN :
       server' = [leader |-> "run", child |-> "run", stdin |-> TRUE, pipe |-> TRUE,
                  told |-> FALSE, deaf |-> deaf]
  /\ Goto("shake")
  /\ UNCHANGED <<cmd, sig, vault>>

Initialized ==
  /\ At("shake") /\ server.leader = "run" /\ sig.ctx = "live"
  /\ ws' = [ws EXCEPT !.pc = IF Op({"doctor"}) THEN "work" ELSE "forward",
                      !.client = TRUE]
  /\ UNCHANGED <<cmd, sig, server, vault>>

(***************************************************************************)
(* The handshake failed: after 15 seconds, or because the server died or    *)
(* the context ended.  The library closes the server's stdin and reaps the  *)
(* leader, whose group can then no longer be looked up: it is not killed.   *)
(***************************************************************************)
InitializeFails ==
  /\ At("shake")
  /\ server' = [server EXCEPT !.leader = "reaped", !.stdin = FALSE, !.pipe = FALSE]
  /\ WithoutClient(AbortsSpawn)
  /\ UNCHANGED <<cmd, sig, vault>>

(* InstallSignalForward.                                                     *)
Forward ==
  /\ At("forward")
  /\ sig' = [sig EXCEPT !.forward = "armed"] /\ Goto("work")
  /\ UNCHANGED <<cmd, server, vault>>

-----------------------------------------------------------------------------
(* The calls.  A server that hangs answers nothing.                          *)

Answering == server.leader = "run" /\ sig.ctx = "live"
Fails     == ~Answering

(* A mutant: the vault's check is not asked for.                             *)
NoteUnchecked == [check |-> FALSE, override |-> Given("dedup-force")]

(* create_note looks for near-duplicates, and writes the note in spite of    *)
(* them only when it is told to.                                             *)
NoteArgs == [check |-> TRUE, override |-> Given("dedup-force")]
Stores   == ~NoteArgs.check \/ NoteArgs.override \/ vault.copies = 0
Stored   == [vault EXCEPT !.copies = @ + 1, !.forced = @ \/ Given("dedup-force")]

(***************************************************************************)
(* The answers of the server.  Of those that refuse, one with a code this   *)
(* version knows, one it does not, and two that are malformed.              *)
(***************************************************************************)
Refusals == {Failed("VALIDATION_FAILED"), Failed("SURPRISE"), Failed("none"), Failed("")}
Replies  == IF Op({"ingest"}) /\ ~Stores THEN {Failed("DEDUP_BLOCKED")}
            ELSE {Fine} \cup Refusals

CallAnswered ==
  /\ At("work") /\ Op({"call", "predict", "ingest"}) /\ Answering
  /\ \E e \in Replies :
       /\ Exits("term", IF Op({"predict"}) THEN PredictExit(e) ELSE RenderExit(e))
       /\ vault' = IF Op({"ingest"}) /\ e = Fine THEN Stored ELSE vault
  /\ UNCHANGED <<cmd, sig, server>>

(* The answer cannot be read; ingest's note may have been written.           *)
CallGarbled ==
  /\ At("work") /\ Op({"call", "predict", "ingest"}) /\ Answering
  /\ Ends("term", "other")
  /\ vault' \in {vault} \cup (IF Op({"ingest"}) /\ Stores THEN {Stored} ELSE {})
  /\ UNCHANGED <<cmd, sig, server>>

(* The server died or the context ended first, whatever the call had done.   *)
CallCut ==
  /\ At("work") /\ Op({"call", "predict", "ingest"}) /\ Fails
  /\ Ends("term", "other")
  /\ vault' \in {vault} \cup (IF Op({"ingest"}) /\ Stores THEN {Stored} ELSE {})
  /\ UNCHANGED <<cmd, sig, server>>

Signal1(band, ok, pc) ==
  ws' = [ws EXCEPT !.bands = @ \cup {band}, !.sound = @ /\ ok, !.pc = pc,
                   !.cut = @ \/ (sig.ctx = "done" /\ band = "red")]

(* collectMCPLiveness, and the doctor's own listing.                         *)
ListTools ==
  /\ At("work") /\ Op({"status", "doctor"})
  /\ \/ /\ Answering /\ Op({"doctor"})
        /\ Goto("term")
     \/ /\ Answering /\ Op({"status"})
        /\ \E tools \in {{}, {"gate"}, {"bare"}} :
             ws' = [ws EXCEPT !.bands = {"green"}, !.pc = "health", !.tools = tools]
     \/ /\ Fails /\ Op({"doctor"})
        /\ Ends("term", "other")
     \/ /\ Fails /\ Op({"status"})
        /\ Signal1("red", FALSE, "health")
  /\ UNCHANGED <<cmd, sig, server, vault>>

(* What the coverage report and the orphans may say.                         *)
Measures == {[cov |-> 100, suf |-> 100, link |-> 100, orphans |-> 0],
             [cov |-> 70, suf |-> 70, link |-> 70, orphans |-> 30],
             [cov |-> 101, suf |-> 40, link |-> -1, orphans |-> 200]}
Healthy(m) == m.cov >= 70 /\ m.suf >= 70 /\ m.link >= 70 /\ m.orphans <= 30

(* The composition, by vault-health-score.                                   *)
HealthScore ==
  /\ At("work") /\ Op({"score"})
  /\ \/ /\ Answering
        /\ \E m \in Measures, warn \in {{}, Sentinels} :
             Exits("term", HealthBandExitCode(HealthBand(Score(m, warn))))
     \/ Ends("term", "other")
  /\ UNCHANGED <<cmd, sig, server, vault>>

(* And by status.                                                            *)
Health ==
  /\ At("health")
  /\ \/ /\ Answering
        /\ \E m \in Measures, warn \in {{}, Sentinels} :
             Signal1(HealthBand(Score(m, warn)), Healthy(m), "verify")
     \/ Signal1("red", FALSE, "verify")
  /\ UNCHANGED <<cmd, sig, server, vault>>

(* The eight streams; a context that ended kills the verifier of one.        *)
Verify ==
  /\ At("verify")
  /\ \E uv \in BOOLEAN, last \in {"intact", "broken"} :
       LET chain == [k \in 1..8 |-> IF sig.ctx = "done" THEN "broken"
                                    ELSE IF k = 8 THEN last ELSE "intact"]
       IN  Signal1(ChainBand(uv, chain), uv /\ last = "intact", "logs")
  /\ UNCHANGED <<cmd, sig, server, vault>>

(***************************************************************************)
(* A descendant of a verifier, or of the doctor's script, keeps its output  *)
(* open: the deadline kills the child, and the wait for its output goes on. *)
(***************************************************************************)
Wedges ==
  /\ At("verify") \/ At("xrepo")
  /\ Goto("wedged")
  /\ UNCHANGED <<cmd, sig, server, vault>>

(* The two signals read from the logs, and the one the tools decide.         *)
Logs ==
  /\ At("logs")
  /\ \E log \in {"absent", "there"}, age \in {-1, 95, 96, 101} :
       ws' = [ws EXCEPT
         !.pc = "judge",
         !.bands = @ \cup {CostBand(log), DedupBand(ws.tools), DrillBand(age)},
         !.sound = @ /\ log = "there" /\ ws.tools = {"gate"} /\ age \in 0..95]
  /\ UNCHANGED <<cmd, sig, server, vault>>

(* A mutant: it is not.                                                      *)
NotLooked == FALSE

(* The context of status is looked at once more.                             *)
Interrupted == sig.ctx = "done"

Judge ==
  /\ At("judge")
  /\ Ends("term", IF Interrupted THEN "ctx" ELSE "none")
  /\ UNCHANGED <<cmd, sig, server, vault>>

-----------------------------------------------------------------------------
(* Close, and after it.                                                      *)

(* A mutant: only the leader is signalled.                                   *)
TermLeader == [server EXCEPT !.leader = IF @ = "run" THEN "dead" ELSE @]

(* The whole group is asked to end.                                          *)
TermGroup == [server EXCEPT !.told = TRUE]

Term ==
  /\ At("term")
  /\ server' = TermGroup /\ Goto("close")
  /\ UNCHANGED <<cmd, sig, vault>>

(***************************************************************************)
(* The library closes the server's stdin and returns once its leader ended; *)
(* after 5 seconds the group is killed first.                               *)
(***************************************************************************)
Close ==
  /\ At("close")
  /\ \/ /\ server.leader = "dead"
        /\ server' = [server EXCEPT !.leader = "reaped", !.stdin = FALSE, !.pipe = FALSE]
        /\ Goto(IF Op({"doctor"}) THEN "xrepo" ELSE "unhook")
     \/ /\ server' = [server EXCEPT !.leader = "reaped", !.child = "gone",
                                    !.stdin = FALSE, !.pipe = FALSE]
        /\ IF Op({"doctor"}) THEN Ends("xrepo", "other") ELSE Goto("unhook")
  /\ UNCHANGED <<cmd, sig, vault>>

(* The deferred stops.                                                       *)
Unhook ==
  /\ At("unhook")
  /\ sig' = [sig EXCEPT !.watched = FALSE, !.waiting = FALSE, !.forward = "off"]
  /\ Goto("render")
  /\ UNCHANGED <<cmd, server, vault>>

(* The handshake's check and the last one.                                   *)
Xrepo ==
  /\ At("xrepo")
  /\ \E walker \in {"absent", "agrees", "drifted"} :
       LET passed == ws.err = "none" IN
       ws' = [ws EXCEPT
         !.pc = "render", !.sound = @ /\ passed /\ walker = "agrees",
         !.bands = @ \cup {IF passed THEN "green" ELSE "red",
                            XrepoBand(cmd.env.root, walker)}]
  /\ UNCHANGED <<cmd, sig, server, vault>>

Verdict == HealthBandExitCode(Worst(ws.bands))

(* What is printed, and the exit code, but for the doctor's mutations.       *)
Render ==
  /\ At("render")
  /\ CASE Op({"doctor"}) ->
            ws' = [ws EXCEPT !.said = TRUE, !.pc = "killGate"] /\ UNCHANGED server
       [] Op({"status"}) /\ ws.err # "ctx" ->
            Over([ws EXCEPT !.said = TRUE], Verdict)
       [] OTHER -> Over(ws, IF ws.err = "code" THEN ws.code ELSE 1)
  /\ UNCHANGED <<cmd, sig, vault>>

-----------------------------------------------------------------------------
(* The doctor's mutations.                                                   *)

AsksToKill  == Given("kill-orphans") /\ ws.pids # {} /\ ~Given("yes")
AsksToClear == Given("clear-stale-locks") /\ ws.lock /\ ~Given("yes")

(* A gate: asked, it is passed by a yes; no prompt, no further gate.         *)
Gate(asks, todo, act, next) ==
  \/ /\ asks
     /\ \E a \in Answers :
          CASE a = "yes"       -> /\ ws' = [ws EXCEPT !.pc = act, !.agreed = @ \cup {act}]
                                  /\ UNCHANGED server
            [] a = "no"        -> Goto(next) /\ UNCHANGED server
            [] a = "cancelled" -> Over(ws, BySignal)
            [] a = "failed"    -> Over(ws, IF Verdict > 1 THEN Verdict ELSE 1)
  \/ /\ ~asks
     /\ ws' = [ws EXCEPT !.pc = IF todo THEN act ELSE next,
                         !.agreed = IF todo THEN @ \cup {act} ELSE @]
     /\ UNCHANGED server

KillGate ==
  /\ At("killGate")
  /\ Gate(AsksToKill, Given("kill-orphans") /\ ws.pids # {}, "killing", "lockGate")
  /\ UNCHANGED <<cmd, sig, vault>>

(* A mutant: the servers there are by now.                                   *)
ServersNow == vault.orphans

(***************************************************************************)
(* The pids of the report are asked to end, and after 5 seconds those still *)
(* there are killed; a signal between the two ends the doctor.              *)
(***************************************************************************)
Victims == ws.pids

KillOrphans ==
  /\ At("killing")
  /\ \E gone \in SUBSET (Victims \cap vault.orphans) :
       vault' = [vault EXCEPT !.orphans = @ \ gone, !.killed = @ \cup gone]
  /\ Goto("surviving")
  /\ UNCHANGED <<cmd, sig, server>>

KillSurvivors ==
  /\ At("surviving")
  /\ vault' = [vault EXCEPT !.orphans = @ \ Victims,
                            !.killed = @ \cup (Victims \cap vault.orphans)]
  /\ Goto("lockGate")
  /\ UNCHANGED <<cmd, sig, server>>

LockGate ==
  /\ At("lockGate")
  /\ Gate(AsksToClear, Given("clear-stale-locks") /\ ws.lock, "clearing", "done")
  /\ UNCHANGED <<cmd, sig, vault>>

(* The file of the report is removed, whoever holds it by now.               *)
ClearLocks ==
  /\ At("clearing")
  /\ vault' = [vault EXCEPT !.lock = "none", !.removed = @ \/ vault.lock # "none"]
  /\ Goto("done")
  /\ UNCHANGED <<cmd, sig, server>>

DoctorEnds ==
  /\ At("done")
  /\ Over(ws, Verdict)
  /\ UNCHANGED <<cmd, sig, vault>>

-----------------------------------------------------------------------------
(* Signals and deadlines.                                                    *)

Running == ~At("ended") /\ ~At("off")
Asking  == \/ At("confirm")
           \/ At("killGate") /\ AsksToKill
           \/ At("lockGate") /\ AsksToClear

(***************************************************************************)
(* SIGINT or SIGTERM for ws: recorded by a prompt, delivered to the two     *)
(* that watch, or its default action.                                       *)
(***************************************************************************)
Signal ==
  /\ Running /\ sig.sent < MaxSignals
  /\ LET next == [sig EXCEPT !.sent = @ + 1] IN
     IF Asking THEN sig' = next /\ UNCHANGED <<ws, server>>
     ELSE IF sig.watched
     THEN /\ sig' = [next EXCEPT !.waiting = TRUE,
                                 !.forward = IF @ = "armed" THEN "waiting" ELSE @]
          /\ UNCHANGED <<ws, server>>
     ELSE sig' = next /\ Over(ws, BySignal)
  /\ UNCHANGED <<cmd, vault>>

(* The context ends, and with it the leader, whom the runtime kills.         *)
Cut == [server EXCEPT !.leader = IF @ = "run" THEN "dead" ELSE @]

(* A mutant: the context given to the client is not the one that is ended.   *)
CancelOther ==
  /\ Running /\ sig.waiting
  /\ sig' = [sig EXCEPT !.waiting = FALSE]
  /\ UNCHANGED <<cmd, ws, server, vault>>

Cancel ==
  /\ Running /\ sig.waiting
  /\ sig' = [sig EXCEPT !.waiting = FALSE, !.ctx = "done"] /\ server' = Cut
  /\ UNCHANGED <<cmd, ws, vault>>

(* predict-bulk-load's 30 seconds, and those of the doctor's dry run.        *)
Deadline ==
  /\ server.leader = "run" /\ Op({"predict", "doctor"}) /\ sig.ctx = "live"
  /\ At("shake") \/ At("work") \/ At("term") \/ At("close")
  /\ sig' = [sig EXCEPT !.ctx = "done"] /\ server' = Cut
  /\ UNCHANGED <<cmd, ws, vault>>

(* The forwarder passes on one signal, to a group that can be looked up.     *)
PassOn ==
  /\ Running /\ sig.forward = "waiting"
  /\ sig' = [sig EXCEPT !.forward = "spent"]
  /\ server' = [server EXCEPT !.told = @ \/ server.leader \in {"run", "dead"}]
  /\ UNCHANGED <<cmd, ws, vault>>

-----------------------------------------------------------------------------
(* The server, and what others do meanwhile.                                 *)

(* It ends when it is asked to, or its input ends, unless it is deaf.        *)
ServerEnds ==
  /\ server.child = "run" /\ ~server.deaf /\ (server.told \/ ~server.stdin)
  /\ server' = [Cut EXCEPT !.child = "gone"]
  /\ UNCHANGED <<cmd, ws, sig, vault>>

ServerCrashes ==
  /\ server.leader = "run"
  /\ server' = [Cut EXCEPT !.child = "gone"]
  /\ UNCHANGED <<cmd, ws, sig, vault>>

(* A lock is taken over; a server of another command comes or goes.          *)
Elsewhere ==
  /\ Op({"doctor"}) /\ Asking
  /\ \/ /\ vault.lock = "stale"
        /\ vault' = [vault EXCEPT !.lock = "held"]
     \/ /\ "p2" \notin vault.orphans
        /\ vault' = [vault EXCEPT !.orphans = @ \cup {"p2"}]
     \/ /\ "p1" \in vault.orphans
        /\ vault' = [vault EXCEPT !.orphans = @ \ {"p1"}]
  /\ UNCHANGED <<cmd, ws, sig, server>>

(* The operator tries the ingest again.                                      *)
Again ==
  /\ At("ended") /\ Op({"ingest"}) /\ vault.runs < MaxRuns
  /\ cmd' \in {c \in Typed({"ingest"}) : c.env = Good}
  /\ ws' = Started /\ sig' = Unhooked /\ server' = NoServer
  /\ vault' = [vault EXCEPT !.runs = @ + 1]

Steps ==
  \/ BadInput \/ BackupVerify \/ Reindex \/ Prepare \/ Confirm \/ DoctorBegin \/ DoctorLooks
  \/ Watch \/ NoClient \/ Spawn \/ Initialized \/ InitializeFails \/ Forward
  \/ CallAnswered \/ CallGarbled \/ CallCut \/ ListTools \/ HealthScore
  \/ Health \/ Verify \/ Wedges \/ Logs \/ Judge
  \/ Term \/ Close \/ Unhook \/ Xrepo \/ Render
  \/ KillGate \/ KillOrphans \/ KillSurvivors \/ LockGate \/ ClearLocks \/ DoctorEnds

SessNext ==
  \/ Steps
  \/ Signal \/ Cancel \/ Deadline \/ PassOn
  \/ ServerEnds \/ ServerCrashes \/ Elsewhere \/ Again

(***************************************************************************)
(* ws takes its steps, those that wait for the server only once it cannot   *)
(* answer, and those that wait for the operator only once they are          *)
(* cancelled.                                                               *)
(***************************************************************************)
Waits == At("work") \/ At("health") \/ Asking
SessFairness ==
  /\ WF_sessVars(Running /\ Steps /\ (Waits => Fails /\ sig.sent > 0))
  /\ WF_sessVars(Cancel)

SessSpec == SessInit /\ [][SessNext]_sessVars /\ SessFairness

-----------------------------------------------------------------------------
(* What a session keeps to.                                                  *)

(***************************************************************************)
(* A command that had a session and returned has reaped its leader, closed  *)
(* the token's pipe, and left no process of the group that was not asked to *)
(* end: Close signals the group while it can still be looked up.            *)
(***************************************************************************)
SessionEndsClean ==
  At("ended") /\ ws.client /\ ws.exit # BySignal =>
    /\ server.leader = "reaped" /\ ~server.pipe
    /\ server.child = "gone" \/ server.told

(***************************************************************************)
(* ws vault status that printed a report did not print what a cancelled     *)
(* context made of a signal: neither a client it did not get, nor a         *)
(* collector it cut short.                                                  *)
(***************************************************************************)
InterruptedSaysNothing == Op({"status"}) /\ ws.said => ~ws.cut

(***************************************************************************)
(* Exit code 0 of status and of the doctor is for a vault every source said *)
(* was well: a server that answered, a score of 70 whatever its parts, the  *)
(* chain of every stream, a recent drill, the gate, no stale lock, no       *)
(* drift, no orphan that pgrep listed.  A source that could not be read     *)
(* never counts as well.  And of backup-verify it is for a recent log whose *)
(* last line, of those before one too long to be read, is a success.        *)
(***************************************************************************)
VerdictHonest == ws.said /\ ws.exit = 0 => ws.sound

(***************************************************************************)
(* An ingest that exits 0, and was not declined, has written its note,      *)
(* however the calls before it ended; and retrying one whose answer was     *)
(* lost does not write the note twice, unless one of the tries was forced.  *)
(***************************************************************************)
IngestOnce ==
  /\ Op({"ingest"}) /\ ws.exit = 0 /\ ws.err # "declined" => vault.copies > 0
  /\ vault.copies > 1 => vault.forced

(***************************************************************************)
(* The doctor kills and removes only what its printed report listed, and    *)
(* only past a gate that was opened; a server started since is not touched. *)
(***************************************************************************)
DoctorDoesAsShown ==
  /\ vault.killed # {} => ws.said /\ vault.killed \subseteq ws.pids /\ "killing" \in ws.agreed
  /\ vault.removed => ws.said /\ ws.lock /\ "clearing" \in ws.agreed
  /\ ws.exit = BySignal /\ "clearing" \notin ws.agreed => ~vault.removed

(***************************************************************************)
(* A command that was sent a signal ends, whatever the server does; but for *)
(* one that waits on the output of a child's descendant.                    *)
(***************************************************************************)
VaultEnds == sig.sent > 0 ~> At("ended") \/ At("wedged")
=============================================================================
