------------------------------- MODULE ProxyTx -------------------------------
(***************************************************************************)
(* The commands of `ws proxy` that drive the proxy container (recreate,     *)
(* update, rebuild, up, restart, down), as processes that call the Docker   *)
(* daemon one request at a time (src/internal/docker/recreate_tx.go,        *)
(* src/internal/docker/docker.go, src/cmd/proxy.go).                        *)
(*                                                                         *)
(* Every request may fail, a process may die between any two requests, the  *)
(* machine may reboot, and nothing keeps two `ws` processes apart.          *)
(***************************************************************************)
EXTENDS DockerDaemon, Naturals, FiniteSets

CONSTANTS Procs,       \* the `ws` processes
          Commands,    \* the commands each of them runs
          Builds,      \* what `docker build` can produce
          FaultModes,  \* how a request can fail
          MaxFaults,   \* bound on failing requests
          MaxCrashes,  \* bound on processes killed and reboots
          MaxEdits,    \* bound on edits of the configuration and the image
          MaxForeign   \* bound on containers that take the free IP

Recreators  == {"recreate", "update", "rebuild"}   \* call proxyRecreate
AllCommands == Recreators \cup {"up", "restart", "down"}

(***************************************************************************)
(* "refused": an error, nothing done.  "late": done, and an error anyway.   *)
(* "deadline": an error because the request's context expired, and every    *)
(* later request on that context fails at once.                             *)
(***************************************************************************)
AllFaultModes == {"refused", "late", "deadline"}

ASSUME CommandsAssumption == Commands \in [Procs -> SUBSET AllCommands]
ASSUME BuildsAssumption   == Builds \subseteq Kinds
ASSUME FaultsAssumption   == FaultModes \subseteq AllFaultModes
ASSUME BoundsAssumption   == /\ MaxFaults \in Nat
                             /\ MaxCrashes \in Nat
                             /\ MaxEdits \in Nat
                             /\ MaxForeign \in Nat

VARIABLES docker,   \* the daemon's state
          env,      \* cfg.ProxyImage and cfg.XrayConfig, as they are now
          cli,      \* the state of each process
          proven,   \* ghost: the container that last passed a health check
          spent     \* what is used of each bound

vars == <<docker, env, cli, proven, spent>>

(***************************************************************************)
(* The commands `docker rm -f`, `network connect`, `start` and `rename` of  *)
(* criticalRollback: the complement of a rollbackState.                     *)
(***************************************************************************)
ManualSteps == {"remove", "connect", "start", "rename"}

Recreating == {"stop", "rename", "disconnect", "undoRename", "undoStart",
               "create", "startNew", "verify", "rbStop", "rbRemove",
               "rbConnect", "rbStart", "rbRename", "rbVerify"}

Labels == Recreating \cup
  {"idle", "build", "rebuildStatus", "inspectPrimary", "inspectBackup",
   "triageRemove", "healConnect", "healStart", "healRename", "preflight",
   "commit", "wait", "upInspect", "upStart", "downStop", "routes",
   "lastRoutes"}

Outcomes == {"none", "killed", "failed", "leftRunning", "restored",
             "rolledBack", "bothUnhealthy", "critical", "recovered",
             "committed", "unhealthy", "serving", "down"}

Orphans == {"no", "stopped", "running"}

Process == [op       : AllCommands,
            pc       : Labels,
            swap     : BOOLEAN,              \* primaryExists
            old      : Ctr \cup {None},      \* the container being replaced
            new      : Ctr \cup {None},      \* the one this process created
            dead     : BOOLEAN,              \* the current context expired
            todo     : SUBSET ManualSteps,
            out      : Outcomes,             \* of the last command
            served   : BOOLEAN,              \* ghost: a proxy served at Begin
            orphan   : Orphans,              \* ghost: only a backup at Begin
            hit      : BOOLEAN]              \* ghost: a request met an error, or
                                             \* the IP in foreign hands

TypeOK ==
  /\ docker \in World
  /\ env \in [image : Kinds \cup {"none"}, config : {"none", "bad", "good"}]
  /\ cli \in [Procs -> Process]
  /\ proven \in Ctr \cup {None}
  /\ spent \in [faults : Nat, crashes : Nat, edits : Nat, foreign : Nat]

(***************************************************************************)
(* A proxy runs, and is known to be good; or the machine has none yet.      *)
(***************************************************************************)
Fresh == [name |-> [n \in Names |-> None], running |-> {}, attached |-> {},
          sick |-> {}, made |-> {}, kind |-> [c \in Ctr |-> "good"],
          foreign |-> FALSE]

Init ==
  /\ \/ docker = Fresh /\ proven = None
     \/ \E c \in Ctr :
          /\ docker = [Fresh EXCEPT !.name[Primary] = c, !.running = {c},
                                    !.attached = {c}, !.made = {c}]
          /\ proven = c
  /\ env = [image |-> "good", config |-> "good"]
  /\ cli = [p \in Procs |->
              [op |-> "down", pc |-> "idle", swap |-> FALSE, old |-> None,
               new |-> None, dead |-> FALSE, todo |-> {}, out |-> "none",
               served |-> FALSE, orphan |-> "no", hit |-> FALSE]]
  /\ spent = [faults |-> 0, crashes |-> 0, edits |-> 0, foreign |-> 0]

-----------------------------------------------------------------------------
(* One request of process p: the answers it can get to an operation whose    *)
(* answer is res when nothing goes wrong.                                    *)

Got(r, w, x, n) == [reply |-> r, w |-> w, dead |-> x, cost |-> n]

Faulty(res) ==
  {Got("error", docker, FALSE, 1) : m \in FaultModes \cap {"refused"}} \cup
  {Got("error", res.w, FALSE, 1)  : m \in FaultModes \cap {"late"}} \cup
  {Got("error", docker, TRUE, 1)  : m \in FaultModes \cap {"deadline"}}

Answers(p, res) ==
  IF cli[p].dead THEN {Got("error", docker, TRUE, 0)}
  ELSE {Got(res.reply, res.w, FALSE, 0)} \cup
       (IF spent.faults < MaxFaults THEN Faulty(res) ELSE {})

(***************************************************************************)
(* Process p receives a and becomes c.  proven is left to the caller.       *)
(***************************************************************************)
Receive(p, a, c) ==
  /\ docker' = a.w
  /\ spent'  = [spent EXCEPT !.faults = @ + a.cost]
  /\ cli'    = [cli EXCEPT ![p] = [c EXCEPT
                                   !.hit = @ \/ a.reply = "error" \/ docker.foreign]]
  /\ UNCHANGED env

Step(p, a, c) == Receive(p, a, c) /\ UNCHANGED proven

(* The process goes on, in the same context or in a fresh one, or ends.      *)
Goto(p, a, l) == [cli[p] EXCEPT !.pc = l, !.dead = a.dead]
Renew(p, l)   == [cli[p] EXCEPT !.pc = l, !.dead = FALSE]
End(p, o)     == [cli[p] EXCEPT !.pc = "idle", !.dead = FALSE, !.out = o]

Inspect(n) == Answer(IF docker.name[n] = None THEN "missing" ELSE "ok", docker)

Gone == {"ok", "missing"}   \* err == nil || IsNotFound(err)

-----------------------------------------------------------------------------
(* Starting a command.                                                       *)

(***************************************************************************)
(* A command that may create a container needs an identity left for it.     *)
(***************************************************************************)
IdentitiesLeft(op) ==
  op = "down" \/ Cardinality(Ctr \ docker.made) >
                 Cardinality({q \in Procs : cli[q].pc # "idle"})

FirstLabel(op) ==
  CASE op = "recreate" -> "inspectPrimary"
    [] op \in {"update", "rebuild"} -> "build"
    [] op = "up" -> "upInspect"
    [] OTHER -> "downStop"

Orphan ==
  IF docker.name[Primary] # None \/ docker.name[Backup] = None THEN "no"
  ELSE IF docker.name[Backup] \in docker.running THEN "running" ELSE "stopped"

Begin(p) ==
  \E op \in Commands[p] :
    /\ cli[p].pc = "idle"
    /\ IdentitiesLeft(op)
    /\ cli' = [cli EXCEPT ![p] =
         [op |-> op, pc |-> FirstLabel(op), swap |-> FALSE, old |-> None,
          new |-> None, dead |-> FALSE, todo |-> {}, out |-> "none",
          served |-> \E c \in Ctr : Serving(docker, c),
          orphan |-> Orphan,
          hit |-> FALSE]]
    /\ UNCHANGED <<docker, env, proven, spent>>

(***************************************************************************)
(* BuildProxyImage: the build fails, or leaves a new image under the tag.   *)
(***************************************************************************)
Build(p) ==
  /\ cli[p].pc = "build"
  /\ \/ \E k \in Builds :
          /\ env' = [env EXCEPT !.image = k]
          /\ cli' = [cli EXCEPT ![p].pc = IF cli[p].op = "update"
                                         THEN "inspectPrimary"
                                         ELSE "rebuildStatus"]
     \/ cli' = [cli EXCEPT ![p] = End(p, "failed")] /\ UNCHANGED env
  /\ UNCHANGED <<docker, proven, spent>>

(***************************************************************************)
(* `rebuild` recreates only a proxy that runs (an error reads as: not       *)
(* running), and waits for health in both cases.                            *)
(***************************************************************************)
RebuildStatus(p) ==
  /\ cli[p].pc = "rebuildStatus"
  /\ \E a \in Answers(p, Inspect(Primary)) :
       Step(p, a, Renew(p, IF /\ a.reply = "ok"
                              /\ docker.name[Primary] \in docker.running
                           THEN "inspectPrimary" ELSE "wait"))

-----------------------------------------------------------------------------
(* proxyRecreate: classification and triage of a backup left behind.         *)

InspectPrimary(p) ==
  /\ cli[p].pc = "inspectPrimary"
  /\ \E a \in Answers(p, Inspect(Primary)) :
       Step(p, a, IF a.reply = "error" THEN End(p, "failed")
                  ELSE [Goto(p, a, "inspectBackup") EXCEPT
                          !.swap = (a.reply = "ok"),
                          !.old  = docker.name[Primary]])

(* Mutant: a backup without a primary is not restored.                       *)
InspectBackupUnhealed(p) ==
  /\ cli[p].pc = "inspectBackup"
  /\ \E a \in Answers(p, Inspect(Backup)) :
       Step(p, a,
         CASE a.reply = "error"   -> End(p, "failed")
           [] a.reply = "missing" -> Goto(p, a, "preflight")
           [] OTHER -> Goto(p, a, IF cli[p].swap THEN "triageRemove"
                                  ELSE "preflight"))

InspectBackup(p) ==
  /\ cli[p].pc = "inspectBackup"
  /\ \E a \in Answers(p, Inspect(Backup)) :
       Step(p, a,
         CASE a.reply = "error"   -> End(p, "failed")
           [] a.reply = "missing" -> Goto(p, a, "preflight")
           [] OTHER -> Goto(p, a, IF cli[p].swap THEN "triageRemove"
                                  ELSE "healConnect"))

(* Case A: the primary is there, so the backup is garbage.                   *)
TriageRemove(p) ==
  /\ cli[p].pc = "triageRemove"
  /\ \E a \in Answers(p, DockerRemove(docker, Backup)) :
       Step(p, a, IF a.reply \in Gone THEN Goto(p, a, "preflight")
                  ELSE End(p, "failed"))

(* Case B: the primary is gone, so the backup is the last known good.        *)
HealConnect(p) ==
  /\ cli[p].pc = "healConnect"
  /\ \E a \in Answers(p, DockerConnect(docker, Backup)) :
       Step(p, a, IF a.reply = "ok" THEN Goto(p, a, "healStart")
                  ELSE End(p, "failed"))

ConfigOk == env.config = "good"

HealStart(p) ==
  /\ cli[p].pc = "healStart"
  /\ \E a \in Answers(p, DockerStart(docker, docker.name[Backup], ConfigOk)) :
       Step(p, a, IF a.reply = "ok" THEN Goto(p, a, "healRename")
                  ELSE End(p, "failed"))

HealRename(p) ==
  /\ cli[p].pc = "healRename"
  /\ \E a \in Answers(p, DockerRename(docker, Backup, Primary)) :
       Step(p, a, IF a.reply # "ok" THEN End(p, "failed")
                  ELSE IF cli[p].op = "rebuild" THEN Renew(p, "wait")
                  ELSE End(p, "recovered"))

-----------------------------------------------------------------------------
(* proxyCreatePreflight and proxyCreateAndStart, shared with ProxyUp.        *)

InputsThere == env.image # "none" /\ env.config # "none"

(***************************************************************************)
(* Image, configuration, network, and no foreign holder of the IP.  A       *)
(* failing network inspection skips the last of the four.                   *)
(***************************************************************************)
Preflight(p) ==
  /\ cli[p].pc = "preflight"
  /\ LET ok == InputsThere /\ ~docker.foreign IN
     \E a \in Answers(p, Answer(IF ok THEN "ok" ELSE "refused", docker)) :
       \/ /\ a.reply # "ok"
          /\ Step(p, a, End(p, "failed"))
       \/ /\ \/ a.reply = "ok"
             \/ a.reply = "error" /\ InputsThere /\ ~cli[p].dead
          /\ Step(p, a, Goto(p, a, IF cli[p].swap THEN "stop" ELSE "create"))

(* A new container failed: roll back, if there is something to roll back to. *)
NewFailed(p, o) ==
  IF cli[p].swap THEN [Renew(p, "rbStop") EXCEPT !.todo = ManualSteps]
  ELSE End(p, o)

(* Mutant: the image is not looked up again.                                 *)
CreateBlindly(p) ==
  /\ cli[p].pc = "create"
  /\ \E c \in Ctr \ docker.made :
       \E a \in Answers(p, DockerCreate(docker, Primary, c, env.image)) :
         Step(p, a, IF a.reply = "ok"
                    THEN [Goto(p, a, "startNew") EXCEPT !.new = c]
                    ELSE NewFailed(p, "failed"))

Create(p) ==
  /\ cli[p].pc = "create"
  /\ \E c \in Ctr \ docker.made :
       \E a \in Answers(p, IF env.image = "none" THEN Answer("missing", docker)
                           ELSE DockerCreate(docker, Primary, c, env.image)) :
         Step(p, a, IF a.reply = "ok"
                    THEN [Goto(p, a, "startNew") EXCEPT !.new = c]
                    ELSE NewFailed(p, "failed"))

(* ProxyUp fixes the routes of the workspaces before anything waits.         *)
AfterStart(p) == IF cli[p].op \in {"up", "restart"} THEN "routes" ELSE "wait"

(* Mutant: the commit does not wait for the health check.                    *)
StartNewUnverified(p) ==
  /\ cli[p].pc = "startNew"
  /\ \E a \in Answers(p, DockerStart(docker, cli[p].new, ConfigOk)) :
       Step(p, a, IF a.reply # "ok" THEN NewFailed(p, "failed")
                  ELSE Renew(p, IF cli[p].swap THEN "commit" ELSE AfterStart(p)))

(* The start is by identity, every other request by name.                    *)
StartNew(p) ==
  /\ cli[p].pc = "startNew"
  /\ \E a \in Answers(p, DockerStart(docker, cli[p].new, ConfigOk)) :
       Step(p, a, IF a.reply # "ok" THEN NewFailed(p, "failed")
                  ELSE Renew(p, IF cli[p].swap THEN "verify" ELSE AfterStart(p)))

-----------------------------------------------------------------------------
(* proxyRecreate: the swap.                                                  *)

StopOld(p) ==
  /\ cli[p].pc = "stop"
  /\ \E a \in Answers(p, DockerStop(docker, Primary)) :
       Step(p, a, IF a.reply \in Gone THEN Goto(p, a, "rename")
                  ELSE End(p, "leftRunning"))

(* Mutant: the stopped container is not started again.                       *)
RenameOldNoUndo(p) ==
  /\ cli[p].pc = "rename"
  /\ \E a \in Answers(p, DockerRename(docker, Primary, Backup)) :
       Step(p, a, IF a.reply = "ok" THEN Goto(p, a, "disconnect")
                  ELSE End(p, "restored"))

RenameOld(p) ==
  /\ cli[p].pc = "rename"
  /\ \E a \in Answers(p, DockerRename(docker, Primary, Backup)) :
       Step(p, a, Goto(p, a, IF a.reply = "ok" THEN "disconnect"
                             ELSE "undoStart"))

DisconnectOld(p) ==
  /\ cli[p].pc = "disconnect"
  /\ \E a \in Answers(p, DockerDisconnect(docker, Backup)) :
       Step(p, a, Goto(p, a, IF a.reply = "ok" THEN "create"
                             ELSE "undoRename"))

(* The two undo requests ignore their errors and share the expired context. *)
UndoRename(p) ==
  /\ cli[p].pc = "undoRename"
  /\ \E a \in Answers(p, DockerRename(docker, Backup, Primary)) :
       Step(p, a, Goto(p, a, "undoStart"))

(* Mutant: the start is tried until it works, in the same context.           *)
UndoStartRetried(p) ==
  /\ cli[p].pc = "undoStart"
  /\ \E a \in Answers(p, DockerStart(docker, docker.name[Primary], ConfigOk)) :
       Step(p, a, IF a.reply = "error" THEN Goto(p, a, "undoStart")
                  ELSE End(p, "restored"))

UndoStart(p) ==
  /\ cli[p].pc = "undoStart"
  /\ \E a \in Answers(p, DockerStart(docker, docker.name[Primary], ConfigOk)) :
       Step(p, a, End(p, "restored"))

(***************************************************************************)
(* verifyHealthy on the container that has the primary's name now.  Without *)
(* a HEALTHCHECK a running container passes.                                *)
(***************************************************************************)
Passes(c) ==
  c \in docker.running /\ (c \in docker.sick => docker.kind[c] = "blind")

Health(p) ==
  Answers(p, Answer(IF Passes(docker.name[Primary]) THEN "ok" ELSE "refused",
                    docker))

Checked(p, a, yes, no) ==
  /\ Receive(p, a, IF a.reply = "ok" THEN yes ELSE no)
  /\ proven' = IF a.reply = "ok" THEN docker.name[Primary] ELSE proven

(* Mutant: the verdict of the health check is not looked at.                 *)
VerifyNewIgnored(p) ==
  /\ cli[p].pc = "verify"
  /\ \E a \in Health(p) :
       Checked(p, a, Renew(p, "commit"), Renew(p, "commit"))

VerifyNew(p) ==
  /\ cli[p].pc = "verify"
  /\ \E a \in Health(p) :
       Checked(p, a, Renew(p, "commit"), NewFailed(p, "failed"))

(* COMMIT: the outcome is the same whether the backup goes or not.           *)
Commit(p) ==
  /\ cli[p].pc = "commit"
  /\ \E a \in Answers(p, DockerRemove(docker, Backup)) :
       Step(p, a, IF cli[p].op = "rebuild" THEN Renew(p, "wait")
                  ELSE End(p, "committed"))

-----------------------------------------------------------------------------
(* rollbackToBackup, in a context of its own.                                *)

Critical(p) == End(p, "critical")

(* Mutant: progress is not recorded in the rollbackState.                    *)
DidUnrecorded(p, a, s, l) == Goto(p, a, l)

(* The step is done: it is no longer among the manual ones.                  *)
Did(p, a, s, l) == [Goto(p, a, l) EXCEPT !.todo = @ \ {s}]

RbStop(p) ==
  /\ cli[p].pc = "rbStop"
  /\ \E a \in Answers(p, DockerStop(docker, Primary)) :
       Step(p, a, Goto(p, a, "rbRemove"))

(* Mutants: the wrong container is removed; the IP is not reserved again.    *)
RbRemoveBackup(p) ==
  /\ cli[p].pc = "rbRemove"
  /\ \E a \in Answers(p, DockerRemove(docker, Backup)) :
       Step(p, a, IF a.reply \in Gone THEN Did(p, a, "remove", "rbConnect")
                  ELSE Critical(p))

RbRemoveOnly(p) ==
  /\ cli[p].pc = "rbRemove"
  /\ \E a \in Answers(p, DockerRemove(docker, Primary)) :
       Step(p, a, IF a.reply \in Gone THEN Did(p, a, "remove", "rbStart")
                  ELSE Critical(p))

RbRemove(p) ==
  /\ cli[p].pc = "rbRemove"
  /\ \E a \in Answers(p, DockerRemove(docker, Primary)) :
       Step(p, a, IF a.reply \in Gone THEN Did(p, a, "remove", "rbConnect")
                  ELSE Critical(p))

RbConnect(p) ==
  /\ cli[p].pc = "rbConnect"
  /\ \E a \in Answers(p, DockerConnect(docker, Backup)) :
       Step(p, a, IF a.reply = "ok" THEN Did(p, a, "connect", "rbStart")
                  ELSE Critical(p))

RbStart(p) ==
  /\ cli[p].pc = "rbStart"
  /\ \E a \in Answers(p, DockerStart(docker, docker.name[Backup], ConfigOk)) :
       Step(p, a, IF a.reply = "ok" THEN Did(p, a, "start", "rbRename")
                  ELSE Critical(p))

RbRename(p) ==
  /\ cli[p].pc = "rbRename"
  /\ \E a \in Answers(p, DockerRename(docker, Backup, Primary)) :
       Step(p, a, IF a.reply = "ok"
                  THEN [Renew(p, "rbVerify") EXCEPT !.todo = @ \ {"rename"}]
                  ELSE Critical(p))

RbVerify(p) ==
  /\ cli[p].pc = "rbVerify"
  /\ \E a \in Health(p) :
       Checked(p, a, End(p, "rolledBack"), End(p, "bothUnhealthy"))

-----------------------------------------------------------------------------
(* ProxyUp, ProxyDown, ProxyRestart, and the wait for health that ends `up`, *)
(* `restart`, `rebuild` and a cold create.                                   *)

(* Any error of the inspection, not only "not found", leads to a create.     *)
UpInspect(p) ==
  /\ cli[p].pc = "upInspect"
  /\ \E a \in Answers(p, Inspect(Primary)) :
       Step(p, a,
         IF a.reply # "ok" THEN Goto(p, a, "preflight")
         ELSE IF docker.name[Primary] \in docker.running THEN Renew(p, "routes")
         ELSE Goto(p, a, "upStart"))

UpStart(p) ==
  /\ cli[p].pc = "upStart"
  /\ \E a \in Answers(p, DockerStart(docker, docker.name[Primary], ConfigOk)) :
       Step(p, a, IF a.reply = "ok" THEN Renew(p, "routes") ELSE End(p, "failed"))

DownStop(p) ==
  /\ cli[p].pc = "downStop"
  /\ \E a \in Answers(p, DockerStop(docker, Primary)) :
       Step(p, a, IF a.reply \notin Gone THEN End(p, "leftRunning")
                  ELSE IF cli[p].op = "restart" THEN Renew(p, "upInspect")
                  ELSE End(p, "down"))

Wait(p) ==
  /\ cli[p].pc = "wait"
  /\ \E a \in Health(p) :
       Checked(p, a, IF cli[p].op = "up" THEN Renew(p, "lastRoutes")
                     ELSE End(p, "serving"),
               End(p, "unhealthy"))

(***************************************************************************)
(* ProxyFixRoutes reads the network and runs `ip route` in the workspaces.  *)
(* A read that fails ends the command, the proxy running or not; the passes *)
(* of a commit and of a rollback only warn, and are left out.  `up` makes a *)
(* second pass after the wait, which --no-wait leaves out.                  *)
(***************************************************************************)
FixRoutes(p) ==
  /\ cli[p].pc \in {"routes", "lastRoutes"}
  /\ \E a \in Answers(p, Answer("ok", docker)) :
       \/ a.reply # "ok" /\ Step(p, a, End(p, "failed"))
       \/ /\ a.reply = "ok"
          /\ \/ cli[p].pc = "lastRoutes" /\ Step(p, a, End(p, "serving"))
             \/ cli[p].pc = "routes" /\ Step(p, a, Renew(p, "wait"))
             \/ /\ cli[p].pc = "routes" /\ cli[p].op = "up"
                /\ Step(p, a, Renew(p, "lastRoutes"))

-----------------------------------------------------------------------------
(* What the processes do not decide.                                         *)

Spend(b) == spent' = [spent EXCEPT ![b] = @ + 1]

(* Ctrl-C, SIGKILL, a closed terminal: no command of these catches them.     *)
Kill(p) ==
  /\ cli[p].pc # "idle"
  /\ spent.crashes < MaxCrashes
  /\ cli' = [cli EXCEPT ![p] = End(p, "killed")]
  /\ Spend("crashes")
  /\ UNCHANGED <<docker, env, proven>>

Reboot ==
  /\ spent.crashes < MaxCrashes
  /\ docker' = DockerReboot(docker, ConfigOk)
  /\ cli' = [p \in Procs |-> End(p, "killed")]
  /\ Spend("crashes")
  /\ UNCHANGED <<env, proven>>

(* The operator edits the configuration, or prunes the image.                *)
EditInputs ==
  /\ spent.edits < MaxEdits
  /\ \/ \E v \in {"none", "bad", "good"} : env' = [env EXCEPT !.config = v]
     \/ env' = [env EXCEPT !.image = "none"]
  /\ Spend("edits")
  /\ UNCHANGED <<docker, cli, proven>>

(* A workspace container joins the network and is given the free IP.         *)
ForeignJoins ==
  /\ spent.foreign < MaxForeign
  /\ ~docker.foreign /\ Holders(docker) = {}
  /\ docker' = [docker EXCEPT !.foreign = TRUE]
  /\ Spend("foreign")
  /\ UNCHANGED <<env, cli, proven>>

ForeignLeaves ==
  /\ docker.foreign
  /\ docker' = [docker EXCEPT !.foreign = FALSE]
  /\ UNCHANGED <<env, cli, proven, spent>>

-----------------------------------------------------------------------------
Recreate(p) ==
  \/ InspectPrimary(p) \/ InspectBackup(p) \/ TriageRemove(p)
  \/ HealConnect(p) \/ HealStart(p) \/ HealRename(p)
  \/ Preflight(p) \/ StopOld(p) \/ RenameOld(p) \/ DisconnectOld(p)
  \/ UndoRename(p) \/ UndoStart(p)
  \/ Create(p) \/ StartNew(p) \/ VerifyNew(p) \/ Commit(p)

Rollback(p) ==
  \/ RbStop(p) \/ RbRemove(p) \/ RbConnect(p) \/ RbStart(p) \/ RbRename(p)
  \/ RbVerify(p)

UpDown(p) ==
  \/ Build(p) \/ RebuildStatus(p)
  \/ UpInspect(p) \/ UpStart(p) \/ DownStop(p) \/ Wait(p)
  \/ FixRoutes(p)

Advance(p) == Recreate(p) \/ Rollback(p) \/ UpDown(p)

Surroundings == Reboot \/ EditInputs \/ ForeignJoins \/ ForeignLeaves

Next == (\E p \in Procs : Begin(p) \/ Advance(p) \/ Kill(p)) \/ Surroundings

Spec == Init /\ [][Next]_vars

(***************************************************************************)
(* Every request has a deadline, so a process that lives takes its next     *)
(* step; a process that is never started again owes nothing.                *)
(***************************************************************************)
FairSpec == Spec /\ \A p \in Procs : WF_vars(Advance(p))
-----------------------------------------------------------------------------
(* Properties.                                                               *)

Ended(p, outs) == cli[p].pc = "idle" /\ cli[p].out \in outs

(***************************************************************************)
(* While a swap is under way, up to and including the commit, the container *)
(* it replaces exists: whatever fails, whoever else runs `up`, `restart` or *)
(* `down`, and wherever the process is killed (proxyRecreate, "the previous *)
(* container is preserved as a backup until the new one is verified         *)
(* healthy").                                                               *)
(***************************************************************************)
OldKept ==
  \A p \in Procs :
    (cli[p].swap /\ cli[p].pc \in Recreating \cup {"commit"})
      => cli[p].old \in Existing(docker)

(***************************************************************************)
(* "... -- rolled back ..." from rollbackToBackup: the old container has    *)
(* its name back, holds the IP, passes the health check, and no backup is   *)
(* left (docs/proxy-runbook.md, the final line of a recreate).              *)
(***************************************************************************)
RolledBackServes ==
  \A p \in Procs : Ended(p, {"rolledBack"}) =>
    /\ docker.name[Primary] = cli[p].old
    /\ docker.name[Backup] = None
    /\ cli[p].old \in Holders(docker)
    /\ Passes(cli[p].old)

(***************************************************************************)
(* "recreate committed -- NEW proxy now serving <IP>": the container this   *)
(* command created has the name, holds the IP and passes the health check.  *)
(***************************************************************************)
CommittedServes ==
  \A p \in Procs : Ended(p, {"committed"}) =>
    /\ docker.name[Primary] = cli[p].new
    /\ cli[p].new # cli[p].old
    /\ cli[p].new \in Holders(docker)
    /\ Passes(cli[p].new)

(***************************************************************************)
(* The commands criticalRollback prints, run in its order, each succeed and *)
(* leave the old container holding the IP under the primary's name: "only   *)
(* the manual-recovery commands still required and never a command that     *)
(* would now fail".  While a foreign container holds the IP none can work.  *)
(***************************************************************************)
ManualRecovery(p) ==
  LET do(s, res, w) == IF s \in cli[p].todo THEN res ELSE Answer("ok", w)
      r1 == do("remove",  DockerRemove(docker, Primary), docker)
      r2 == do("connect", DockerConnect(r1.w, Backup), r1.w)
      r3 == do("start",   DockerStart(r2.w, r2.w.name[Backup], ConfigOk), r2.w)
      r4 == do("rename",  DockerRename(r3.w, Backup, Primary), r3.w)
  IN /\ r1.reply \in Gone /\ r2.reply = "ok" /\ r3.reply = "ok"
     /\ r4.reply = "ok"
     /\ r4.w.name[Primary] = cli[p].old
     /\ cli[p].old \in Holders(r4.w)

CriticalExact ==
  \A p \in Procs : (Ended(p, {"critical"}) /\ ~docker.foreign)
                     => ManualRecovery(p)

(***************************************************************************)
(* A recreate that began with a serving proxy and fails, and does not say   *)
(* CRITICAL or that both containers are unhealthy, leaves a container       *)
(* running on the IP (docs/proxy-runbook.md, "never leaves a dead proxy").  *)
(* If another container took the IP while it was free, nothing can.         *)
(***************************************************************************)
NeverDead ==
  \A p \in Procs :
    (/\ Ended(p, {"failed", "leftRunning", "restored", "rolledBack"})
     /\ cli[p].op \in Recreators /\ cli[p].served
     /\ spent.foreign = 0)
      => Holders(docker) # {}

(***************************************************************************)
(* A container that passed a health check is deleted only once another one  *)
(* passes (docs/proxy-runbook.md, "preserved ... until the new container is *)
(* verified healthy"), over any sequence of commands.                       *)
(***************************************************************************)
KnownGoodKept == proven # None => proven \in Existing(docker)

(***************************************************************************)
(* The same as long as no request failed and nothing was killed, with       *)
(* images and configurations that do not serve, and the IP taken by others. *)
(***************************************************************************)
CalmKnownGoodKept ==
  (spent.faults = 0 /\ spent.crashes = 0) => KnownGoodKept

(***************************************************************************)
(* A recreate that finds a backup and no primary, meets no error of the     *)
(* daemon and no foreign holder of the IP, restores the backup              *)
(* (docs/proxy-runbook.md, "self-heals").                                   *)
(***************************************************************************)
Heals(found) ==
  \A p \in Procs :
    (/\ cli[p].pc = "idle" /\ cli[p].op = "recreate"
     /\ cli[p].orphan \in found /\ ~cli[p].hit)
      => cli[p].out \in {"recovered", "none", "killed"}

SelfHeals == Heals({"stopped", "running"})

(***************************************************************************)
(* The same for a backup that does not run when the recreate begins, which  *)
(* is what every interruption of the forward half of a swap leaves.         *)
(***************************************************************************)
SelfHealsStopped == Heals({"stopped"})

(***************************************************************************)
(* A command that is not killed ends, whatever fails and whatever another   *)
(* command does meanwhile.                                                  *)
(***************************************************************************)
EveryCommandEnds ==
  \A p \in Procs : cli[p].pc # "idle" ~> cli[p].pc = "idle"
=============================================================================
