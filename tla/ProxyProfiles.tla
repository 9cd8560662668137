---------------------------- MODULE ProxyProfiles ----------------------------
(***************************************************************************)
(* The named xray configurations of `ws proxy profile`: the directory        *)
(* ~/.config/xray, whose config.json is a symlink to profiles/<name>.json,   *)
(* the commands that write it, and the container that reads it when it       *)
(* starts (src/internal/xray, src/cmd/proxy_profile.go, src/cmd/proxy.go).   *)
(*                                                                         *)
(* One action is one read or one atomic write of the directory, or one       *)
(* request to Docker; ProxyTx has the requests that create the container.     *)
(***************************************************************************)
EXTENDS FiniteSets, Naturals

CONSTANTS Names,        \* the names of profiles
          Primary,      \* the one the migration uses
          None,         \* no file
          Broken,       \* a symlink to nowhere, where a file should be
          Nodes,        \* the remote nodes a proxy URI can name
          BadNodes,     \* those whose configuration xray rejects
          Procs,        \* the `ws` processes
          Ops,          \* the commands they run
          Starts,       \* the layouts the directory can be in at first
          MaxCommands,  \* bound on commands
          MaxFaults,    \* bound on processes killed and requests failed
          MaxEdits      \* bound on edits by hand

Regular == "config.json"   \* config.json, when it is a file of its own

ProfileOps == {"list", "add", "use", "rm", "regenerate", "upgrade"}
AllOps     == ProfileOps \cup {"init", "debug", "up", "down"}

Content == [node    : Nodes,
            routing : {"default", "custom"},
            log     : {"warning", "debug"},
            tproxy  : BOOLEAN]   \* the inbound is the canonical one

ASSUME NamesAssumption == /\ Primary \in Names
                          /\ Regular \notin Names
                          /\ None \notin Names \cup {Regular}
ASSUME NodesAssumption == /\ Nodes # {}
                          /\ BadNodes \subseteq Nodes
                          /\ {None, Broken} \cap Content = {}
                          /\ Broken # None
ASSUME OpsAssumption   == Ops \subseteq AllOps
ASSUME StartsAssumption == Starts \subseteq {"fresh", "legacy", "migrated"}
ASSUME BoundsAssumption == {MaxCommands, MaxFaults, MaxEdits} \subseteq Nat

VARIABLES config,     \* a profile's name (a symlink), Regular, or None
          files,      \* the file of each profile, and of a regular config.json
          stages,     \* the files staged for xray -test
          container,  \* created, running, the form of its bind, and what it
                      \* read when it started
          cli,        \* the state of each process
          owed,       \* ghost: the nodes nobody asked to forget
          ungated,    \* ghost: the nodes written without xray -test
          stale,      \* ghost: something changed the active profile that
                      \*        does not promise to reload it
          overlap,    \* ghost: two processes have been at work at once
          spent       \* what is used of each bound

vars == <<config, files, stages, container, cli, owed, ungated, stale,
          overlap, spent>>

Files == Names \cup {Regular}

Labels == {"idle", "migLook", "migPrimary", "migMove", "migLink",
           "addLook", "addReady", "addBlind", "addStage", "addTest",
           "addCommit", "useLook", "useTest", "useSwap", "rmCheck", "rmAgain",
           "rmRemove", "regRead", "regWrite", "upList", "upRead", "upWrite",
           "dbgRead", "dbgWrite", "dbgStatus", "initResolve", "initWrite",
           "stop", "start"}

Process == [op   : AllOps,
            pc   : Labels,
            name : Names,
            node : Nodes,
            flag : BOOLEAN,   \* add --force, use --no-reload, debug on
            path : Files,     \* what a write is to land on
            data : Content \cup {None},
            todo : SUBSET Names]

Idle == [op |-> "list", pc |-> "idle", name |-> Primary,
         node |-> CHOOSE n \in Nodes : TRUE, flag |-> FALSE,
         path |-> Regular, data |-> None, todo |-> {}]

TypeOK ==
  /\ config \in Files \cup {None}
  /\ files \in [Files -> Content \cup {None, Broken}]
  /\ stages \subseteq [name : Names, by : Procs]
  /\ container \in [made : BOOLEAN, running : BOOLEAN, wholeDir : BOOLEAN,
                    loaded : Content \cup {None, Broken}]
  /\ cli \in [Procs -> Process]
  /\ owed \subseteq Nodes
  /\ ungated \subseteq [node : Nodes, live : BOOLEAN]
  /\ stale \in BOOLEAN
  /\ overlap \in BOOLEAN
  /\ spent \in [commands : 0..MaxCommands, faults : 0..MaxFaults,
                edits : 0..MaxEdits]
  /\ (config = Regular) <=> (files[Regular] # None)

Fresh(n, t) == [node |-> n, routing |-> "default", log |-> "warning",
                tproxy |-> t]

(* What a reader of config.json gets.                                        *)
Live == IF config = None THEN None ELSE files[config]

Accepted(c) == c \in Content /\ c.node \notin BadNodes

(***************************************************************************)
(* No directory yet; a regular config.json that an older ws wrote, with a    *)
(* container bound to that one file or to the directory; or config.json ->   *)
(* profiles/primary.json.                                                   *)
(***************************************************************************)
Init ==
  /\ \E s \in Starts, n \in Nodes \ BadNodes, w \in BOOLEAN :
       LET at == CASE s = "fresh" -> None
                   [] s = "legacy" -> Regular
                   [] s = "migrated" -> Primary IN
       /\ s # "legacy" => w
       /\ config = at
       /\ files = [f \in Files |->
                     IF f = at THEN Fresh(n, s = "migrated") ELSE None]
       /\ container = [made |-> at # None, running |-> at # None,
                       wholeDir |-> w,
                       loaded |-> IF at = None THEN None ELSE files[at]]
       /\ owed = IF at = None THEN {} ELSE {n}
  /\ stages = {} /\ ungated = {}
  /\ cli = [p \in Procs |-> Idle]
  /\ stale = FALSE /\ overlap = FALSE
  /\ spent = [commands |-> 0, faults |-> 0, edits |-> 0]

-----------------------------------------------------------------------------
(* What the actions of a process are made of.                                *)

At(p, l)   == cli[p].pc = l
Goto(p, l) == cli' = [cli EXCEPT ![p].pc = l]
End(p)     == cli' = [cli EXCEPT ![p] = Idle]

ghosts == <<owed, ungated, stale>>
disk   == <<config, files, stages>>

(* Process p goes on or ends and has only read.                              *)
Read == UNCHANGED <<disk, container, ghosts, overlap, spent>>

(***************************************************************************)
(* fsutil.WriteFile: a temporary file renamed over the path, which replaces  *)
(* whatever is there, a symlink included.                                   *)
(***************************************************************************)
WriteFile(f, c) ==
  /\ files' = [files EXCEPT ![f] = c]
  /\ config' = IF f = Regular THEN Regular ELSE config

(* fsutil.AtomicSymlink(profiles/<n>.json, config.json).                     *)
AtomicSymlink(n) ==
  /\ config' = n
  /\ files' = [files EXCEPT ![Regular] = None]

(* Where config.json leads, or may lead once a migration under way ends.      *)
Leads == IF config = None THEN Files ELSE {config}

NodeAt(f) == IF files[f] \in Content THEN {files[f].node} ELSE {}

(* `docker exec xray -test` of a configuration: the outcomes.  A container    *)
(* that restarts over and over may be caught between two runs.               *)
XrayTest(c) ==
  IF ~container.running \/ ~container.wholeDir THEN {FALSE}
  ELSE {Accepted(c)} \cup IF Accepted(container.loaded) THEN {} ELSE {FALSE}

-----------------------------------------------------------------------------
(* Starting a command.                                                       *)

FirstLabel(op) ==
  CASE op \in ProfileOps -> "migLook"
    [] op = "init"       -> "initResolve"
    [] op = "debug"      -> "dbgRead"
    [] op = "up"         -> "start"
    [] op = "down"       -> "stop"

(* The arguments a command takes; the others stay as in Idle.                *)
Takes(op, name, node, flag) ==
  /\ op \notin {"add", "use", "rm", "regenerate"} => name = Idle.name
  /\ op \notin {"add", "init"} => node = Idle.node
  /\ op \notin {"add", "use", "debug"} => ~flag

Begin(p) ==
  /\ At(p, "idle")
  /\ spent.commands < MaxCommands
  /\ \E op \in Ops, name \in Names, node \in Nodes, flag \in BOOLEAN :
       /\ Takes(op, name, node, flag)
       /\ cli' = [cli EXCEPT ![p] = [Idle EXCEPT !.op = op, !.name = name,
                                     !.pc = FirstLabel(op), !.node = node,
                                     !.flag = flag]]
  /\ spent' = [spent EXCEPT !.commands = @ + 1]
  /\ overlap' = (overlap \/ \E q \in Procs \ {p} : ~At(q, "idle"))
  /\ UNCHANGED <<disk, container, ghosts>>

-----------------------------------------------------------------------------
(* MigrateLegacy, which every command of `profile` runs first.               *)

NextLabel(p) ==
  CASE cli[p].op = "add"        -> "addLook"
    [] cli[p].op = "use"        -> "useLook"
    [] cli[p].op = "rm"         -> "rmCheck"
    [] cli[p].op = "regenerate" -> "regRead"
    [] cli[p].op = "upgrade"    -> "upList"
    [] OTHER                    -> "idle"

Migrated(p) == IF NextLabel(p) = "idle" THEN End(p) ELSE Goto(p, NextLabel(p))

MigLook(p) ==
  /\ At(p, "migLook") /\ Read
  /\ IF config = Regular THEN Goto(p, "migPrimary") ELSE Migrated(p)

(* Mutant: the migration does not look for profiles/primary.json.            *)
MigPrimaryUnseen(p) == At(p, "migPrimary") /\ Read /\ Goto(p, "migMove")

(* The refusal to clobber looks with Lstat: a symlink there counts.          *)
MigPrimary(p) ==
  /\ At(p, "migPrimary") /\ Read
  /\ IF files[Primary] = None THEN Goto(p, "migMove") ELSE End(p)

(***************************************************************************)
(* Chmod follows a symlink, rename moves it: a config.json that has become    *)
(* one meanwhile lands in profiles/, where its relative target is nowhere.   *)
(***************************************************************************)
MigMove(p) ==
  /\ At(p, "migMove")
  /\ IF Live \notin Content THEN End(p) /\ Read
     ELSE /\ files' = [files EXCEPT
                         ![Primary] = IF config = Regular THEN Live ELSE Broken,
                         ![Regular] = None]
          /\ config' = None
          /\ stale' = (stale \/ config # Regular)
          /\ Goto(p, "migLink")
          /\ UNCHANGED <<stages, container, owed, ungated, overlap, spent>>

MigLink(p) ==
  /\ At(p, "migLink")
  /\ AtomicSymlink(Primary)
  /\ stale' = (stale \/ Live # None)
  /\ Migrated(p)
  /\ UNCHANGED <<stages, container, owed, ungated, overlap, spent>>

-----------------------------------------------------------------------------
(* profile add: AddProfile and writeProfileValidated.                        *)

(* Stat follows a symlink, so a broken one is no file.  The routing is the    *)
(* active profile's, when config.json is a symlink that can be read.         *)
AddLook(p) ==
  LET c       == cli[p]
      routing == IF config \in Names /\ Live \in Content THEN Live.routing
                 ELSE "default" IN
  /\ At(p, "addLook") /\ Read
  /\ IF files[c.name] \in Content /\ ~c.flag THEN End(p)
     ELSE cli' = [cli EXCEPT
                    ![p].pc = "addReady",
                    ![p].data = [Fresh(c.node, TRUE) EXCEPT !.routing = routing]]

AddReady(p) ==
  /\ At(p, "addReady")
  /\ UNCHANGED <<disk, container, ghosts, overlap>>
  /\ \/ /\ Goto(p, IF container.running /\ container.wholeDir THEN "addStage"
                   ELSE "addBlind")
        /\ UNCHANGED spent
     \/ /\ spent.faults < MaxFaults   \* the daemon does not answer
        /\ Goto(p, "addBlind")
        /\ spent' = [spent EXCEPT !.faults = @ + 1]

(* The profile's file becomes c; --force means what was there is given up.   *)
AddWrite(p) ==
  LET c == cli[p] IN
  /\ WriteFile(c.name, c.data)
  /\ owed' = (IF c.flag THEN owed \ NodeAt(c.name) ELSE owed) \cup {c.node}
  /\ stale' = (stale \/ c.name \in Leads)
  /\ End(p)

AddBlind(p) ==
  /\ At(p, "addBlind")
  /\ AddWrite(p)
  /\ ungated' = ungated \cup {[node |-> cli[p].node,
                               live |-> cli[p].name = config]}
  /\ UNCHANGED <<stages, container, overlap, spent>>

(* Mutant: no sweep.                                                         *)
AddStageUnswept(p) ==
  /\ At(p, "addStage")
  /\ stages' = stages \cup {[name |-> cli[p].name, by |-> p]}
  /\ Goto(p, "addTest")
  /\ UNCHANGED <<config, files, container, ghosts, overlap, spent>>

(* Remove every stage of this name, then write one.                          *)
AddStage(p) ==
  LET n == cli[p].name IN
  /\ At(p, "addStage")
  /\ stages' = {s \in stages : s.name # n} \cup {[name |-> n, by |-> p]}
  /\ Goto(p, "addTest")
  /\ UNCHANGED <<config, files, container, ghosts, overlap, spent>>

Stage(p) == [name |-> cli[p].name, by |-> p]

(* Mutant: the verdict of xray -test is not looked at.                       *)
AddTestIgnored(p) ==
  /\ At(p, "addTest")
  /\ Goto(p, "addCommit")
  /\ UNCHANGED <<disk, container, ghosts, overlap, spent>>

AddTest(p) ==
  /\ At(p, "addTest")
  /\ \E ok \in XrayTest(cli[p].data) :
       IF ok /\ Stage(p) \in stages
       THEN Goto(p, "addCommit") /\ UNCHANGED stages
       ELSE End(p) /\ stages' = stages \ {Stage(p)}
  /\ UNCHANGED <<config, files, container, ghosts, overlap, spent>>

AddCommit(p) ==
  /\ At(p, "addCommit")
  /\ stages' = stages \ {Stage(p)}
  /\ IF Stage(p) \in stages THEN AddWrite(p)
     ELSE End(p) /\ UNCHANGED <<config, files, owed, stale>>
  /\ UNCHANGED <<container, ungated, overlap, spent>>

-----------------------------------------------------------------------------
(* profile use: SwitchTo, and SwitchToSymlinkOnly under --no-reload.         *)

UseLook(p) ==
  /\ At(p, "useLook") /\ Read
  /\ IF /\ container.wholeDir
        /\ cli[p].flag \/ container.running
        /\ files[cli[p].name] \in Content
     THEN Goto(p, "useTest") ELSE End(p)

(* Mutant: the swap does not wait for the verdict.                           *)
UseUntested(p) == At(p, "useTest") /\ Read /\ Goto(p, "useSwap")

UseTest(p) ==
  /\ At(p, "useTest") /\ Read
  /\ \E ok \in XrayTest(files[cli[p].name]) :
       IF ok THEN Goto(p, "useSwap") ELSE End(p)

UseSwap(p) ==
  /\ At(p, "useSwap")
  /\ AtomicSymlink(cli[p].name)
  /\ IF cli[p].flag THEN End(p) ELSE Goto(p, "stop")
  /\ stale' = (stale \/ cli[p].flag)
  /\ UNCHANGED <<stages, container, owed, ungated, overlap, spent>>

-----------------------------------------------------------------------------
(* RestartContainerNoVerify and ProxyRestart: ProxyDown, then ProxyUp; `up`   *)
(* and `down` are one of them.  The wait for health that follows only reads.  *)

(* Mutant: a restart that only starts.                                       *)
StopForgotten(p) ==
  /\ At(p, "stop")
  /\ IF cli[p].op = "down" THEN End(p) ELSE Goto(p, "start")
  /\ UNCHANGED <<disk, container, ghosts, overlap, spent>>

Stop(p) ==
  /\ At(p, "stop")
  /\ container' = [container EXCEPT !.running = FALSE]
  /\ IF cli[p].op = "down" THEN End(p) ELSE Goto(p, "start")
  /\ UNCHANGED <<disk, ghosts, overlap, spent>>

(* A container is created only for a configuration that is there.            *)
Start(p) ==
  /\ At(p, "start")
  /\ End(p)
  /\ IF container.running \/ (~container.made /\ Live \notin Content)
     THEN UNCHANGED <<container, stale>>
     ELSE /\ container' = [container EXCEPT !.made = TRUE, !.running = TRUE,
                                            !.loaded = Live]
          /\ stale' = FALSE
  /\ UNCHANGED <<disk, owed, ungated, overlap, spent>>

-----------------------------------------------------------------------------
(* profile rm: CheckRemovable, the prompt, CheckRemovable again, remove.     *)

(* Mutant: the active profile is not refused.                                *)
RemovableActive(n) == files[n] # None

Removable(n) == config # n /\ files[n] # None

RmCheck(p) ==
  /\ At(p, "rmCheck") /\ Read
  /\ IF Removable(cli[p].name) THEN Goto(p, "rmAgain") ELSE End(p)

RmAgain(p) ==
  /\ At(p, "rmAgain") /\ Read
  /\ \/ End(p)                                     \* the answer is no
     \/ Removable(cli[p].name) /\ Goto(p, "rmRemove")
     \/ ~Removable(cli[p].name) /\ End(p)

RmRemove(p) ==
  /\ At(p, "rmRemove") /\ End(p)
  /\ files' = [files EXCEPT ![cli[p].name] = None]
  /\ owed' = owed \ NodeAt(cli[p].name)
  /\ stale' = (stale \/ cli[p].name \in Leads)
  /\ UNCHANGED <<config, stages, container, ungated, overlap, spent>>

-----------------------------------------------------------------------------
(* profile regenerate: the routing of the active profile into another.       *)

RegRead(p) ==
  LET n == cli[p].name IN
  /\ At(p, "regRead") /\ Read
  /\ IF config \in Names \ {n} /\ Live \in Content /\ files[n] \in Content
     THEN cli' = [cli EXCEPT
                    ![p].pc = "regWrite",
                    ![p].data = [files[n] EXCEPT !.routing = Live.routing]]
     ELSE End(p)

RegWrite(p) ==
  /\ At(p, "regWrite") /\ End(p)
  /\ WriteFile(cli[p].name, cli[p].data)
  /\ stale' = (stale \/ cli[p].name \in Leads)
  /\ UNCHANGED <<stages, container, owed, ungated, overlap, spent>>

-----------------------------------------------------------------------------
(* upgrade-config: UpgradeProfileInbounds, one profile after the other.      *)

UpList(p) ==
  /\ At(p, "upList") /\ Read
  /\ cli' = [cli EXCEPT ![p].pc = "upRead",
                        ![p].todo = {n \in Names : files[n] # None}]

(* A profile that cannot be read ends the command; one that is current is     *)
(* left alone.                                                               *)
UpRead(p) ==
  /\ At(p, "upRead") /\ Read
  /\ IF cli[p].todo = {} THEN End(p)
     ELSE \E n \in cli[p].todo :
            IF files[n] \notin Content THEN End(p)
            ELSE LET c == [cli[p] EXCEPT !.todo = @ \ {n}] IN
                 cli' = [cli EXCEPT ![p] =
                           IF files[n].tproxy THEN c
                           ELSE [c EXCEPT !.pc = "upWrite", !.path = n,
                                          !.data = [files[n] EXCEPT
                                                      !.tproxy = TRUE]]]

UpWrite(p) ==
  /\ At(p, "upWrite")
  /\ WriteFile(cli[p].path, cli[p].data)
  /\ stale' = (stale \/ cli[p].path \in Leads)
  /\ cli' = [cli EXCEPT ![p].pc = "upRead", ![p].path = Idle.path,
                        ![p].data = None]
  /\ UNCHANGED <<stages, container, owed, ungated, overlap, spent>>

-----------------------------------------------------------------------------
(* debug: setXrayLogLevel, then a restart if the proxy runs.                 *)

(* The file is the one config.json leads to; a missing or dangling one is an  *)
(* error.                                                                    *)
DbgRead(p) ==
  LET level == IF cli[p].flag THEN "debug" ELSE "warning" IN
  /\ At(p, "dbgRead") /\ Read
  /\ IF Live \notin Content THEN End(p)
     ELSE cli' = [cli EXCEPT ![p].pc = "dbgWrite", ![p].path = config,
                             ![p].data = [Live EXCEPT !.log = level]]

DbgWrite(p) ==
  /\ At(p, "dbgWrite")
  /\ WriteFile(cli[p].path, cli[p].data)
  /\ Goto(p, "dbgStatus")
  /\ UNCHANGED <<stages, container, ghosts, overlap, spent>>

(* ProxyStatus's error is dropped: it reads as "not running".                *)
DbgStatus(p) ==
  /\ At(p, "dbgStatus")
  /\ UNCHANGED <<disk, container, owed, ungated, overlap>>
  /\ \/ /\ IF container.running THEN Goto(p, "stop") ELSE End(p)
        /\ UNCHANGED <<stale, spent>>
     \/ /\ spent.faults < MaxFaults
        /\ spent' = [spent EXCEPT !.faults = @ + 1]
        /\ stale' = TRUE
        /\ End(p)

-----------------------------------------------------------------------------
(* init: a new configuration where config.json leads.                        *)

(* Mutant: a missing config.json resolves to nothing.                        *)
InitResolveMissing(p) ==
  /\ At(p, "initResolve") /\ Read
  /\ IF config \in Names /\ Live \notin Content THEN End(p)
     ELSE cli' = [cli EXCEPT ![p].pc = "initWrite", ![p].path = config]

InitResolve(p) ==
  /\ At(p, "initResolve") /\ Read
  /\ IF config \in Names /\ Live \notin Content THEN End(p)
     ELSE cli' = [cli EXCEPT ![p].pc = "initWrite",
                             ![p].path = IF config = None THEN Regular
                                         ELSE config]

InitWrite(p) ==
  LET f == cli[p].path
      n == cli[p].node IN
  /\ At(p, "initWrite") /\ End(p)
  /\ WriteFile(f, Fresh(n, TRUE))
  /\ owed' = (owed \ NodeAt(f)) \cup {n}
  /\ ungated' = ungated \cup {[node |-> n, live |-> f = config']}
  /\ stale' = (stale \/ f \in Leads \/ f = config')
  /\ UNCHANGED <<stages, container, overlap, spent>>

-----------------------------------------------------------------------------
(* The environment.                                                          *)

(* A process is killed, or a request of its restart fails and it gives up.    *)
Die(p) ==
  /\ ~At(p, "idle")
  /\ spent.faults < MaxFaults
  /\ spent' = [spent EXCEPT !.faults = @ + 1]
  /\ End(p)
  /\ stale' = (stale \/ cli[p].pc \in {"migLink", "dbgStatus", "stop", "start"})
  /\ UNCHANGED <<disk, container, owed, ungated, overlap>>

(* xray exits at once on a configuration it rejects, and Docker starts it     *)
(* again, on the configuration there is now.                                 *)
Respawn ==
  /\ container.running /\ ~Accepted(container.loaded)
  /\ container.loaded # Live
  /\ container' = [container EXCEPT !.loaded = Live]
  /\ UNCHANGED <<disk, cli, ghosts, overlap, spent>>

EditRouting ==
  /\ spent.edits < MaxEdits
  /\ \E f \in Files :
       /\ files[f] \in Content
       /\ files' = [files EXCEPT ![f].routing = "custom"]
       /\ stale' = (stale \/ f \in Leads)
  /\ spent' = [spent EXCEPT !.edits = @ + 1]
  /\ UNCHANGED <<config, stages, container, cli, owed, ungated, overlap>>

(* Every command has ended, and the bound allows no other.                   *)
Finished ==
  /\ spent.commands = MaxCommands /\ \A p \in Procs : At(p, "idle")
  /\ UNCHANGED vars

Migrate(p)    == MigLook(p) \/ MigPrimary(p) \/ MigMove(p) \/ MigLink(p)
Add(p)        == \/ AddLook(p) \/ AddReady(p) \/ AddBlind(p) \/ AddStage(p)
                 \/ AddTest(p) \/ AddCommit(p)
Use(p)        == UseLook(p) \/ UseTest(p) \/ UseSwap(p)
Rm(p)         == RmCheck(p) \/ RmAgain(p) \/ RmRemove(p)
Regenerate(p) == RegRead(p) \/ RegWrite(p)
Upgrade(p)    == UpList(p) \/ UpRead(p) \/ UpWrite(p)
Debug(p)      == DbgRead(p) \/ DbgWrite(p) \/ DbgStatus(p)
InitCmd(p)    == InitResolve(p) \/ InitWrite(p)

Next ==
  \/ \E p \in Procs : \/ Begin(p) \/ Migrate(p) \/ Add(p) \/ Use(p) \/ Rm(p)
                      \/ Regenerate(p) \/ Upgrade(p) \/ Debug(p) \/ InitCmd(p)
                      \/ Stop(p) \/ Start(p) \/ Die(p)
  \/ Respawn
  \/ EditRouting
  \/ Finished

Spec == Init /\ [][Next]_vars

-----------------------------------------------------------------------------
(* One command at a time, with crashes and edits.                            *)

(***************************************************************************)
(* config.json never leads nowhere: `rm` refuses the active profile, `use`    *)
(* takes only a profile that is there, and a crash between two steps of any   *)
(* command keeps both facts.                                                *)
(***************************************************************************)
LinkResolves == ~overlap /\ config \in Names => Live \in Content

(***************************************************************************)
(* No node an operator configured is lost unless the operator removed or      *)
(* overwrote it: not by the migration, wherever it is cut, nor by the         *)
(* commands that rewrite a part of a profile.                               *)
(***************************************************************************)
AllKept == \A n \in owed : \E f \in Files : n \in NodeAt(f)

NothingLost == ~overlap => AllKept

(***************************************************************************)
(* What config.json leads to passed xray -test, or was written over the live  *)
(* profile without it.                                                       *)
(***************************************************************************)
OnlyTestedGoesLive ==
  ~overlap => \A n \in BadNodes :
                (Live \in Content /\ Live.node = n)
                   => [node |-> n, live |-> TRUE] \in ungated

(***************************************************************************)
(* An add that is killed leaves its stage, and the next one of that name      *)
(* sweeps it: stages do not pile up.                                         *)
(***************************************************************************)
DebrisBounded ==
  ~overlap => \A s, t \in stages : s.name = t.name => s = t

-----------------------------------------------------------------------------
(* However commands interleave.                                              *)

(***************************************************************************)
(* When every command has ended, a healthy proxy runs the configuration that  *)
(* config.json leads to, unless something that promises no reload changed it  *)
(* since the container started.  `use` and `debug` change it before they      *)
(* restart, so the last change is followed by a start.                       *)
(***************************************************************************)
Converged ==
  /\ \A p \in Procs : At(p, "idle")
  /\ container.running /\ Accepted(container.loaded)
  /\ ~stale
  => container.loaded = Live

(***************************************************************************)
(* A profile that xray rejects is on disk only if some command said that it   *)
(* wrote it unvalidated.                                                    *)
(***************************************************************************)
RejectsAdmitted ==
  \A f \in Files : \A n \in BadNodes \cap NodeAt(f) :
    \E u \in ungated : u.node = n

=============================================================================
