------------------------------ MODULE Workspaces ------------------------------
(***************************************************************************)
(* The commands on one workspace and on the custom profile it is made from, *)
(* run side by side by two shells and killed at any point                   *)
(* (src/cmd/workspace.go, src/cmd/profile.go, src/internal/workspace,       *)
(* src/internal/profile): the directory under workspaces/, the profile's    *)
(* directory, and what devpod knows of the workspace.                       *)
(***************************************************************************)
EXTENDS Naturals, Sequences, FiniteSets

CONSTANTS WsProcs,   \* the shells
          MaxCmds    \* bound on the commands they run between them

ASSUME WsAssumption == IsFiniteSet(WsProcs) /\ MaxCmds \in Nat

VARIABLES shell,     \* the command each shell runs, and where it is
          dir,       \* the workspace's directory
          profile,   \* the profile's: its files
          devpod,    \* devpod's entry of the workspace
          past       \* what has happened, for the properties

wsVars == <<shell, dir, profile, devpod, past>>

Files   == {"devcontainer.json", "Dockerfile", "mise.toml"}
Needed  == {"devcontainer.json", "Dockerfile"}
Written == {"none", "torn", "whole"}
NoFiles == [f \in Files |-> "none"]
Idle    == [op |-> "none", pc |-> "idle", proxy |-> FALSE, todo |-> <<>>]
Absent  == [there |-> FALSE, files |-> NoFiles]

(* The order in which new copies, and profile-create writes.                 *)
CopyOrder  == <<"devcontainer.json", "Dockerfile", "mise.toml">>
WriteOrder == <<"Dockerfile", "devcontainer.json", "mise.toml">>

WsOps == {"new", "start", "stop", "restart", "code", "delete",
          "profile-create", "profile-delete"}

WsTypeOK ==
  /\ DOMAIN shell = WsProcs
  /\ \A p \in WsProcs :
       /\ shell[p].op \in WsOps \cup {"none"} /\ shell[p].proxy \in BOOLEAN
       /\ shell[p].pc \in {"idle", "mkdir", "copy", "patch", "undo", "ask", "check",
                           "list", "steps", "provision", "pmkdir", "open", "fill",
                           "premove"}
       /\ shell[p].todo \in Seq(Files \cup {"halt", "up", "devpod", "remove"})
  /\ dir \in [there : BOOLEAN, files : [Files -> Written]]
  /\ profile \in [there : BOOLEAN, files : [Files -> Written]]
  /\ devpod \in {"none", "stopped", "running"}
  /\ past \in [cmds : 0..MaxCmds, made : BOOLEAN, crossed : BOOLEAN, debris : BOOLEAN,
               warned : BOOLEAN, raced : BOOLEAN]

Clear(n) == [cmds |-> n, made |-> FALSE, crossed |-> FALSE, debris |-> FALSE,
             warned |-> FALSE, raced |-> FALSE]
Whole == [there |-> TRUE, files |-> [f \in Files |-> "whole"]]

WsInit ==
  /\ shell = [p \in WsProcs |-> Idle]
  /\ profile \in {Absent, Whole}
  /\ \/ dir = Absent /\ devpod = "none" /\ past = Clear(0)
     \/ /\ dir = Whole /\ devpod \in {"none", "stopped", "running"}
        /\ past = [Clear(0) EXCEPT !.made = TRUE]

(* Nobody runs a command.                                                    *)
WsOff ==
  /\ shell = [p \in WsProcs |-> Idle] /\ dir = Absent /\ profile = Absent
  /\ devpod = "none" /\ past = Clear(MaxCmds)

Runs(p, op)   == shell[p].op = op
Where(p, pc)  == shell[p].pc = pc
To(p, pc)     == shell' = [shell EXCEPT ![p].pc = pc]
Quit(p)       == shell' = [shell EXCEPT ![p] = Idle]
Making(p)     == Runs(p, "new") /\ shell[p].pc \in {"copy", "patch", "undo"}
Others(p)     == WsProcs \ {p}

-----------------------------------------------------------------------------
(* The checks a command begins with.                                         *)

(***************************************************************************)
(* new refuses a workspace that is there, delete, start and restart one     *)
(* that is not; stop and code ask nobody; profile-create refuses a profile  *)
(* that is there, profile-delete one that is not.                           *)
(***************************************************************************)
Refused(op) ==
  \/ op = "new" /\ dir.there
  \/ op \in {"delete", "start", "restart"} /\ ~dir.there
  \/ op = "profile-create" /\ profile.there
  \/ op = "profile-delete" /\ ~profile.there

FirstPc(op) ==
  CASE op = "new"            -> "mkdir"
    [] op = "start"          -> "check"
    [] op = "restart"        -> "list"
    [] op = "profile-create" -> "pmkdir"
    [] op \in {"delete", "profile-delete"} -> "ask"
    [] OTHER                 -> "steps"

(* A mutant: the directory goes first.                                       *)
DirectoryFirst == <<"remove", "devpod">>

(* delete's task: devpod's workspace goes before the directory.              *)
DeleteSteps == <<"devpod", "remove">>

Todo(op) ==
  CASE op = "new"            -> CopyOrder
    [] op = "profile-create" -> WriteOrder
    [] op = "delete"         -> DeleteSteps
    [] op = "stop"           -> <<"halt">>
    [] op = "profile-delete" -> <<>>
    [] OTHER                 -> <<"up">>

Begin(p) ==
  /\ Where(p, "idle") /\ past.cmds < MaxCmds
  /\ \E op \in WsOps, proxy \in BOOLEAN :
       /\ proxy => op = "new"
       /\ ~Refused(op)
       /\ shell' = [shell EXCEPT ![p] = [op |-> op, pc |-> FirstPc(op), proxy |-> proxy,
                                         todo |-> Todo(op)]]
  /\ past' = [past EXCEPT !.cmds = @ + 1]
  /\ UNCHANGED <<dir, profile, devpod>>

(* A confirmation, or --force; declined, cancelled or failed, it ends here.  *)
Consent(p) ==
  /\ Where(p, "ask")
  /\ IF Runs(p, "delete") THEN To(p, "steps") \/ Quit(p) ELSE To(p, "premove") \/ Quit(p)
  /\ UNCHANGED <<dir, profile, devpod, past>>

-----------------------------------------------------------------------------
(* new: workspace.Create.                                                    *)

(* A mutant: MkdirAll, which takes a directory that is there for its own.    *)
NeverTaken == FALSE

(* Mkdir fails on a directory that is there.                                 *)
Taken == dir.there

Mkdir(p) ==
  /\ Where(p, "mkdir")
  /\ IF Taken THEN Quit(p) /\ UNCHANGED dir
     ELSE To(p, "copy") /\ dir' = [dir EXCEPT !.there = TRUE]
  /\ UNCHANGED <<profile, devpod, past>>

(***************************************************************************)
(* The next file is read as it is and written over; mise.toml only when the *)
(* profile has one.  A file that is needed and missing, a directory that is *)
(* gone, and any other error end in the deferred removal.                   *)
(***************************************************************************)
CopyFile(p) ==
  /\ Where(p, "copy") /\ shell[p].todo # <<>>
  /\ LET f    == Head(shell[p].todo)
         src  == profile.files[f]
         next == [shell EXCEPT ![p].todo = Tail(@)] IN
     \/ /\ dir.there /\ src # "none"
        /\ dir' = [dir EXCEPT !.files[f] = src] /\ shell' = next
     \/ /\ src = "none" /\ f \notin Needed
        /\ shell' = next /\ UNCHANGED dir
     \/ To(p, "undo") /\ UNCHANGED dir
  /\ UNCHANGED <<profile, devpod, past>>

Made(p) == Quit(p) /\ past' = [past EXCEPT !.made = TRUE]

(* What post-create.sh has copied; and without --proxy that is all.          *)
Copied(p) ==
  /\ Where(p, "copy") /\ shell[p].todo = <<>>
  /\ \/ shell[p].proxy /\ To(p, "patch") /\ UNCHANGED past
     \/ ~shell[p].proxy /\ dir.there /\ Made(p)
     \/ To(p, "undo") /\ UNCHANGED past
  /\ UNCHANGED <<dir, profile, devpod>>

(* patchProxyNetwork: a file that does not parse is not patched.             *)
Patch(p) ==
  /\ Where(p, "patch")
  /\ \/ dir.there /\ dir.files["devcontainer.json"] = "whole" /\ Made(p)
     \/ To(p, "undo") /\ UNCHANGED past
  /\ UNCHANGED <<dir, profile, devpod>>

(* The deferred RemoveAll, of whatever directory has that name by now; its   *)
(* own error is dropped.                                                     *)
Undo(p) ==
  /\ Where(p, "undo")
  /\ Quit(p)
  /\ \/ dir' = Absent /\ UNCHANGED past
     \/ UNCHANGED dir /\ past' = [past EXCEPT !.debris = TRUE]
  /\ UNCHANGED <<profile, devpod>>

-----------------------------------------------------------------------------
(* start, stop, restart, code and delete.                                    *)

(* start's first task: the directory is still there.                         *)
Check(p) ==
  /\ Where(p, "check")
  /\ IF dir.there THEN To(p, "steps") ELSE Quit(p)
  /\ UNCHANGED <<dir, profile, devpod, past>>

(* restart looks at devpod's status once, and stops what ran then.           *)
Status(p) ==
  /\ Where(p, "list")
  /\ \E running \in {devpod = "running", FALSE} :
       shell' = [shell EXCEPT ![p].pc = "steps",
                              ![p].todo = IF running THEN <<"halt", "up">> ELSE @]
  /\ UNCHANGED <<dir, profile, devpod, past>>

Next1(p, s) == Where(p, "steps") /\ shell[p].todo # <<>> /\ Head(shell[p].todo) = s
StepDone(p) == shell' = [shell EXCEPT ![p].todo = Tail(@)]

Halt(p) ==
  /\ Next1(p, "halt")
  /\ \/ devpod # "none" /\ devpod' = "stopped" /\ StepDone(p)
     \/ Quit(p) /\ UNCHANGED devpod
  /\ UNCHANGED <<dir, profile, past>>

(* devpod up takes the directory, or for code a workspace it knows.          *)
Up(p) ==
  /\ Next1(p, "up")
  /\ \/ (IF Runs(p, "code") THEN devpod # "none" ELSE dir.there) /\ To(p, "provision")
     \/ Quit(p)
  /\ UNCHANGED <<dir, profile, devpod, past>>

(* It made the entry of a directory that is gone by then, or about to go.    *)
Beside(p) ==
  \/ ~dir.there
  \/ \E q \in Others(p) : Making(q) \/ Next1(q, "remove")

Provision(p) ==
  /\ Where(p, "provision")
  /\ \/ /\ devpod' = "running"
        /\ past' = [past EXCEPT !.raced = @ \/ (devpod = "none" /\ Beside(p))]
     \/ UNCHANGED <<devpod, past>>
  /\ Quit(p)
  /\ UNCHANGED <<dir, profile>>

(* devpod failing to delete is a warning.                                    *)
DevpodDelete(p) ==
  /\ Next1(p, "devpod")
  /\ StepDone(p)
  /\ \/ devpod' = "none" /\ UNCHANGED past
     \/ UNCHANGED devpod /\ past' = [past EXCEPT !.warned = TRUE]
  /\ UNCHANGED <<dir, profile>>

(* A RemoveAll that fails has removed some of the files.                     *)
InPart(d) ==
  {[d EXCEPT !.files = [f \in Files |-> IF f \in kept THEN @[f] ELSE "none"]] :
     kept \in SUBSET Files}

RemoveDir(p) ==
  /\ Next1(p, "remove")
  /\ \/ StepDone(p) /\ dir' = Absent
     \/ Quit(p) /\ dir' \in InPart(dir)
  /\ past' = [past EXCEPT
       !.made    = FALSE,
       !.debris  = dir'.there,
       !.crossed = @ \/ \E q \in Others(p) : Making(q)]
  /\ UNCHANGED <<profile, devpod>>

StepsEnd(p) ==
  /\ Where(p, "steps") /\ shell[p].todo = <<>>
  /\ Quit(p)
  /\ UNCHANGED <<dir, profile, devpod, past>>

-----------------------------------------------------------------------------
(* profile-create and profile-delete.                                        *)

(* MkdirAll: another profile-create's directory is taken for its own.        *)
ProfileMkdir(p) ==
  /\ Where(p, "pmkdir")
  /\ To(p, "open") /\ profile' = [profile EXCEPT !.there = TRUE]
  /\ UNCHANGED <<dir, devpod, past>>

(* writeFromTemplate truncates the file, and then writes it; there are no    *)
(* more of them, or one failed, mise.toml or not.                            *)
OpenFile(p) ==
  /\ Where(p, "open")
  /\ \/ /\ shell[p].todo # <<>> /\ profile.there
        /\ profile' = [profile EXCEPT !.files[Head(shell[p].todo)] = "torn"]
        /\ To(p, "fill")
     \/ Quit(p) /\ UNCHANGED profile
  /\ UNCHANGED <<dir, devpod, past>>

FillFile(p) ==
  /\ Where(p, "fill")
  /\ LET f == Head(shell[p].todo) IN
     /\ profile' = [profile EXCEPT !.files[f] = IF @ = "none" THEN @ ELSE "whole"]
     /\ shell' = [shell EXCEPT ![p].pc = "open", ![p].todo = Tail(@)]
  /\ UNCHANGED <<dir, devpod, past>>

(* Delete looks again, and a profile that is gone by now is an error.        *)
ProfileRemove(p) ==
  /\ Where(p, "premove")
  /\ Quit(p)
  /\ profile' \in IF profile.there THEN {Absent} \cup InPart(profile) ELSE {profile}
  /\ UNCHANGED <<dir, devpod, past>>

-----------------------------------------------------------------------------
(* A shell's command is killed; what it had done stays.                      *)
Kill(p) ==
  /\ ~Where(p, "idle")
  /\ Quit(p) /\ past' = [past EXCEPT !.debris = @ \/ Making(p)]
  /\ UNCHANGED <<dir, profile, devpod>>

WsNext ==
  \E p \in WsProcs :
    \/ Begin(p) \/ Consent(p) \/ Mkdir(p) \/ CopyFile(p) \/ Copied(p) \/ Patch(p)
    \/ Undo(p) \/ Check(p) \/ Status(p) \/ Halt(p) \/ Up(p) \/ Provision(p)
    \/ DevpodDelete(p) \/ RemoveDir(p) \/ StepsEnd(p) \/ ProfileMkdir(p) \/ OpenFile(p)
    \/ FillFile(p) \/ ProfileRemove(p) \/ Kill(p)

WsSpec == WsInit /\ [][WsNext]_wsVars

-----------------------------------------------------------------------------
(* What the workspaces keep to.                                              *)

(***************************************************************************)
(* Unless a delete ran in the middle of a new: the directory a new reported *)
(* is there with the files it needs until a delete, whatever another new of *)
(* that name did and however it failed; and a directory that is there was   *)
(* reported, is being made, or is what a killed new or a failed delete left.*)
(***************************************************************************)
DirectoryAccounted ==
  ~past.crossed =>
    /\ past.made => dir.there /\ \A f \in Needed : dir.files[f] # "none"
    /\ dir.there => past.made \/ past.debris \/ \E p \in WsProcs : Making(p)

(***************************************************************************)
(* devpod knows a workspace whose directory is gone only when a delete said *)
(* that devpod failed, or a start ran beside what removed the directory: a  *)
(* delete that was killed can be run again.                                 *)
(***************************************************************************)
OrphanOnlyWarned ==
  devpod # "none" /\ ~dir.there => past.warned \/ past.raced
=============================================================================
