---------------------------- MODULE ProxyTxProofs ----------------------------
(***************************************************************************)
(* Proofs about ProxyTx, for every set of containers and of processes,      *)
(* every bound and every way a request can fail.  First what any number of  *)
(* processes keep to; then, when one operator runs one command at a time,   *)
(* what the last line of a command says is so, and what a failed command    *)
(* leaves: for any sequence of the commands, and any number of kills,       *)
(* reboots, edits and foreign containers.                                   *)
(*                                                                         *)
(* SoloInv, on top of the invariant of any number of processes, ties where  *)
(* a command is to which names are free, what is stopped and what is        *)
(* attached; RecoverInv, ApartInv, AliveInv and CalmInv each add to it what *)
(* one more assumption makes true.                                          *)
(***************************************************************************)
EXTENDS ProxyTx, TLAPS

Results == [reply : Replies, w : World]
Gots    == [reply : Replies, w : World, dead : BOOLEAN, cost : {0, 1}]

-----------------------------------------------------------------------------
(* The daemon.                                                               *)

(* Every answer of the daemon is a reply and a state of the daemon.          *)
LEMMA StopType ==
  ASSUME NEW w \in World, NEW n \in Names
  PROVE  DockerStop(w, n) \in Results
BY DEF DockerStop, Answer, Results, Replies, World

LEMMA StartType ==
  ASSUME NEW w \in World, NEW c \in Ctr \cup {None}, NEW ok \in BOOLEAN
  PROVE  DockerStart(w, c, ok) \in Results
BY NoneAssumption DEF DockerStart, Answer, Results, Replies, World, Existing, Holders, Names

LEMMA RenameType ==
  ASSUME NEW w \in World, NEW m \in Names, NEW n \in Names
  PROVE  DockerRename(w, m, n) \in Results
BY DEF DockerRename, Answer, Results, Replies, World

LEMMA DisconnectType ==
  ASSUME NEW w \in World, NEW n \in Names
  PROVE  DockerDisconnect(w, n) \in Results
BY DEF DockerDisconnect, Answer, Results, Replies, World

LEMMA ConnectType ==
  ASSUME NEW w \in World, NEW n \in Names
  PROVE  DockerConnect(w, n) \in Results
BY DEF DockerConnect, Answer, Results, Replies, World

LEMMA RemoveType ==
  ASSUME NEW w \in World, NEW n \in Names
  PROVE  DockerRemove(w, n) \in Results
BY DEF DockerRemove, Answer, Results, Replies, World

LEMMA CreateType ==
  ASSUME NEW w \in World, NEW n \in Names, NEW c \in Ctr, NEW k \in Kinds
  PROVE  DockerCreate(w, n, c, k) \in Results
BY DEF DockerCreate, Answer, Results, Replies, World

LEMMA ReadType ==
  ASSUME NEW w \in World, NEW r \in Replies
  PROVE  Answer(r, w) \in Results
BY DEF Answer, Results

(* What process p receives is the daemon's answer, or an error after which   *)
(* the daemon has done the request or has not.                               *)
LEMMA AnswersFacts ==
  ASSUME TypeOK, NEW p \in Procs, NEW res \in Results, NEW a \in Answers(p, res)
  PROVE  /\ a \in Gots
         /\ a.reply # "error" => a.reply = res.reply /\ a.w = res.w
         /\ a.w = docker \/ a.w = res.w
         /\ a.reply = "error" \/ a.reply = res.reply
<1>1. docker \in World /\ res.w \in World /\ res.reply \in Replies
  BY DEF TypeOK, Results
<1>2. \/ a = Got("error", docker, TRUE, 0)
      \/ a = Got(res.reply, res.w, FALSE, 0)
      \/ a = Got("error", docker, FALSE, 1)
      \/ a = Got("error", res.w, FALSE, 1)
      \/ a = Got("error", docker, TRUE, 1)
  BY DEF Answers, Faulty
<1>3. "error" \in Replies
  BY DEF Replies
<1>4. ASSUME NEW r \in Replies, NEW w \in World, NEW x \in BOOLEAN,
             NEW n \in {0, 1}, a = Got(r, w, x, n)
      PROVE  a \in Gots /\ a.reply = r /\ a.w = w
  BY <1>4 DEF Got, Gots
<1>5. CASE a = Got(res.reply, res.w, FALSE, 0)
  BY <1>1, <1>4, <1>5
<1>6. CASE a = Got("error", res.w, FALSE, 1)
  BY <1>1, <1>3, <1>4, <1>6
<1>7. CASE a = Got("error", docker, TRUE, 0) \/ a = Got("error", docker, TRUE, 1)
           \/ a = Got("error", docker, FALSE, 1)
  BY <1>1, <1>3, <1>4, <1>7
<1> QED
  BY <1>2, <1>5, <1>6, <1>7
-----------------------------------------------------------------------------
(* Type correctness.                                                         *)

(* The state a process is left in by a step is the state of a process.       *)
LEMMA NextOfProcess ==
  ASSUME TypeOK, NEW p \in Procs
  PROVE  /\ cli[p] \in Process
         /\ \A a \in Gots, l \in Labels : Goto(p, a, l) \in Process
         /\ \A l \in Labels : Renew(p, l) \in Process
         /\ \A o \in Outcomes : End(p, o) \in Process
<1>1. cli[p] \in Process
  BY DEF TypeOK
<1>2. "idle" \in Labels
  BY DEF Labels
<1>3. ASSUME NEW a \in Gots, NEW l \in Labels PROVE Goto(p, a, l) \in Process
  BY <1>1 DEF Goto, Process, Gots
<1>4. ASSUME NEW l \in Labels PROVE Renew(p, l) \in Process
  BY <1>1 DEF Renew, Process
<1>5. ASSUME NEW o \in Outcomes PROVE End(p, o) \in Process
  BY <1>1, <1>2 DEF End, Process
<1> QED
  BY <1>1, <1>3, <1>4, <1>5

(* Receiving an answer and becoming a process keeps every type.              *)
LEMMA ReceiveType ==
  ASSUME TypeOK, NEW p \in Procs, NEW a \in Gots, NEW c \in Process,
         Receive(p, a, c), proven' \in Ctr \cup {None}
  PROVE  TypeOK'
<1>1. docker' \in World
  BY DEF Receive, Gots
<1>2. spent' \in [faults : Nat, crashes : Nat, edits : Nat, foreign : Nat]
  BY DEF Receive, Gots, TypeOK
<1>3. [c EXCEPT !.hit = @ \/ a.reply = "error" \/ docker.foreign] \in Process
  <2>1. (c.hit \/ a.reply = "error" \/ docker.foreign) \in BOOLEAN
    OBVIOUS
  <2>2. \A b \in BOOLEAN : [c EXCEPT !.hit = b] \in Process
    BY DEF Process
  <2> QED
    BY <2>1, <2>2
<1>4. cli' \in [Procs -> Process]
  BY <1>3 DEF Receive, TypeOK
<1> QED
  BY <1>1, <1>2, <1>4 DEF Receive, TypeOK

LEMMA StepType ==
  ASSUME TypeOK, NEW p \in Procs, NEW a \in Gots, NEW c \in Process,
         Step(p, a, c)
  PROVE  TypeOK'
BY ReceiveType DEF Step, TypeOK

(* The requests' arguments have their types.                                 *)
LEMMA Arguments ==
  ASSUME TypeOK
  PROVE  /\ docker \in World
         /\ Primary \in Names /\ Backup \in Names
         /\ ConfigOk \in BOOLEAN
         /\ \A n \in Names : docker.name[n] \in Ctr \cup {None}
         /\ \A n \in Names : Inspect(n) \in Results
         /\ \A p \in Procs : cli[p].new \in Ctr \cup {None}
<1>1. docker \in World
  BY DEF TypeOK
<1>2. \A n \in Names : docker.name[n] \in Ctr \cup {None}
  BY <1>1 DEF World
<1>3. \A n \in Names : Inspect(n) \in Results
  BY <1>1, ReadType DEF Inspect, Replies
<1>4. \A p \in Procs : cli[p].new \in Ctr \cup {None}
  BY DEF TypeOK, Process
<1> QED
  BY <1>1, <1>2, <1>3, <1>4 DEF Names, ConfigOk

(* Each step of a process keeps every type.                                  *)
LEMMA AdvanceType ==
  ASSUME TypeOK, NEW p \in Procs, Advance(p)
  PROVE  TypeOK'
<1> USE Arguments, NextOfProcess, AnswersFacts
<1>a. /\ "idle" \in Labels /\ "wait" \in Labels /\ "preflight" \in Labels
      /\ "rebuildStatus" \in Labels /\ "inspectPrimary" \in Labels
  BY DEF Labels
<1>b. \A o \in Outcomes : NewFailed(p, o) \in Process
  <2>1. \A q \in Process : [q EXCEPT !.todo = ManualSteps] \in Process
    BY DEF Process
  <2> QED
    BY <2>1 DEF NewFailed, Labels, Recreating
<1>c. \A t : \A a \in Gots, l \in Labels : Did(p, a, t, l) \in Process
  <2>1. \A t : \A q \in Process : [q EXCEPT !.todo = @ \ {t}] \in Process
    BY DEF Process
  <2> QED
    BY <2>1 DEF Did
<1>1. CASE RebuildStatus(p)
  BY <1>1, StepType DEF RebuildStatus, Labels
<1>2. CASE InspectPrimary(p)
  <2>1. PICK a \in Answers(p, Inspect(Primary)) :
          Step(p, a, IF a.reply = "error" THEN End(p, "failed")
                     ELSE [Goto(p, a, "inspectBackup") EXCEPT
                             !.swap = (a.reply = "ok"),
                             !.old  = docker.name[Primary]])
    BY <1>2 DEF InspectPrimary
  <2>2. a \in Gots
    BY <2>1
  <2>3. Goto(p, a, "inspectBackup") \in Process
    BY <2>2 DEF Labels
  <2>4. [Goto(p, a, "inspectBackup") EXCEPT
           !.swap = (a.reply = "ok"), !.old = docker.name[Primary]] \in Process
    <3>1. \A q \in Process, b \in BOOLEAN, c \in Ctr \cup {None} :
            [q EXCEPT !.swap = b, !.old = c] \in Process
      BY DEF Process
    <3> QED
      BY <2>3, <3>1
  <2>5. End(p, "failed") \in Process
    BY DEF Outcomes
  <2>6. CASE a.reply = "error"
    BY <2>1, <2>2, <2>5, <2>6, StepType
  <2>7. CASE a.reply # "error"
    BY <2>1, <2>2, <2>4, <2>7, StepType
  <2> QED
    BY <2>6, <2>7
<1>3. CASE InspectBackup(p)
  BY <1>3, StepType DEF InspectBackup, Labels, Outcomes
<1>4. CASE TriageRemove(p)
  BY <1>4, RemoveType, StepType DEF TriageRemove, Labels, Outcomes
<1>5. CASE HealConnect(p)
  BY <1>5, ConnectType, StepType DEF HealConnect, Labels, Outcomes
<1>6. CASE HealStart(p)
  BY <1>6, StartType, StepType DEF HealStart, Labels, Outcomes
<1>7. CASE HealRename(p)
  BY <1>7, RenameType, StepType DEF HealRename, Labels, Outcomes
<1>8. CASE Preflight(p)
  BY <1>8, ReadType, StepType DEF Preflight, Labels, Recreating, Outcomes, Replies
<1>9. CASE StopOld(p)
  BY <1>9, StopType, StepType DEF StopOld, Labels, Recreating, Outcomes
<1>10. CASE RenameOld(p)
  BY <1>10, RenameType, StepType DEF RenameOld, Labels, Recreating
<1>11. CASE DisconnectOld(p)
  BY <1>11, DisconnectType, StepType DEF DisconnectOld, Labels, Recreating
<1>12. CASE UndoRename(p)
  BY <1>12, RenameType, StepType DEF UndoRename, Labels, Recreating
<1>13. CASE UndoStart(p)
  BY <1>13, StartType, StepType DEF UndoStart, Outcomes
<1>14. CASE Create(p)
  <2>1. PICK c \in Ctr \ docker.made :
          \E a \in Answers(p, IF env.image = "none" THEN Answer("missing", docker)
                              ELSE DockerCreate(docker, Primary, c, env.image)) :
            Step(p, a, IF a.reply = "ok"
                       THEN [Goto(p, a, "startNew") EXCEPT !.new = c]
                       ELSE NewFailed(p, "failed"))
    BY <1>14 DEF Create
  <2>2. (IF env.image = "none" THEN Answer("missing", docker)
         ELSE DockerCreate(docker, Primary, c, env.image)) \in Results
    BY ReadType, CreateType DEF TypeOK, Replies
  <2>3. \A q \in Process : [q EXCEPT !.new = c] \in Process
    BY DEF Process
  <2> QED
    BY <2>1, <2>2, <2>3, <1>b, StepType DEF Labels, Recreating, Outcomes
<1>15. CASE StartNew(p)
  <2>1. AfterStart(p) \in {"routes", "wait"}
    BY DEF AfterStart
  <2> QED
    BY <1>15, <1>b, <2>1, StartType, StepType
    DEF StartNew, Labels, Recreating, Outcomes
<1>16. ASSUME NEW a \in Health(p), NEW c \in Process, NEW d \in Process,
              Checked(p, a, c, d)
       PROVE  TypeOK'
  <2>1. a \in Gots
    BY <1>16, ReadType DEF Health, Replies
  <2>2. proven' \in Ctr \cup {None}
    BY <1>16 DEF Checked, TypeOK
  <2> QED
    BY <1>16, <2>1, <2>2, ReceiveType DEF Checked
<1>17. CASE VerifyNew(p)
  BY <1>17, <1>16, <1>b DEF VerifyNew, Labels, Outcomes
<1>18. CASE Commit(p)
  BY <1>18, RemoveType, StepType DEF Commit, Labels, Outcomes
<1>19. CASE RbStop(p)
  BY <1>19, StopType, StepType DEF RbStop, Labels, Recreating
<1>20. CASE RbRemove(p)
  BY <1>20, <1>c, RemoveType, StepType DEF RbRemove, Critical, Labels, Recreating, Outcomes
<1>21. CASE RbConnect(p)
  BY <1>21, <1>c, ConnectType, StepType DEF RbConnect, Critical, Labels, Recreating, Outcomes
<1>22. CASE RbStart(p)
  BY <1>22, <1>c, StartType, StepType DEF RbStart, Critical, Labels, Recreating, Outcomes
<1>23. CASE RbRename(p)
  <2>1. \A q \in Process : [q EXCEPT !.todo = @ \ {"rename"}] \in Process
    BY DEF Process
  <2> QED
    BY <1>23, <2>1, RenameType, StepType
    DEF RbRename, Critical, Labels, Recreating, Outcomes
<1>24. CASE RbVerify(p)
  BY <1>24, <1>16 DEF RbVerify, Outcomes
<1>25. CASE Build(p)
  <2>1. cli' \in [Procs -> Process]
    <3>1. \A l \in Labels : [cli[p] EXCEPT !.pc = l] \in Process
      BY DEF Process
    <3>2. \A l \in Labels : [cli EXCEPT ![p].pc = l]
                           = [cli EXCEPT ![p] = [cli[p] EXCEPT !.pc = l]]
      BY DEF TypeOK
    <3>3. \A q \in Process : [cli EXCEPT ![p] = q] \in [Procs -> Process]
      BY DEF TypeOK
    <3>4. \/ \E l \in Labels : cli' = [cli EXCEPT ![p].pc = l]
          \/ cli' = [cli EXCEPT ![p] = End(p, "failed")]
      BY <1>25, <1>a DEF Build
    <3> QED
      BY <3>1, <3>2, <3>3, <3>4 DEF Outcomes
  <2>2. env' \in [image : Kinds \cup {"none"}, config : {"none", "bad", "good"}]
    BY <1>25, BuildsAssumption DEF Build, TypeOK
  <2> QED
    BY <1>25, <2>1, <2>2 DEF Build, TypeOK
<1>26. CASE UpInspect(p)
  BY <1>26, StepType DEF UpInspect, Labels
<1>27. CASE UpStart(p)
  BY <1>27, StartType, StepType DEF UpStart, Labels, Outcomes
<1>28. CASE DownStop(p)
  BY <1>28, StopType, StepType DEF DownStop, Labels, Outcomes
<1>29. CASE Wait(p)
  <2>1. Renew(p, "lastRoutes") \in Process
    BY DEF Labels
  <2> QED
    BY <1>29, <1>16, <2>1 DEF Wait, Outcomes
<1>30. CASE FixRoutes(p)
  BY <1>30, ReadType, StepType DEF FixRoutes, Replies, Labels, Outcomes
<1> QED
  BY <1>1, <1>2, <1>3, <1>4, <1>5, <1>6, <1>7, <1>8, <1>9, <1>10, <1>11, <1>12,
     <1>13, <1>14, <1>15, <1>17, <1>18, <1>19, <1>20, <1>21, <1>22, <1>23,
     <1>24, <1>25, <1>26, <1>27, <1>28, <1>29, <1>30
  DEF Advance, Recreate, Rollback, UpDown

(* A container that exists at the start is one identity with every type.     *)
LEMMA InitType == Init => TypeOK
<1> SUFFICES ASSUME Init PROVE TypeOK
  OBVIOUS
<1>1. Fresh \in World
  BY DEF Fresh, World, Kinds
<1>2. docker \in World
  <2>1. ASSUME NEW c \in Ctr
        PROVE  [Fresh EXCEPT !.name[Primary] = c, !.running = {c},
                             !.attached = {c}, !.made = {c}] \in World
    BY <1>1 DEF World
  <2> QED
    BY <1>1, <2>1 DEF Init
<1>3. proven \in Ctr \cup {None}
  BY DEF Init
<1>4. cli \in [Procs -> Process]
  BY DEF Init, Process, AllCommands, Labels, Outcomes, Orphans
<1> QED
  BY <1>2, <1>3, <1>4 DEF Init, TypeOK, Kinds

(* What the processes do not decide keeps every type.                        *)
LEMMA SurroundingsType == TypeOK /\ Surroundings => TypeOK'
<1> SUFFICES ASSUME TypeOK, Surroundings PROVE TypeOK'
  OBVIOUS
<1>1. \A b \in {"faults", "crashes", "edits", "foreign"} :
        Spend(b) => spent' \in [faults : Nat, crashes : Nat, edits : Nat,
                                foreign : Nat]
  BY DEF Spend, TypeOK
<1>2. CASE Reboot
  <2>1. docker' \in World
    BY <1>2 DEF Reboot, DockerReboot, TypeOK, World
  <2>2. cli' \in [Procs -> Process]
    BY <1>2, NextOfProcess DEF Reboot, Outcomes
  <2> QED
    BY <1>1, <1>2, <2>1, <2>2 DEF Reboot, TypeOK
<1>3. CASE EditInputs
  BY <1>1, <1>3 DEF EditInputs, TypeOK
<1>4. CASE ForeignJoins
  BY <1>1, <1>4 DEF ForeignJoins, TypeOK, World
<1>5. CASE ForeignLeaves
  BY <1>5 DEF ForeignLeaves, TypeOK, World
<1> QED
  BY <1>2, <1>3, <1>4, <1>5 DEF Surroundings

(* Beginning a command and being killed keep every type.                     *)
LEMMA BeginType ==
  ASSUME TypeOK, NEW p \in Procs, Begin(p)
  PROVE  TypeOK'
<1>1. PICK op \in Commands[p] : cli' = [cli EXCEPT ![p] =
         [op |-> op, pc |-> FirstLabel(op), swap |-> FALSE, old |-> None,
          new |-> None, dead |-> FALSE, todo |-> {}, out |-> "none",
          served |-> \E c \in Ctr : Serving(docker, c),
          orphan |-> Orphan, hit |-> FALSE]]
  BY DEF Begin
<1>2. op \in AllCommands
  BY CommandsAssumption
<1>3. FirstLabel(op) \in Labels
  BY DEF FirstLabel, Labels
<1>4. Orphan \in Orphans
  BY DEF Orphan, Orphans
<1>5. [op |-> op, pc |-> FirstLabel(op), swap |-> FALSE, old |-> None,
       new |-> None, dead |-> FALSE, todo |-> {}, out |-> "none",
       served |-> \E c \in Ctr : Serving(docker, c),
       orphan |-> Orphan, hit |-> FALSE] \in Process
  BY <1>2, <1>3, <1>4 DEF Process, Outcomes
<1>6. cli' \in [Procs -> Process]
  BY <1>1, <1>5 DEF TypeOK
<1> QED
  BY <1>6 DEF Begin, TypeOK

LEMMA KillType ==
  ASSUME TypeOK, NEW p \in Procs, Kill(p)
  PROVE  TypeOK'
<1>1. cli' \in [Procs -> Process]
  BY NextOfProcess DEF Kill, TypeOK, Outcomes
<1>2. spent' \in [faults : Nat, crashes : Nat, edits : Nat, foreign : Nat]
  BY DEF Kill, Spend, TypeOK
<1> QED
  BY <1>1, <1>2 DEF Kill, TypeOK

(* Every variable keeps its type, whatever fails and whoever dies.           *)
THEOREM TypeCorrect == Spec => []TypeOK
<1>1. Init => TypeOK
  BY InitType
<1>2. TypeOK /\ [Next]_vars => TypeOK'
  <2> SUFFICES ASSUME TypeOK, [Next]_vars PROVE TypeOK'
    OBVIOUS
  <2>1. CASE UNCHANGED vars
    BY <2>1 DEF vars, TypeOK
  <2>2. CASE Surroundings
    BY <2>2, SurroundingsType
  <2>3. CASE \E p \in Procs : Begin(p) \/ Advance(p) \/ Kill(p)
    BY <2>3, BeginType, AdvanceType, KillType
  <2> QED
    BY <2>1, <2>2, <2>3 DEF Next
<1> QED
  BY <1>1, <1>2, PTL DEF Spec

-----------------------------------------------------------------------------
(* OldKept.                                                                  *)

(* Only one process ever runs a command that calls proxyRecreate.            *)
OneRecreator ==
  \A p, q \in Procs :
    (Commands[p] \cap Recreators # {} /\ Commands[q] \cap Recreators # {})
      => p = q

(* Where only a recreating process can be.                                   *)
RecreateOnly ==
  (Recreating \ {"create", "startNew"}) \cup
  {"build", "rebuildStatus", "inspectPrimary", "inspectBackup", "triageRemove",
   "healConnect", "healStart", "healRename", "commit"}

(* Where it cannot be.                                                       *)
UpDownOnly == {"upInspect", "upStart", "downStop"}

RoleOK(p) ==
  cli[p].pc # "idle" =>
    /\ cli[p].op \in Commands[p]
    /\ cli[p].pc \in RecreateOnly \/ cli[p].swap => cli[p].op \in Recreators
    /\ cli[p].pc \in UpDownOnly => ~cli[p].swap

(* Which name the container being replaced has, by where the swap is.        *)
AtPrimary == {"inspectBackup", "triageRemove", "preflight", "stop", "rename",
              "rbVerify"}
AtBackup  == {"disconnect", "undoRename", "create", "startNew", "verify",
              "commit", "rbStop", "rbRemove", "rbConnect", "rbStart", "rbRename"}

OldPlaced(p) ==
  cli[p].swap =>
    /\ cli[p].pc \in AtPrimary \cup AtBackup => cli[p].old # None
    /\ cli[p].pc \in AtPrimary => docker.name[Primary] = cli[p].old
    /\ cli[p].pc \in AtBackup => docker.name[Backup] = cli[p].old
    /\ cli[p].pc = "undoStart" => cli[p].old \in Existing(docker)

Inv == TypeOK /\ \A p \in Procs : RoleOK(p) /\ OldPlaced(p)

(* The invariant is as strong as the property.                               *)
LEMMA InvImpliesOldKept == Inv => OldKept
BY DEF Inv, OldKept, OldPlaced, AtPrimary, AtBackup, Recreating, Existing, Names

(* What each request does to the names.                                      *)
LEMMA NamesAfter ==
  ASSUME NEW w \in World
  PROVE  /\ \A n \in Names : DockerStop(w, n).w.name = w.name
         /\ \A c, ok : DockerStart(w, c, ok).w.name = w.name
         /\ \A n \in Names : DockerConnect(w, n).w.name = w.name
         /\ \A n \in Names : DockerDisconnect(w, n).w.name = w.name
BY DEF DockerStop, DockerStart, DockerConnect, DockerDisconnect, Answer, World

LEMMA NamesAfterRename ==
  ASSUME NEW w \in World, NEW m \in Names, NEW n \in Names, m # n
  PROVE  LET r == DockerRename(w, m, n) IN
         /\ r.reply = "ok" => r.w.name[n] = w.name[m]
         /\ r.w.name = w.name \/ r.w.name[n] = w.name[m]
BY DEF DockerRename, Answer, World

LEMMA NamesAfterRemove ==
  ASSUME NEW w \in World, NEW n \in Names, NEW m \in Names, m # n
  PROVE  DockerRemove(w, n).w.name[m] = w.name[m]
BY DEF DockerRemove, Answer, World

LEMMA NamesAfterCreate ==
  ASSUME NEW w \in World, NEW c \in Ctr, NEW k \in Kinds
  PROVE  LET r == DockerCreate(w, Primary, c, k) IN
         /\ r.w.name[Backup] = w.name[Backup]
         /\ w.name[Primary] # None => r.w.name[Primary] = w.name[Primary]
BY DEF DockerCreate, Answer, World, Names, Primary, Backup

(* A step of p leaves the other processes alone.                             *)
LEMMA StepFrame ==
  ASSUME TypeOK, NEW p \in Procs, NEW a, NEW c \in Process, Receive(p, a, c)
  PROVE  /\ docker' = a.w
         /\ cli'[p].pc = c.pc /\ cli'[p].op = c.op
         /\ cli'[p].swap = c.swap /\ cli'[p].old = c.old
         /\ \A q \in Procs \ {p} : cli'[q] = cli[q]
BY DEF Receive, TypeOK, Process

LEMMA NextFields ==
  ASSUME TypeOK, NEW p \in Procs
  PROVE  /\ \A a, l : LET c == Goto(p, a, l) IN
              c.pc = l /\ c.op = cli[p].op /\ c.swap = cli[p].swap
              /\ c.old = cli[p].old
         /\ \A l : LET c == Renew(p, l) IN
              c.pc = l /\ c.op = cli[p].op /\ c.swap = cli[p].swap
              /\ c.old = cli[p].old
         /\ \A o : LET c == End(p, o) IN
              c.pc = "idle" /\ c.op = cli[p].op /\ c.swap = cli[p].swap
              /\ c.old = cli[p].old
         /\ \A a, t, l : LET c == Did(p, a, t, l) IN
              c.pc = l /\ c.op = cli[p].op /\ c.swap = cli[p].swap
              /\ c.old = cli[p].old
BY DEF TypeOK, Process, Goto, Renew, End, Did

(* What a process that does not recreate can do to the names: take the       *)
(* primary's when nobody has it.                                             *)
NamesStay ==
  /\ docker'.name[Backup] = docker.name[Backup]
  /\ docker.name[Primary] # None => docker'.name[Primary] = docker.name[Primary]

Harmless(p) ==
  \/ RebuildStatus(p) \/ InspectPrimary(p) \/ InspectBackup(p) \/ HealConnect(p)
  \/ HealStart(p) \/ Preflight(p) \/ Create(p) \/ StartNew(p) \/ StopOld(p)
  \/ DisconnectOld(p) \/ UndoStart(p) \/ VerifyNew(p) \/ RbStop(p)
  \/ RbConnect(p) \/ RbStart(p) \/ RbVerify(p)
  \/ UpInspect(p) \/ UpStart(p) \/ DownStop(p) \/ Wait(p) \/ FixRoutes(p)
  \/ Build(p)

(* All but the renames and the removals are harmless to the names.           *)
LEMMA HarmlessNames ==
  ASSUME TypeOK, NEW p \in Procs, Harmless(p)
  PROVE  NamesStay
<1> USE Arguments, AnswersFacts
<1>1. ASSUME NEW res \in Results, res.w.name = docker.name,
             NEW a \in Answers(p, res), docker' = a.w
      PROVE  NamesStay
  BY <1>1 DEF NamesStay
<1>2. ASSUME NEW n \in Names, NEW a \in Answers(p, Inspect(n)), docker' = a.w
      PROVE  NamesStay
  BY <1>1, <1>2 DEF Inspect, Answer
<1>3. ASSUME NEW a \in Health(p), docker' = a.w
      PROVE  NamesStay
  BY <1>1, <1>3, ReadType DEF Health, Answer, Replies
<1>4. \A a, c : Step(p, a, c) => docker' = a.w
  BY DEF Step, Receive
<1>5. \A a, c, d : Checked(p, a, c, d) => docker' = a.w
  BY DEF Checked, Receive
<1>6. CASE RebuildStatus(p) \/ InspectPrimary(p) \/ UpInspect(p)
  BY <1>2, <1>4, <1>6 DEF RebuildStatus, InspectPrimary, UpInspect
<1>7. CASE InspectBackup(p)
  BY <1>2, <1>4, <1>7 DEF InspectBackup
<1>8. CASE HealConnect(p) \/ RbConnect(p)
  BY <1>1, <1>4, <1>8, ConnectType, NamesAfter DEF HealConnect, RbConnect
<1>9. CASE HealStart(p) \/ RbStart(p) \/ UndoStart(p) \/ UpStart(p) \/ StartNew(p)
  <2>1. ASSUME NEW c \in Ctr \cup {None}, docker' # docker,
               NEW a \in Answers(p, DockerStart(docker, c, ConfigOk)),
               docker' = a.w
        PROVE  NamesStay
    BY <1>1, <2>1, StartType, NamesAfter
  <2>2. docker' = docker => NamesStay
    BY DEF NamesStay
  <2>3. \E c \in Ctr \cup {None} :
          \E a \in Answers(p, DockerStart(docker, c, ConfigOk)) : docker' = a.w
    BY <1>4, <1>9 DEF HealStart, RbStart, UndoStart, UpStart, StartNew
  <2> QED
    BY <2>1, <2>2, <2>3
<1>10. CASE StopOld(p) \/ RbStop(p) \/ DownStop(p)
  BY <1>1, <1>4, <1>10, StopType, NamesAfter DEF StopOld, RbStop, DownStop
<1>11. CASE DisconnectOld(p)
  BY <1>1, <1>4, <1>11, DisconnectType, NamesAfter DEF DisconnectOld
<1>12. CASE VerifyNew(p) \/ RbVerify(p) \/ Wait(p)
  BY <1>3, <1>5, <1>12 DEF VerifyNew, RbVerify, Wait
<1>13. CASE Preflight(p) \/ FixRoutes(p)
  BY <1>1, <1>4, <1>13, ReadType DEF Preflight, FixRoutes, Answer, Replies
<1>14. CASE Build(p)
  BY <1>14 DEF Build, NamesStay
<1>15. CASE Create(p)
  <2> DEFINE Res(c) == IF env.image = "none" THEN Answer("missing", docker)
                       ELSE DockerCreate(docker, Primary, c, env.image)
  <2>1. PICK c \in Ctr \ docker.made : \E a \in Answers(p, Res(c)) : docker' = a.w
    BY <1>4, <1>15 DEF Create
  <2>2. PICK a \in Answers(p, Res(c)) : docker' = a.w
    BY <2>1
  <2>3. Res(c) \in Results
    BY ReadType, CreateType DEF TypeOK, Replies
  <2>4. a.w = docker \/ a.w = Res(c).w
    BY <2>2, <2>3
  <2>5. /\ Res(c).w.name[Backup] = docker.name[Backup]
        /\ docker.name[Primary] # None
             => Res(c).w.name[Primary] = docker.name[Primary]
    <3>1. CASE env.image = "none"
      BY <3>1 DEF Answer
    <3>2. CASE env.image # "none"
      BY <3>2, NamesAfterCreate DEF TypeOK
    <3> QED
      BY <3>1, <3>2
  <2> QED
    BY <2>2, <2>4, <2>5 DEF NamesStay
<1> QED
  BY <1>6, <1>7, <1>8, <1>9, <1>10, <1>11, <1>12, <1>13, <1>14, <1>15
  DEF Harmless

(* No step of a process changes another process.                             *)
LEMMA OthersUntouched ==
  ASSUME TypeOK, NEW p \in Procs, NEW q \in Procs \ {p}, Advance(p)
  PROVE  cli'[q] = cli[q]
<1>1. \A a, c : Receive(p, a, c) => cli'[q] = cli[q]
  BY DEF Receive, TypeOK
<1>2. \A a, c : Step(p, a, c) => cli'[q] = cli[q]
  BY <1>1 DEF Step
<1>3. \A a, c, d : Checked(p, a, c, d) => cli'[q] = cli[q]
  BY <1>1 DEF Checked
<1>4. Build(p) => cli'[q] = cli[q]
  BY DEF Build, TypeOK
<1>5. Recreate(p) => cli'[q] = cli[q]
  BY <1>2, <1>3
  DEF Recreate, InspectPrimary, InspectBackup, TriageRemove, HealConnect,
      HealStart, HealRename, Preflight, StopOld, RenameOld, DisconnectOld,
      UndoRename, UndoStart, Create, StartNew, VerifyNew, Commit
<1>6. Rollback(p) => cli'[q] = cli[q]
  BY <1>2, <1>3
  DEF Rollback, RbStop, RbRemove, RbConnect, RbStart, RbRename, RbVerify
<1>7. UpDown(p) => cli'[q] = cli[q]
  BY <1>2, <1>3, <1>4
  DEF UpDown, RebuildStatus, UpInspect, UpStart, DownStop, Wait, FixRoutes
<1> QED
  BY <1>5, <1>6, <1>7 DEF Advance

(* A step of p keeps what holds of every other process.                      *)
LEMMA Bystander ==
  ASSUME Inv, OneRecreator, NEW p \in Procs, NEW q \in Procs \ {p}, Advance(p)
  PROVE  RoleOK(q)' /\ OldPlaced(q)'
<1>1. cli'[q] = cli[q]
  BY OthersUntouched DEF Inv
<1>2. RoleOK(q)'
  BY <1>1 DEF Inv, RoleOK
<1>3. CASE cli[q].pc = "idle" \/ ~cli[q].swap
  BY <1>1, <1>2, <1>3 DEF OldPlaced, AtPrimary, AtBackup
<1>4. CASE cli[q].pc # "idle" /\ cli[q].swap
  <2>1. cli[q].op \in Commands[q] \cap Recreators
    BY <1>4 DEF Inv, RoleOK
  <2>2. cli[p].pc # "idle"
    BY DEF Advance, Recreate, Rollback, UpDown, InspectPrimary, InspectBackup,
           TriageRemove, HealConnect, HealStart, HealRename, Preflight, StopOld,
           RenameOld, DisconnectOld, UndoRename, UndoStart, Create, StartNew,
           VerifyNew, Commit, RbStop, RbRemove, RbConnect, RbStart, RbRename,
           RbVerify, Build, RebuildStatus, UpInspect, UpStart, DownStop, Wait,
           FixRoutes
  <2>3. cli[p].pc \notin RecreateOnly
    <3>1. SUFFICES ASSUME cli[p].pc \in RecreateOnly PROVE FALSE
      OBVIOUS
    <3>2. cli[p].op \in Commands[p] \cap Recreators
      BY <2>2, <3>1 DEF Inv, RoleOK
    <3> QED
      BY <2>1, <3>2 DEF OneRecreator
  <2>4. Harmless(p)
    <3>1. /\ "triageRemove" \in RecreateOnly /\ "healRename" \in RecreateOnly
          /\ "rename" \in RecreateOnly /\ "undoRename" \in RecreateOnly
          /\ "commit" \in RecreateOnly /\ "rbRemove" \in RecreateOnly
          /\ "rbRename" \in RecreateOnly
      BY DEF RecreateOnly, UpDownOnly, Recreating
    <3>2. /\ ~TriageRemove(p) /\ ~HealRename(p) /\ ~RenameOld(p)
          /\ ~UndoRename(p) /\ ~Commit(p) /\ ~RbRemove(p) /\ ~RbRename(p)
      BY <2>3, <3>1 DEF TriageRemove, HealRename, RenameOld, UndoRename, Commit,
                        RbRemove, RbRename
    <3> QED
      BY <3>2 DEF Advance, Recreate, Rollback, UpDown, Harmless
  <2>5. NamesStay
    BY <2>4, HarmlessNames DEF Inv
  <2> QED
    BY <1>1, <1>2, <2>5 DEF Inv, OldPlaced, NamesStay, Existing, Names
<1> QED
  BY <1>3, <1>4

(* Where a step leaves the process that takes it.                            *)
At(p, l) == /\ cli'[p].pc = l
            /\ cli'[p].op = cli[p].op
            /\ cli'[p].swap = cli[p].swap
            /\ cli'[p].old = cli[p].old

LEMMA Moves ==
  ASSUME TypeOK, NEW p \in Procs, NEW a \in Gots
  PROVE  /\ \A l \in Labels : Receive(p, a, Goto(p, a, l)) => At(p, l)
         /\ \A l \in Labels : Receive(p, a, Renew(p, l)) => At(p, l)
         /\ \A o \in Outcomes : Receive(p, a, End(p, o)) => At(p, "idle")
         /\ \A t : \A l \in Labels : Receive(p, a, Did(p, a, t, l)) => At(p, l)
         /\ \A o \in Outcomes : Receive(p, a, NewFailed(p, o)) =>
              At(p, IF cli[p].swap THEN "rbStop" ELSE "idle")
<1>1. \A l \in Labels : Receive(p, a, Goto(p, a, l)) => At(p, l)
  BY NextOfProcess, StepFrame, NextFields DEF At
<1>2. \A l \in Labels : Receive(p, a, Renew(p, l)) => At(p, l)
  BY NextOfProcess, StepFrame, NextFields DEF At
<1>3. \A o \in Outcomes : Receive(p, a, End(p, o)) => At(p, "idle")
  BY NextOfProcess, StepFrame, NextFields DEF At
<1>4. \A t : \A l \in Labels : Receive(p, a, Did(p, a, t, l)) => At(p, l)
  <2>1. \A t : \A q \in Process : [q EXCEPT !.todo = @ \ {t}] \in Process
    BY DEF Process
  <2>2. \A t : \A l \in Labels : Did(p, a, t, l) \in Process
    BY <2>1, NextOfProcess DEF Did
  <2> QED
    BY <2>2, StepFrame, NextFields DEF At
<1>5. ASSUME NEW o \in Outcomes, Receive(p, a, NewFailed(p, o))
      PROVE  At(p, IF cli[p].swap THEN "rbStop" ELSE "idle")
  <2>1. CASE ~cli[p].swap
    BY <1>3, <1>5, <2>1 DEF NewFailed
  <2>2. CASE cli[p].swap
    <3>1. Renew(p, "rbStop") \in Process
      BY NextOfProcess DEF Labels, Recreating
    <3>2. /\ [Renew(p, "rbStop") EXCEPT !.todo = ManualSteps] \in Process
          /\ [Renew(p, "rbStop") EXCEPT !.todo = ManualSteps].pc
               = Renew(p, "rbStop").pc
          /\ [Renew(p, "rbStop") EXCEPT !.todo = ManualSteps].op
               = Renew(p, "rbStop").op
          /\ [Renew(p, "rbStop") EXCEPT !.todo = ManualSteps].swap
               = Renew(p, "rbStop").swap
          /\ [Renew(p, "rbStop") EXCEPT !.todo = ManualSteps].old
               = Renew(p, "rbStop").old
      BY <3>1 DEF Process
    <3>3. Receive(p, a, [Renew(p, "rbStop") EXCEPT !.todo = ManualSteps])
      BY <1>5, <2>2 DEF NewFailed
    <3> DEFINE c == [Renew(p, "rbStop") EXCEPT !.todo = ManualSteps]
    <3>4. /\ cli'[p].pc = c.pc /\ cli'[p].op = c.op
          /\ cli'[p].swap = c.swap /\ cli'[p].old = c.old
      BY <3>2, <3>3, StepFrame
    <3>5. At(p, "rbStop")
      BY <3>2, <3>4, NextFields DEF At
    <3> QED
      BY <2>2, <3>5
  <2> QED
    BY <2>1, <2>2
<1> QED
  BY <1>1, <1>2, <1>3, <1>4, <1>5

(* A step into l keeps p's role if l is no place for recreating processes    *)
(* only, or p recreates; an idle process, and one that swaps nothing, has no *)
(* old container to place.                                                   *)
LEMMA RoleKept ==
  ASSUME Inv, NEW p \in Procs, NEW l, At(p, l), cli[p].pc # "idle",
         l \in RecreateOnly => cli[p].pc \in RecreateOnly \/ cli[p].swap,
         l \in UpDownOnly => cli[p].pc \in UpDownOnly
  PROVE  RoleOK(p)'
BY DEF Inv, RoleOK, At

LEMMA NothingToPlace ==
  ASSUME NEW p \in Procs, NEW l, At(p, l),
         ~cli[p].swap \/ l \notin AtPrimary \cup AtBackup \cup {"undoStart"}
  PROVE  OldPlaced(p)'
BY DEF OldPlaced, At, AtPrimary, AtBackup

LEMMA StaysPlaced ==
  ASSUME Inv, NEW p \in Procs, NEW l, At(p, l), NamesStay,
         \/ cli[p].pc \in AtPrimary /\ l \in AtPrimary
         \/ cli[p].pc \in AtBackup /\ l \in AtBackup
  PROVE  OldPlaced(p)'
BY DEF Inv, OldPlaced, At, AtPrimary, AtBackup, NamesStay

(* A step of p keeps what holds of p.                                        *)
LEMMA Actor ==
  ASSUME Inv, NEW p \in Procs, Advance(p)
  PROVE  RoleOK(p)' /\ OldPlaced(p)'
<1> USE DEF Inv
<1> USE Arguments, AnswersFacts, Moves
<1>1. CASE RebuildStatus(p)
  <2>1. \E l \in {"inspectPrimary", "wait"} : At(p, l)
    BY <1>1 DEF RebuildStatus, Step, Labels
  <2>2. cli[p].pc = "rebuildStatus"
    BY <1>1 DEF RebuildStatus
  <2> QED
    BY <2>1, <2>2, RoleKept, NothingToPlace
    DEF RecreateOnly, UpDownOnly, Recreating, AtPrimary, AtBackup
<1>3. CASE InspectBackup(p)
  <2>1. \E l \in {"idle", "preflight", "triageRemove", "healConnect"} :
          At(p, l) /\ (l = "healConnect" => ~cli[p].swap)
    BY <1>3 DEF InspectBackup, Step, Labels, Outcomes
  <2>2. cli[p].pc = "inspectBackup"
    BY <1>3 DEF InspectBackup
  <2>3. NamesStay
    BY <1>3, HarmlessNames DEF Harmless
  <2>4. RoleOK(p)'
    BY <2>1, <2>2, RoleKept DEF RecreateOnly, UpDownOnly, Recreating
  <2>5. OldPlaced(p)'
    <3>1. PICK l \in {"idle", "preflight", "triageRemove", "healConnect"} :
            At(p, l) /\ (l = "healConnect" => ~cli[p].swap)
      BY <2>1
    <3>2. CASE l \in {"idle", "healConnect"}
      BY <3>1, <3>2, NothingToPlace DEF AtPrimary, AtBackup
    <3>3. CASE l \notin {"idle", "healConnect"}
      BY <3>1, <3>3, <2>2, <2>3, StaysPlaced DEF AtPrimary, AtBackup
    <3> QED
      BY <3>2, <3>3
  <2> QED
    BY <2>4, <2>5
<1>4. CASE TriageRemove(p)
  <2>1. PICK a \in Answers(p, DockerRemove(docker, Backup)) :
          Step(p, a, IF a.reply \in Gone THEN Goto(p, a, "preflight")
                     ELSE End(p, "failed"))
    BY <1>4 DEF TriageRemove
  <2>2. \E l \in {"idle", "preflight"} : At(p, l)
    BY <2>1, RemoveType DEF Step, Labels, Outcomes
  <2>3. cli[p].pc = "triageRemove"
    BY <1>4 DEF TriageRemove
  <2>4. docker'.name[Primary] = docker.name[Primary]
    <3>1. docker' = a.w
      BY <2>1 DEF Step, Receive
    <3> QED
      BY <2>1, <3>1, RemoveType, NamesAfterRemove DEF Names, Primary, Backup
  <2>5. RoleOK(p)'
    BY <2>2, <2>3, RoleKept DEF RecreateOnly, UpDownOnly, Recreating
  <2>6. OldPlaced(p)'
    BY <2>2, <2>3, <2>4 DEF OldPlaced, At, AtPrimary, AtBackup
  <2> QED
    BY <2>5, <2>6
<1>2. CASE InspectPrimary(p)
  <2>1. PICK a \in Answers(p, Inspect(Primary)) :
          Step(p, a, IF a.reply = "error" THEN End(p, "failed")
                     ELSE [Goto(p, a, "inspectBackup") EXCEPT
                             !.swap = (a.reply = "ok"),
                             !.old  = docker.name[Primary]])
    BY <1>2 DEF InspectPrimary
  <2>2. cli[p].pc = "inspectPrimary"
    BY <1>2 DEF InspectPrimary
  <2>3. CASE a.reply = "error"
    <3>1. At(p, "idle")
      BY <2>1, <2>3 DEF Step, Outcomes
    <3> QED
      BY <2>2, <3>1, RoleKept, NothingToPlace
      DEF RecreateOnly, UpDownOnly, Recreating, AtPrimary, AtBackup
  <2>4. CASE a.reply # "error"
    <3> DEFINE g == Goto(p, a, "inspectBackup")
               c == [g EXCEPT !.swap = (a.reply = "ok"),
                              !.old  = docker.name[Primary]]
    <3>1. g \in Process /\ g.pc = "inspectBackup" /\ g.op = cli[p].op
      BY <2>1, NextOfProcess, NextFields DEF Labels
    <3> HIDE DEF g
    <3>2. /\ c \in Process
          /\ c.pc = "inspectBackup" /\ c.op = cli[p].op
          /\ c.swap = (a.reply = "ok") /\ c.old = docker.name[Primary]
      BY <3>1 DEF Process
    <3>3. Receive(p, a, c)
      BY <2>1, <2>4 DEF Step, g
    <3> HIDE DEF c
    <3>4. /\ cli'[p].pc = "inspectBackup" /\ cli'[p].op = cli[p].op
          /\ cli'[p].swap = (a.reply = "ok") /\ cli'[p].old = docker.name[Primary]
          /\ docker' = a.w
      BY <3>2, <3>3, StepFrame
    <3>5. docker' = docker /\ (a.reply = "ok" => docker.name[Primary] # None)
      BY <2>1, <2>4, <3>4 DEF Inspect, Answer
    <3> QED
      BY <2>2, <3>4, <3>5 DEF RoleOK, OldPlaced, RecreateOnly, UpDownOnly, Recreating,
                              AtPrimary, AtBackup
  <2> QED
    BY <2>3, <2>4
<1>5. CASE HealConnect(p)
  <2>1. \E l \in {"idle", "healStart"} : At(p, l)
    BY <1>5, ConnectType DEF HealConnect, Step, Labels, Outcomes
  <2>2. cli[p].pc = "healConnect"
    BY <1>5 DEF HealConnect
  <2> QED
    BY <2>1, <2>2, RoleKept, NothingToPlace
    DEF RecreateOnly, UpDownOnly, Recreating, AtPrimary, AtBackup
<1>6. CASE HealStart(p)
  <2>1. \E l \in {"idle", "healRename"} : At(p, l)
    BY <1>6, StartType DEF HealStart, Step, Labels, Outcomes
  <2>2. cli[p].pc = "healStart"
    BY <1>6 DEF HealStart
  <2> QED
    BY <2>1, <2>2, RoleKept, NothingToPlace
    DEF RecreateOnly, UpDownOnly, Recreating, AtPrimary, AtBackup
<1>7. CASE HealRename(p)
  <2>1. \E l \in {"idle", "wait"} : At(p, l)
    BY <1>7, RenameType DEF HealRename, Step, Labels, Outcomes
  <2>2. cli[p].pc = "healRename"
    BY <1>7 DEF HealRename
  <2> QED
    BY <2>1, <2>2, RoleKept, NothingToPlace
    DEF RecreateOnly, UpDownOnly, Recreating, AtPrimary, AtBackup
<1>8. CASE Preflight(p)
  <2>1. \E l \in {"idle", "stop", "create"} : At(p, l)
          /\ (l = "stop" <=> l # "idle" /\ cli[p].swap)
    BY <1>8, ReadType DEF Preflight, Step, Labels, Recreating, Outcomes, Replies
  <2>2. cli[p].pc = "preflight"
    BY <1>8 DEF Preflight
  <2>3. NamesStay
    BY <1>8, HarmlessNames DEF Harmless
  <2>4. RoleOK(p)'
    BY <2>1, <2>2, RoleKept DEF RecreateOnly, UpDownOnly, Recreating
  <2>5. OldPlaced(p)'
    BY <2>1, <2>2, <2>3, StaysPlaced, NothingToPlace DEF AtPrimary, AtBackup
  <2> QED
    BY <2>4, <2>5
<1>9. CASE StopOld(p)
  <2>1. \E l \in {"idle", "rename"} : At(p, l)
    BY <1>9, StopType DEF StopOld, Step, Labels, Recreating, Outcomes
  <2>2. cli[p].pc = "stop"
    BY <1>9 DEF StopOld
  <2>3. NamesStay
    BY <1>9, HarmlessNames DEF Harmless
  <2>4. RoleOK(p)'
    BY <2>1, <2>2, RoleKept DEF RecreateOnly, UpDownOnly, Recreating
  <2>5. OldPlaced(p)'
    BY <2>1, <2>2, <2>3, StaysPlaced, NothingToPlace DEF AtPrimary, AtBackup
  <2> QED
    BY <2>4, <2>5
<1>10. CASE RenameOld(p)
  <2>1. PICK a \in Answers(p, DockerRename(docker, Primary, Backup)) :
          Step(p, a, Goto(p, a, IF a.reply = "ok" THEN "disconnect"
                                ELSE "undoStart"))
    BY <1>10 DEF RenameOld
  <2>2. cli[p].pc = "rename"
    BY <1>10 DEF RenameOld
  <2>3. At(p, IF a.reply = "ok" THEN "disconnect" ELSE "undoStart")
    BY <2>1, RenameType DEF Step, Labels, Recreating
  <2>4. /\ a.reply = "ok" => docker'.name[Backup] = docker.name[Primary]
        /\ \/ docker'.name = docker.name
           \/ docker'.name[Backup] = docker.name[Primary]
    <3>1. docker' = a.w
      BY <2>1 DEF Step, Receive
    <3>2. Primary # Backup
      BY DEF Primary, Backup
    <3> QED
      BY <2>1, <3>1, <3>2, RenameType, NamesAfterRename
  <2>5. RoleOK(p)'
    BY <2>2, <2>3, RoleKept DEF RecreateOnly, UpDownOnly, Recreating
  <2>6. OldPlaced(p)'
    <3>1. cli[p].swap => /\ cli[p].old # None
                         /\ cli[p].old = docker.name[Primary]
      BY <2>2 DEF OldPlaced, AtPrimary
    <3>2. cli[p].swap => cli[p].old \in Existing(docker')
      BY <2>4, <3>1 DEF Existing, Names
    <3>3. CASE a.reply = "ok"
      BY <2>3, <2>4, <3>1, <3>3 DEF OldPlaced, At, AtPrimary, AtBackup
    <3>4. CASE a.reply # "ok"
      BY <2>3, <3>1, <3>2, <3>4 DEF OldPlaced, At, AtPrimary, AtBackup
    <3> QED
      BY <3>3, <3>4
  <2> QED
    BY <2>5, <2>6
<1>11. CASE DisconnectOld(p)
  <2>1. \E l \in {"create", "undoRename"} : At(p, l)
    BY <1>11, DisconnectType DEF DisconnectOld, Step, Labels, Recreating, Outcomes
  <2>2. cli[p].pc = "disconnect"
    BY <1>11 DEF DisconnectOld
  <2>3. NamesStay
    BY <1>11, HarmlessNames DEF Harmless
  <2>4. RoleOK(p)'
    BY <2>1, <2>2, RoleKept DEF RecreateOnly, UpDownOnly, Recreating
  <2>5. OldPlaced(p)'
    BY <2>1, <2>2, <2>3, StaysPlaced, NothingToPlace DEF AtPrimary, AtBackup
  <2> QED
    BY <2>4, <2>5
<1>12. CASE UndoRename(p)
  <2>1. PICK a \in Answers(p, DockerRename(docker, Backup, Primary)) :
          Step(p, a, Goto(p, a, "undoStart"))
    BY <1>12 DEF UndoRename
  <2>2. cli[p].pc = "undoRename"
    BY <1>12 DEF UndoRename
  <2>3. At(p, "undoStart")
    BY <2>1, RenameType DEF Step, Labels, Recreating
  <2>4. docker'.name = docker.name \/ docker'.name[Primary] = docker.name[Backup]
    <3>1. docker' = a.w
      BY <2>1 DEF Step, Receive
    <3>2. Primary # Backup
      BY DEF Primary, Backup
    <3> QED
      BY <2>1, <3>1, <3>2, RenameType, NamesAfterRename
  <2>5. RoleOK(p)'
    BY <2>2, <2>3, RoleKept DEF RecreateOnly, UpDownOnly, Recreating
  <2>6. OldPlaced(p)'
    <3>1. cli[p].swap => cli[p].old = docker.name[Backup] /\ cli[p].old # None
      BY <2>2 DEF OldPlaced, AtBackup
    <3>2. cli[p].swap => cli[p].old \in Existing(docker')
      BY <2>4, <3>1 DEF Existing
    <3> QED
      BY <2>3, <3>2 DEF OldPlaced, At, AtPrimary, AtBackup
  <2> QED
    BY <2>5, <2>6
<1>13. CASE UndoStart(p)
  <2>1. \E l \in {"idle"} : At(p, l)
    BY <1>13, StartType DEF UndoStart, Step, Labels, Outcomes
  <2>2. cli[p].pc = "undoStart"
    BY <1>13 DEF UndoStart
  <2> QED
    BY <2>1, <2>2, RoleKept, NothingToPlace
    DEF RecreateOnly, UpDownOnly, Recreating, AtPrimary, AtBackup
<1>14. CASE Create(p)
  <2> DEFINE Res(c) == IF env.image = "none" THEN Answer("missing", docker)
                       ELSE DockerCreate(docker, Primary, c, env.image)
  <2>1. PICK c \in Ctr \ docker.made : \E a \in Answers(p, Res(c)) :
          Step(p, a, IF a.reply = "ok"
                     THEN [Goto(p, a, "startNew") EXCEPT !.new = c]
                     ELSE NewFailed(p, "failed"))
    BY <1>14 DEF Create
  <2>2. PICK a \in Answers(p, Res(c)) :
          Step(p, a, IF a.reply = "ok"
                     THEN [Goto(p, a, "startNew") EXCEPT !.new = c]
                     ELSE NewFailed(p, "failed"))
    BY <2>1
  <2>3. a \in Gots
    <3>1. Res(c) \in Results
      BY ReadType, CreateType DEF TypeOK, Replies
    <3> QED
      BY <2>2, <3>1
  <2>4. cli[p].pc = "create"
    BY <1>14 DEF Create
  <2>5. \E l \in {"startNew", "rbStop", "idle"} :
          At(p, l) /\ (l = "rbStop" => cli[p].swap)
    <3>1. CASE a.reply = "ok"
      <4> DEFINE g == Goto(p, a, "startNew")
                 d == [g EXCEPT !.new = c]
      <4>1. /\ g \in Process /\ g.pc = "startNew" /\ g.op = cli[p].op
            /\ g.swap = cli[p].swap /\ g.old = cli[p].old
        BY <2>3, NextOfProcess, NextFields DEF Labels, Recreating
      <4> HIDE DEF g
      <4>2. /\ d \in Process /\ d.pc = g.pc /\ d.op = g.op
            /\ d.swap = g.swap /\ d.old = g.old
        BY <4>1 DEF Process
      <4>3. Receive(p, a, d)
        BY <2>2, <3>1 DEF Step, g
      <4> HIDE DEF d
      <4>4. At(p, "startNew")
        BY <4>1, <4>2, <4>3, StepFrame DEF At
      <4> QED
        BY <4>4
    <3>2. CASE a.reply # "ok"
      BY <2>2, <2>3, <3>2 DEF Step, Outcomes
    <3> QED
      BY <3>1, <3>2
  <2>6. NamesStay
    BY <1>14, HarmlessNames DEF Harmless
  <2>7. RoleOK(p)'
    BY <2>4, <2>5, RoleKept DEF RecreateOnly, UpDownOnly, Recreating
  <2>8. OldPlaced(p)'
    <3>1. PICK l \in {"startNew", "rbStop", "idle"} :
            At(p, l) /\ (l = "rbStop" => cli[p].swap)
      BY <2>5
    <3>2. CASE l = "idle"
      BY <3>1, <3>2, NothingToPlace DEF AtPrimary, AtBackup
    <3>3. CASE l # "idle"
      BY <3>1, <3>3, <2>4, <2>6, StaysPlaced DEF AtPrimary, AtBackup
    <3> QED
      BY <3>2, <3>3
  <2> QED
    BY <2>7, <2>8
<1>15. CASE StartNew(p)
  <2>1. \E l \in {"verify", "wait", "routes", "rbStop", "idle"} : At(p, l)
          /\ (l \in {"verify", "rbStop"} => cli[p].swap)
    BY <1>15, StartType DEF StartNew, AfterStart, Step, Labels, Recreating, Outcomes
  <2>2. cli[p].pc = "startNew"
    BY <1>15 DEF StartNew
  <2>3. NamesStay
    BY <1>15, HarmlessNames DEF Harmless
  <2>4. RoleOK(p)'
    BY <2>1, <2>2, RoleKept DEF RecreateOnly, UpDownOnly, Recreating
  <2>5. OldPlaced(p)'
    BY <2>1, <2>2, <2>3, StaysPlaced, NothingToPlace DEF AtPrimary, AtBackup
  <2> QED
    BY <2>4, <2>5
<1>16. ASSUME NEW a \in Health(p) PROVE a \in Gots
  BY <1>16, ReadType DEF Health, Replies
<1>17. CASE VerifyNew(p)
  <2>1. \E l \in {"commit", "rbStop", "idle"} : At(p, l)
          /\ (l = "rbStop" => cli[p].swap)
    BY <1>17, <1>16 DEF VerifyNew, Step, Labels, Recreating, Outcomes, Checked
  <2>2. cli[p].pc = "verify"
    BY <1>17 DEF VerifyNew
  <2>3. NamesStay
    BY <1>17, HarmlessNames DEF Harmless
  <2>4. RoleOK(p)'
    BY <2>1, <2>2, RoleKept DEF RecreateOnly, UpDownOnly, Recreating
  <2>5. OldPlaced(p)'
    BY <2>1, <2>2, <2>3, StaysPlaced, NothingToPlace DEF AtPrimary, AtBackup
  <2> QED
    BY <2>4, <2>5
<1>18. CASE Commit(p)
  <2>1. \E l \in {"idle", "wait"} : At(p, l)
    BY <1>18, RemoveType DEF Commit, Step, Labels, Outcomes
  <2>2. cli[p].pc = "commit"
    BY <1>18 DEF Commit
  <2> QED
    BY <2>1, <2>2, RoleKept, NothingToPlace
    DEF RecreateOnly, UpDownOnly, Recreating, AtPrimary, AtBackup
<1>19. CASE RbStop(p)
  <2>1. \E l \in {"rbRemove"} : At(p, l)
    BY <1>19, StopType DEF RbStop, Step, Labels, Recreating, Outcomes
  <2>2. cli[p].pc = "rbStop"
    BY <1>19 DEF RbStop
  <2>3. NamesStay
    BY <1>19, HarmlessNames DEF Harmless
  <2>4. RoleOK(p)'
    BY <2>1, <2>2, RoleKept DEF RecreateOnly, UpDownOnly, Recreating
  <2>5. OldPlaced(p)'
    BY <2>1, <2>2, <2>3, StaysPlaced, NothingToPlace DEF AtPrimary, AtBackup
  <2> QED
    BY <2>4, <2>5
<1>20. CASE RbRemove(p)
  <2>1. PICK a \in Answers(p, DockerRemove(docker, Primary)) :
          Step(p, a, IF a.reply \in Gone THEN Did(p, a, "remove", "rbConnect")
                     ELSE Critical(p))
    BY <1>20 DEF RbRemove
  <2>2. \E l \in {"idle", "rbConnect"} : At(p, l)
    BY <2>1, RemoveType DEF Step, Critical, Labels, Recreating, Outcomes
  <2>3. cli[p].pc = "rbRemove"
    BY <1>20 DEF RbRemove
  <2>4. docker'.name[Backup] = docker.name[Backup]
    <3>1. docker' = a.w
      BY <2>1 DEF Step, Receive
    <3> QED
      BY <2>1, <3>1, RemoveType, NamesAfterRemove DEF Names, Primary, Backup
  <2>5. RoleOK(p)'
    BY <2>2, <2>3, RoleKept DEF RecreateOnly, UpDownOnly, Recreating
  <2>6. OldPlaced(p)'
    BY <2>2, <2>3, <2>4 DEF OldPlaced, At, AtPrimary, AtBackup
  <2> QED
    BY <2>5, <2>6
<1>21. CASE RbConnect(p)
  <2>1. \E l \in {"rbStart", "idle"} : At(p, l)
    BY <1>21, ConnectType DEF RbConnect, Step, Labels, Recreating, Outcomes, Critical
  <2>2. cli[p].pc = "rbConnect"
    BY <1>21 DEF RbConnect
  <2>3. NamesStay
    BY <1>21, HarmlessNames DEF Harmless
  <2>4. RoleOK(p)'
    BY <2>1, <2>2, RoleKept DEF RecreateOnly, UpDownOnly, Recreating
  <2>5. OldPlaced(p)'
    BY <2>1, <2>2, <2>3, StaysPlaced, NothingToPlace DEF AtPrimary, AtBackup
  <2> QED
    BY <2>4, <2>5
<1>22. CASE RbStart(p)
  <2>1. \E l \in {"rbRename", "idle"} : At(p, l)
    BY <1>22, StartType DEF RbStart, Step, Labels, Recreating, Outcomes, Critical
  <2>2. cli[p].pc = "rbStart"
    BY <1>22 DEF RbStart
  <2>3. NamesStay
    BY <1>22, HarmlessNames DEF Harmless
  <2>4. RoleOK(p)'
    BY <2>1, <2>2, RoleKept DEF RecreateOnly, UpDownOnly, Recreating
  <2>5. OldPlaced(p)'
    BY <2>1, <2>2, <2>3, StaysPlaced, NothingToPlace DEF AtPrimary, AtBackup
  <2> QED
    BY <2>4, <2>5
<1>23. CASE RbRename(p)
  <2>1. PICK a \in Answers(p, DockerRename(docker, Backup, Primary)) :
          Step(p, a, IF a.reply = "ok"
                     THEN [Renew(p, "rbVerify") EXCEPT !.todo = @ \ {"rename"}]
                     ELSE Critical(p))
    BY <1>23 DEF RbRename
  <2>2. cli[p].pc = "rbRename"
    BY <1>23 DEF RbRename
  <2>3. CASE a.reply # "ok"
    <3>1. At(p, "idle")
      BY <2>1, <2>3, RenameType DEF Step, Critical, Outcomes
    <3> QED
      BY <2>2, <3>1, RoleKept, NothingToPlace
      DEF RecreateOnly, UpDownOnly, Recreating, AtPrimary, AtBackup
  <2>4. CASE a.reply = "ok"
    <3> DEFINE g == Renew(p, "rbVerify")
               c == [g EXCEPT !.todo = @ \ {"rename"}]
    <3>1. /\ g \in Process /\ g.pc = "rbVerify" /\ g.op = cli[p].op
          /\ g.swap = cli[p].swap /\ g.old = cli[p].old
      BY NextOfProcess, NextFields DEF Labels, Recreating
    <3> HIDE DEF g
    <3>2. /\ c \in Process /\ c.pc = g.pc /\ c.op = g.op
          /\ c.swap = g.swap /\ c.old = g.old
      BY <3>1 DEF Process
    <3>3. Receive(p, a, c)
      BY <2>1, <2>4 DEF Step, g
    <3> HIDE DEF c
    <3>4. At(p, "rbVerify")
      BY <3>1, <3>2, <3>3, StepFrame DEF At
    <3>5. docker'.name[Primary] = docker.name[Backup]
      <4>1. docker' = a.w
        BY <3>3 DEF Receive
      <4>2. Primary # Backup
        BY DEF Primary, Backup
      <4> QED
        BY <2>1, <2>4, <4>1, <4>2, RenameType, NamesAfterRename
    <3> QED
      BY <2>2, <3>4, <3>5, RoleKept
      DEF OldPlaced, At, AtPrimary, AtBackup, RecreateOnly, UpDownOnly, Recreating
  <2> QED
    BY <2>3, <2>4
<1>24. CASE RbVerify(p)
  <2>1. \E l \in {"idle"} : At(p, l)
    BY <1>24, <1>16 DEF RbVerify, Step, Labels, Outcomes, Checked
  <2>2. cli[p].pc = "rbVerify"
    BY <1>24 DEF RbVerify
  <2> QED
    BY <2>1, <2>2, RoleKept, NothingToPlace
    DEF RecreateOnly, UpDownOnly, Recreating, AtPrimary, AtBackup
<1>25. CASE Build(p)
  <2>1. \E l \in {"idle", "inspectPrimary", "rebuildStatus"} : At(p, l)
    <3>1. \A l : cli' = [cli EXCEPT ![p].pc = l] => At(p, l)
      BY DEF At, TypeOK, Process
    <3>2. \A o : cli' = [cli EXCEPT ![p] = End(p, o)] => At(p, "idle")
      BY NextFields DEF At, TypeOK
    <3> QED
      BY <1>25, <3>1, <3>2 DEF Build
  <2>2. cli[p].pc = "build"
    BY <1>25 DEF Build
  <2> QED
    BY <2>1, <2>2, RoleKept, NothingToPlace
    DEF RecreateOnly, UpDownOnly, Recreating, AtPrimary, AtBackup
<1>26. CASE UpInspect(p)
  <2>1. \E l \in {"preflight", "routes", "upStart"} : At(p, l)
    BY <1>26 DEF UpInspect, Step, Labels, Recreating, Outcomes
  <2>2. cli[p].pc = "upInspect"
    BY <1>26 DEF UpInspect
  <2>3. NamesStay
    BY <1>26, HarmlessNames DEF Harmless
  <2>4. RoleOK(p)'
    BY <2>1, <2>2, RoleKept DEF RecreateOnly, UpDownOnly, Recreating
  <2>5. OldPlaced(p)'
    <3>1. ~cli[p].swap
      BY <2>2 DEF RoleOK, UpDownOnly
    <3> QED
      BY <2>1, <3>1, NothingToPlace
  <2> QED
    BY <2>4, <2>5
<1>27. CASE UpStart(p)
  <2>1. \E l \in {"idle", "routes"} : At(p, l)
    BY <1>27, StartType DEF UpStart, Step, Labels, Outcomes
  <2>2. cli[p].pc = "upStart"
    BY <1>27 DEF UpStart
  <2> QED
    BY <2>1, <2>2, RoleKept, NothingToPlace
    DEF RecreateOnly, UpDownOnly, Recreating, AtPrimary, AtBackup
<1>28. CASE DownStop(p)
  <2>1. \E l \in {"idle", "upInspect"} : At(p, l)
    BY <1>28, StopType DEF DownStop, Step, Labels, Outcomes
  <2>2. cli[p].pc = "downStop"
    BY <1>28 DEF DownStop
  <2> QED
    BY <2>1, <2>2, RoleKept, NothingToPlace
    DEF RecreateOnly, UpDownOnly, Recreating, AtPrimary, AtBackup
<1>29. CASE Wait(p)
  <2>1. \E l \in {"idle", "lastRoutes"} : At(p, l)
    BY <1>29, <1>16 DEF Wait, Step, Labels, Outcomes, Checked
  <2>2. cli[p].pc = "wait"
    BY <1>29 DEF Wait
  <2> QED
    BY <2>1, <2>2, RoleKept, NothingToPlace
    DEF RecreateOnly, UpDownOnly, Recreating, AtPrimary, AtBackup
<1>30. CASE FixRoutes(p)
  <2>1. \E l \in {"idle", "wait", "lastRoutes"} : At(p, l)
    BY <1>30, ReadType DEF FixRoutes, Step, Replies, Labels, Outcomes
  <2>2. cli[p].pc \in {"routes", "lastRoutes"}
    BY <1>30 DEF FixRoutes
  <2> QED
    BY <2>1, <2>2, RoleKept, NothingToPlace
    DEF RecreateOnly, UpDownOnly, Recreating, AtPrimary, AtBackup
<1> QED
  BY <1>1, <1>2, <1>3, <1>4, <1>5, <1>6, <1>7, <1>8, <1>9, <1>10, <1>11, <1>12,
     <1>13, <1>14, <1>15, <1>17, <1>18, <1>19, <1>20, <1>21, <1>22, <1>23,
     <1>24, <1>25, <1>26, <1>27, <1>28, <1>29, <1>30
  DEF Advance, Recreate, Rollback, UpDown

(* Inv is inductive when only one process recreates.                         *)
LEMMA InvInit == Init => Inv
<1> SUFFICES ASSUME Init PROVE Inv
  OBVIOUS
<1>1. ASSUME NEW p \in Procs PROVE RoleOK(p) /\ OldPlaced(p)
  BY <1>1 DEF Init, RoleOK, OldPlaced
<1> QED
  BY <1>1, InitType DEF Inv

LEMMA InvNext == OneRecreator /\ Inv /\ [Next]_vars => Inv'
<1> SUFFICES ASSUME OneRecreator, Inv, [Next]_vars PROVE Inv'
  OBVIOUS
<1>1. TypeOK /\ TypeOK'
  <2>1. TypeOK
    BY DEF Inv
  <2>2. CASE UNCHANGED vars
    BY <2>1, <2>2 DEF vars, TypeOK
  <2>3. CASE Next
    BY <2>1, <2>3, SurroundingsType, BeginType, AdvanceType, KillType DEF Next
  <2> QED
    BY <2>1, <2>2, <2>3
<1>2. CASE UNCHANGED vars
  BY <1>1, <1>2 DEF vars, Inv, RoleOK, OldPlaced, Existing
<1>3. ASSUME NEW p \in Procs, Begin(p) PROVE Inv'
  <2>1. PICK op \in Commands[p] : cli' = [cli EXCEPT ![p] =
         [op |-> op, pc |-> FirstLabel(op), swap |-> FALSE, old |-> None,
          new |-> None, dead |-> FALSE, todo |-> {}, out |-> "none",
          served |-> \E c \in Ctr : Serving(docker, c),
          orphan |-> Orphan, hit |-> FALSE]]
    BY <1>3 DEF Begin
  <2>2. /\ cli'[p].op = op /\ cli'[p].pc = FirstLabel(op) /\ ~cli'[p].swap
        /\ \A q \in Procs \ {p} : cli'[q] = cli[q]
        /\ docker' = docker
    BY <1>1, <1>3, <2>1 DEF Begin, TypeOK
  <2>3. op \in AllCommands
    BY CommandsAssumption
  <2>4. FirstLabel(op) \in RecreateOnly => op \in Recreators
    BY <2>3 DEF FirstLabel, RecreateOnly, Recreating, AllCommands, Recreators
  <2>5. RoleOK(p)' /\ OldPlaced(p)'
    BY <2>2, <2>4 DEF RoleOK, OldPlaced
  <2>6. ASSUME NEW q \in Procs \ {p} PROVE RoleOK(q)' /\ OldPlaced(q)'
    BY <2>2, <2>6 DEF Inv, RoleOK, OldPlaced, Existing
  <2> QED
    BY <1>1, <2>5, <2>6 DEF Inv
<1>4. ASSUME NEW p \in Procs, Advance(p) PROVE Inv'
  BY <1>1, <1>4, Actor, Bystander DEF Inv
<1>5. ASSUME NEW p \in Procs, Kill(p) PROVE Inv'
  <2>1. /\ cli'[p].pc = "idle"
        /\ \A q \in Procs \ {p} : cli'[q] = cli[q]
        /\ docker' = docker
    BY <1>1, <1>5, NextFields DEF Kill, TypeOK
  <2>2. RoleOK(p)' /\ OldPlaced(p)'
    BY <2>1 DEF RoleOK, OldPlaced, AtPrimary, AtBackup
  <2>3. ASSUME NEW q \in Procs \ {p} PROVE RoleOK(q)' /\ OldPlaced(q)'
    BY <2>1, <2>3 DEF Inv, RoleOK, OldPlaced, Existing
  <2> QED
    BY <1>1, <2>2, <2>3 DEF Inv
<1>6. CASE Reboot
  <2>1. \A p \in Procs : cli'[p].pc = "idle"
    BY <1>1, <1>6, NextFields DEF Reboot
  <2> QED
    BY <1>1, <2>1 DEF Inv, RoleOK, OldPlaced, AtPrimary, AtBackup
<1>7. CASE EditInputs \/ ForeignJoins \/ ForeignLeaves
  <2>1. cli' = cli /\ docker'.name = docker.name
    BY <1>1, <1>7 DEF EditInputs, ForeignJoins, ForeignLeaves, TypeOK, World
  <2> QED
    BY <1>1, <2>1 DEF Inv, RoleOK, OldPlaced, Existing
<1> QED
  BY <1>2, <1>3, <1>4, <1>5, <1>6, <1>7 DEF Next, Surroundings

(* The container a swap replaces exists until the swap has committed, at     *)
(* every bound, whatever requests fail, however often the machine reboots,   *)
(* as long as only one process calls proxyRecreate.                          *)
THEOREM OldAlwaysKept ==
  ASSUME OneRecreator
  PROVE  Spec => []OldKept
<1>1. Init => Inv
  BY InvInit
<1>2. Inv /\ [Next]_vars => Inv'
  BY InvNext
<1>3. Inv => OldKept
  BY InvImpliesOldKept
<1> QED
  BY <1>1, <1>2, <1>3, PTL DEF Spec

-----------------------------------------------------------------------------
(* What is assumed, and what holds of one process at work.                   *)

(* One operator: nothing else drives the proxy.                              *)
Alone == \A p, q \in Procs : p = q

(* Neither of the commands that create a proxy beside a backup.              *)
NoUp == \A p \in Procs : Commands[p] \cap {"up", "restart"} = {}

Prim == docker.name[Primary]
Bak  == docker.name[Backup]

(* The daemon: two names are two containers, both handed out before, and     *)
(* nothing runs or is attached but what has a name.                          *)
Sane ==
  /\ Prim # None => Prim # Bak /\ Prim \in docker.made
  /\ Bak # None => Bak \in docker.made
  /\ docker.running \subseteq {Prim, Bak}
  /\ docker.attached \subseteq {Prim, Bak}

SwapOnly == (Recreating \ {"create", "startNew"}) \cup {"triageRemove", "commit"}
HealOnly == {"healConnect", "healStart", "healRename"}

(* By where the command is: which name is free, ...                          *)
PrimFree == {"disconnect", "undoRename", "rbConnect", "rbStart", "rbRename"}
BakFree  == {"stop", "rename", "rbVerify"}

Vacant(p) ==
  LET c == cli[p] IN
  /\ c.pc \in SwapOnly => c.swap
  /\ c.pc \in HealOnly => ~c.swap
  /\ c.pc = "inspectBackup" \/ c.pc \in HealOnly => (~c.swap => Prim = None)
  /\ c.pc \in PrimFree \/ (c.pc = "create" /\ c.swap) => Prim = None
  /\ c.pc \in BakFree \/ (c.pc = "preflight" /\ c.swap) => Bak = None

(* ... that the container replaced stays stopped until it is started again,  *)
(* with its endpoint back, ...                                               *)
Halted == {"rename", "disconnect", "undoRename", "undoStart", "create",
           "startNew", "verify", "rbStop", "rbRemove", "rbConnect", "rbStart"}

OldHalted(p) ==
  LET c == cli[p] IN
  /\ c.pc \in Halted /\ c.swap => c.old \notin docker.running
  /\ c.pc \in {"rbStart", "rbRename", "rbVerify"} => c.old \in docker.attached
  /\ c.pc = "rbRename" => c.old \in docker.running

(* ... and where the new one is, and what was seen of it.                    *)
NewPlaced(p) ==
  LET c == cli[p] IN
  /\ c.pc \in {"startNew", "verify", "commit"} =>
       c.new # None /\ Prim = c.new /\ c.new \in docker.attached
  /\ c.pc = "commit" => Passes(c.new)

(* What the last line of a command said is so.                               *)
TrueWhenSaid(p) ==
  LET c == cli[p] IN
  /\ (c.pc = "idle" /\ c.out = "rolledBack") =>
       Prim = c.old /\ Bak = None /\ c.old \in Holders(docker) /\ Passes(c.old)
  /\ (c.pc = "idle" /\ c.out = "committed") =>
       /\ Prim = c.new /\ c.new # c.old
       /\ c.new \in Holders(docker) /\ Passes(c.new)

(* A recreate that found only a stopped backup, and met no error, is on its  *)
(* way to restore it.                                                        *)
Healing(p) ==
  LET c == cli[p] IN
  (c.op = "recreate" /\ c.orphan = "stopped" /\ ~c.hit) =>
    /\ c.pc \in {"inspectPrimary", "inspectBackup", "idle"} \cup HealOnly
    /\ c.pc = "idle" => c.out \in {"recovered", "none", "killed"}
    /\ c.pc # "idle" => ~c.dead /\ Prim = None /\ Bak # None
    /\ c.pc \in {"inspectPrimary", "inspectBackup", "healConnect", "healStart"}
         => Bak \notin docker.running
    /\ c.pc = "inspectBackup" => ~c.swap

Solo(p) ==
  Vacant(p) /\ OldHalted(p) /\ NewPlaced(p) /\ TrueWhenSaid(p) /\ Healing(p)

SoloInv == Inv /\ Sane /\ \A p \in Procs : Solo(p)

-----------------------------------------------------------------------------
(* If no request is done and reported as failed: the rollbackState is what   *)
(* is left to do.                                                            *)
LeftToDo(p, todo) ==
  LET old == cli[p].old IN
  /\ Bak = old /\ old # None
  /\ \/ todo = ManualSteps /\ old \notin docker.running
     \/ /\ Prim = None
        /\ \/ todo = {"connect", "start", "rename"} /\ old \notin docker.running
           \/ /\ todo = {"start", "rename"}
              /\ old \notin docker.running /\ old \in docker.attached
           \/ todo = {"rename"} /\ old \in Holders(docker)

Recoverable(p) ==
  LET c == cli[p] IN
  /\ c.pc \in {"rbStop", "rbRemove"} => c.todo = ManualSteps
  /\ c.pc = "rbConnect" => c.todo = {"connect", "start", "rename"}
  /\ c.pc = "rbStart" => c.todo = {"start", "rename"}
  /\ c.pc = "rbRename" => c.todo = {"rename"}
  /\ (c.pc = "idle" /\ c.out = "critical") => LeftToDo(p, c.todo)

RecoverInv == \A p \in Procs : Recoverable(p)

-----------------------------------------------------------------------------
(* The daemon, field by field.                                               *)

(* Stopping a container takes it out of those that run, and does no more.    *)
LEMMA StopDoes ==
  ASSUME NEW w \in World, NEW n \in Names
  PROVE  LET r == DockerStop(w, n)
             c == w.name[n] IN
         /\ r.reply = IF c = None THEN "missing" ELSE "ok"
         /\ r.w.name = w.name /\ r.w.attached = w.attached
         /\ r.w.made = w.made /\ r.w.kind = w.kind /\ r.w.foreign = w.foreign
         /\ r.w.running = w.running \ {c} /\ r.w.sick = w.sick \ {c}
BY NoneAssumption DEF DockerStop, Answer, World

(* A start is refused to a container that needs the IP while it is taken.    *)
LEMMA StartDoes ==
  ASSUME NEW w \in World, NEW c, NEW ok
  PROVE  LET r == DockerStart(w, c, ok) IN
         /\ r.reply \in {"ok", "missing", "refused"}
         /\ r.w.name = w.name /\ r.w.attached = w.attached
         /\ r.w.made = w.made /\ r.w.kind = w.kind /\ r.w.foreign = w.foreign
         /\ r.reply = "ok" => c \in Existing(w) /\ r.w.running = w.running \cup {c}
         /\ r.reply # "ok" => r.w = w
         /\ r.reply = "missing" => c \notin Existing(w)
         /\ r.reply = "refused" =>
              c \notin w.running /\ c \in w.attached /\ (w.foreign \/ Holders(w) # {})
<1>1. CASE c \notin Existing(w)
  BY <1>1 DEF DockerStart, Answer
<1>2. CASE c \in Existing(w) /\ c \in w.running
  BY <1>2 DEF DockerStart, Answer, World
<1>3. CASE /\ c \in Existing(w) /\ c \notin w.running
           /\ c \in w.attached /\ (w.foreign \/ Holders(w) # {})
  BY <1>3 DEF DockerStart, Answer
<1>4. CASE /\ c \in Existing(w) /\ c \notin w.running
           /\ ~(c \in w.attached /\ (w.foreign \/ Holders(w) # {}))
  BY <1>4 DEF DockerStart, Answer, World
<1> QED
  BY <1>1, <1>2, <1>3, <1>4

(* A rename moves the name if it is there and the other one is free.         *)
LEMMA RenameDoes ==
  ASSUME NEW w \in World, NEW m \in Names, NEW n \in Names, m # n
  PROVE  LET r == DockerRename(w, m, n) IN
         /\ r.reply = IF w.name[m] = None THEN "missing"
                      ELSE IF w.name[n] # None THEN "refused" ELSE "ok"
         /\ r.w.attached = w.attached /\ r.w.running = w.running
         /\ r.w.made = w.made /\ r.w.kind = w.kind /\ r.w.foreign = w.foreign
         /\ r.w.sick = w.sick
         /\ r.reply = "ok" => r.w.name[m] = None /\ r.w.name[n] = w.name[m]
         /\ r.reply # "ok" => r.w = w
BY DEF DockerRename, Answer, World

(* A disconnect only takes the endpoint away.                                *)
LEMMA DisconnectDoes ==
  ASSUME NEW w \in World, NEW n \in Names
  PROVE  LET r == DockerDisconnect(w, n)
             c == w.name[n] IN
         /\ r.reply = IF c = None THEN "missing"
                      ELSE IF c \notin w.attached THEN "refused" ELSE "ok"
         /\ r.w.name = w.name /\ r.w.running = w.running
         /\ r.w.made = w.made /\ r.w.kind = w.kind /\ r.w.foreign = w.foreign
         /\ r.w.sick = w.sick
         /\ r.reply = "ok" => r.w.attached = w.attached \ {c}
         /\ r.reply # "ok" => r.w = w
BY DEF DockerDisconnect, Answer, World

(* A connect to a container that does not run cannot be refused.             *)
LEMMA ConnectDoes ==
  ASSUME NEW w \in World, NEW n \in Names
  PROVE  LET r == DockerConnect(w, n)
             c == w.name[n] IN
         /\ r.reply \in {"ok", "missing", "refused"}
         /\ r.w.name = w.name /\ r.w.running = w.running
         /\ r.w.made = w.made /\ r.w.kind = w.kind /\ r.w.foreign = w.foreign
         /\ r.w.sick = w.sick
         /\ r.reply = "ok" => c # None /\ r.w.attached = w.attached \cup {c}
         /\ r.reply # "ok" => r.w = w
         /\ r.reply = "missing" => c = None
         /\ c # None /\ c \notin w.running => r.reply = "ok"
         /\ c \in w.running /\ c \in w.attached => r.reply # "ok"
<1>1. CASE w.name[n] = None
  BY <1>1, NoneAssumption DEF DockerConnect, Answer, World
<1>2. CASE w.name[n] # None
  BY <1>2 DEF DockerConnect, Answer, World
<1> QED
  BY <1>1, <1>2

(* A forced removal leaves nothing of the container but its identity.        *)
LEMMA RemoveDoes ==
  ASSUME NEW w \in World, NEW n \in Names
  PROVE  LET r == DockerRemove(w, n)
             c == w.name[n] IN
         /\ r.reply = IF c = None THEN "missing" ELSE "ok"
         /\ r.w.name[n] = None
         /\ \A m \in Names : m # n => r.w.name[m] = w.name[m]
         /\ r.w.made = w.made /\ r.w.kind = w.kind /\ r.w.foreign = w.foreign
         /\ r.w.running = w.running \ {c} /\ r.w.sick = w.sick \ {c}
         /\ r.w.attached = w.attached \ {c}
<1>1. CASE w.name[n] = None
  BY <1>1, NoneAssumption DEF DockerRemove, Answer, World
<1>2. CASE w.name[n] # None
  BY <1>2 DEF DockerRemove, Answer, World
<1> QED
  BY <1>1, <1>2

(* A create takes a free name, and only records the endpoint.                *)
LEMMA CreateDoes ==
  ASSUME NEW w \in World, NEW c \in Ctr, NEW k \in Kinds
  PROVE  LET r == DockerCreate(w, Primary, c, k) IN
         /\ r.reply = IF w.name[Primary] # None THEN "refused" ELSE "ok"
         /\ r.w.name[Backup] = w.name[Backup] /\ r.w.running = w.running
         /\ r.w.foreign = w.foreign
         /\ r.reply = "ok" => /\ r.w.name[Primary] = c
                              /\ r.w.attached = w.attached \cup {c}
                              /\ r.w.made = w.made \cup {c}
         /\ r.reply # "ok" => r.w = w
BY DEF DockerCreate, Answer, World, Names, Primary, Backup

-----------------------------------------------------------------------------
(* A request and the process that made it.                                   *)

(* The daemon's own answer came, ...                                         *)
Replied(p, a, res) ==
  a.reply = res.reply /\ a.w = res.w /\ ~a.dead /\ a.cost = 0 /\ ~cli[p].dead

(* ... or an error did.                                                      *)
Failed(p, a, res) ==
  /\ a.reply = "error"
  /\ a.w = docker \/ (a.w = res.w /\ "late" \in FaultModes)
  /\ a.dead => cli[p].dead \/ "deadline" \in FaultModes
  /\ ~cli[p].dead => a.cost = 1 /\ spent.faults < MaxFaults

(* Those are all the answers there are.                                      *)
LEMMA TwoAnswers ==
  ASSUME NEW p \in Procs, NEW res, NEW a \in Answers(p, res)
  PROVE  Replied(p, a, res) \/ Failed(p, a, res)
<1>1. CASE cli[p].dead
  BY <1>1 DEF Answers, Got, Failed
<1>2. CASE ~cli[p].dead
  <2>1. \/ a = Got(res.reply, res.w, FALSE, 0)
        \/ spent.faults < MaxFaults /\ a \in Faulty(res)
    BY <1>2 DEF Answers
  <2>2. CASE a = Got(res.reply, res.w, FALSE, 0)
    BY <1>2, <2>2 DEF Got, Replied
  <2>3. CASE spent.faults < MaxFaults /\ a \in Faulty(res)
    <3>1. \/ a = Got("error", docker, FALSE, 1)
          \/ a = Got("error", res.w, FALSE, 1) /\ "late" \in FaultModes
          \/ a = Got("error", docker, TRUE, 1) /\ "deadline" \in FaultModes
      BY <2>3 DEF Faulty
    <3> QED
      BY <1>2, <2>3, <3>1 DEF Got, Failed
  <2> QED
    BY <2>1, <2>2, <2>3
<1> QED
  BY <1>1, <1>2

(* The process received a, and is at l with what it had but x, t and o.      *)
Turned(p, a, l, x, t, o) ==
  /\ cli'[p].pc = l /\ cli'[p].dead = x /\ cli'[p].todo = t /\ cli'[p].out = o
  /\ cli'[p].op = cli[p].op /\ cli'[p].swap = cli[p].swap
  /\ cli'[p].old = cli[p].old /\ cli'[p].new = cli[p].new
  /\ cli'[p].served = cli[p].served /\ cli'[p].orphan = cli[p].orphan

Received(p, a) ==
  /\ cli'[p].hit = (cli[p].hit \/ a.reply = "error" \/ docker.foreign)
  /\ docker' = a.w /\ env' = env
  /\ spent'.faults = spent.faults + a.cost
  /\ spent'.crashes = spent.crashes /\ spent'.foreign = spent.foreign

(* What Receive assigns, field by field.                                     *)
LEMMA ReceivedFields ==
  ASSUME TypeOK, NEW p \in Procs, NEW a \in Gots, NEW c \in Process,
         Receive(p, a, c)
  PROVE  /\ cli'[p].pc = c.pc /\ cli'[p].dead = c.dead /\ cli'[p].todo = c.todo
         /\ cli'[p].out = c.out /\ cli'[p].op = c.op /\ cli'[p].swap = c.swap
         /\ cli'[p].old = c.old /\ cli'[p].new = c.new
         /\ cli'[p].served = c.served /\ cli'[p].orphan = c.orphan
         /\ cli'[p].hit = (c.hit \/ a.reply = "error" \/ docker.foreign)
         /\ docker' = a.w /\ env' = env
         /\ spent'.faults = spent.faults + a.cost
         /\ spent'.crashes = spent.crashes /\ spent'.foreign = spent.foreign
<1>1. cli'[p] = [c EXCEPT !.hit = @ \/ a.reply = "error" \/ docker.foreign]
  BY DEF Receive, TypeOK
<1>2. docker' = a.w /\ env' = env /\ spent' = [spent EXCEPT !.faults = @ + a.cost]
  BY DEF Receive
<1>3. \A b : LET d == [c EXCEPT !.hit = b] IN
        /\ d.pc = c.pc /\ d.dead = c.dead /\ d.todo = c.todo
        /\ d.out = c.out /\ d.op = c.op /\ d.swap = c.swap
        /\ d.old = c.old /\ d.new = c.new
        /\ d.served = c.served /\ d.orphan = c.orphan /\ d.hit = b
  BY DEF Process
<1>4. /\ spent'.faults = spent.faults + a.cost
      /\ spent'.crashes = spent.crashes /\ spent'.foreign = spent.foreign
  BY <1>2 DEF TypeOK
<1> QED
  BY <1>1, <1>2, <1>3, <1>4

(* What the ways to go on keep of the process.                               *)
LEMMA Turns ==
  ASSUME TypeOK, NEW p \in Procs, NEW a \in Gots
  PROVE  /\ \A l \in Labels : Receive(p, a, Goto(p, a, l)) =>
              Turned(p, a, l, a.dead, cli[p].todo, cli[p].out) /\ Received(p, a)
         /\ \A l \in Labels : Receive(p, a, Renew(p, l)) =>
              Turned(p, a, l, FALSE, cli[p].todo, cli[p].out) /\ Received(p, a)
         /\ \A o \in Outcomes : Receive(p, a, End(p, o)) =>
              Turned(p, a, "idle", FALSE, cli[p].todo, o) /\ Received(p, a)
         /\ \A t : \A l \in Labels : Receive(p, a, Did(p, a, t, l)) =>
              /\ Turned(p, a, l, a.dead, cli[p].todo \ {t}, cli[p].out)
              /\ Received(p, a)
         /\ \A o \in Outcomes : Receive(p, a, NewFailed(p, o)) =>
              /\ IF cli[p].swap
                 THEN Turned(p, a, "rbStop", FALSE, ManualSteps, cli[p].out)
                 ELSE Turned(p, a, "idle", FALSE, cli[p].todo, o)
              /\ Received(p, a)
<1> DEFINE Has(c, l, x, t, o) ==
      /\ c.pc = l /\ c.dead = x /\ c.todo = t /\ c.out = o
      /\ c.op = cli[p].op /\ c.swap = cli[p].swap
      /\ c.old = cli[p].old /\ c.new = cli[p].new
      /\ c.served = cli[p].served /\ c.orphan = cli[p].orphan
      /\ c.hit = cli[p].hit
<1>1. ASSUME NEW c \in Process, NEW l, NEW x, NEW t, NEW o, Has(c, l, x, t, o),
             Receive(p, a, c)
      PROVE  Turned(p, a, l, x, t, o) /\ Received(p, a)
  BY <1>1, ReceivedFields DEF Turned, Received
<1>2. cli[p] \in Process
  BY DEF TypeOK
<1>3. \A l \in Labels : Has(Goto(p, a, l), l, a.dead, cli[p].todo, cli[p].out)
  BY <1>2 DEF Goto, Process
<1>4. \A l \in Labels : Has(Renew(p, l), l, FALSE, cli[p].todo, cli[p].out)
  BY <1>2 DEF Renew, Process
<1>5. \A o \in Outcomes : Has(End(p, o), "idle", FALSE, cli[p].todo, o)
  BY <1>2 DEF End, Process
<1>6. \A t : \A c \in Process : LET d == [c EXCEPT !.todo = t] IN
        /\ d.pc = c.pc /\ d.dead = c.dead /\ d.todo = t
        /\ d.out = c.out /\ d.op = c.op /\ d.swap = c.swap
        /\ d.old = c.old /\ d.new = c.new
        /\ d.served = c.served /\ d.orphan = c.orphan /\ d.hit = c.hit
  BY DEF Process
<1>7. \A c \in Process, t \in SUBSET ManualSteps : [c EXCEPT !.todo = t] \in Process
  BY DEF Process
<1>8. \A t : \A c \in Process : [c EXCEPT !.todo = c.todo \ {t}] \in Process
  BY DEF Process
<1> HIDE DEF Has
<1>9. \A l \in Labels : Receive(p, a, Goto(p, a, l)) =>
        Turned(p, a, l, a.dead, cli[p].todo, cli[p].out) /\ Received(p, a)
  BY <1>1, <1>3, NextOfProcess
<1>10. \A l \in Labels : Receive(p, a, Renew(p, l)) =>
         Turned(p, a, l, FALSE, cli[p].todo, cli[p].out) /\ Received(p, a)
  BY <1>1, <1>4, NextOfProcess
<1>11. \A o \in Outcomes : Receive(p, a, End(p, o)) =>
         Turned(p, a, "idle", FALSE, cli[p].todo, o) /\ Received(p, a)
  BY <1>1, <1>5, NextOfProcess
<1>12. ASSUME NEW t, NEW l \in Labels, Receive(p, a, Did(p, a, t, l))
       PROVE  /\ Turned(p, a, l, a.dead, cli[p].todo \ {t}, cli[p].out)
              /\ Received(p, a)
  <2> DEFINE g == Goto(p, a, l)
             d == [g EXCEPT !.todo = g.todo \ {t}]
  <2>1. g \in Process /\ Has(g, l, a.dead, cli[p].todo, cli[p].out)
    BY <1>3, NextOfProcess
  <2>2. Did(p, a, t, l) = d
    BY DEF Did
  <2> HIDE DEF g
  <2>3. d \in Process
    BY <2>1, <1>8
  <2>4. Has(d, l, a.dead, cli[p].todo \ {t}, cli[p].out)
    BY <2>1, <1>6 DEF Has
  <2> QED
    BY <1>1, <1>12, <2>2, <2>3, <2>4
<1>13. ASSUME NEW o \in Outcomes, Receive(p, a, NewFailed(p, o))
       PROVE  /\ IF cli[p].swap
                 THEN Turned(p, a, "rbStop", FALSE, ManualSteps, cli[p].out)
                 ELSE Turned(p, a, "idle", FALSE, cli[p].todo, o)
              /\ Received(p, a)
  <2>1. CASE ~cli[p].swap
    BY <1>11, <1>13, <2>1 DEF NewFailed
  <2>2. CASE cli[p].swap
    <3> DEFINE g == Renew(p, "rbStop")
               d == [g EXCEPT !.todo = ManualSteps]
    <3>1. g \in Process /\ Has(g, "rbStop", FALSE, cli[p].todo, cli[p].out)
      BY <1>4, NextOfProcess DEF Labels, Recreating
    <3>2. NewFailed(p, o) = d
      BY <2>2 DEF NewFailed
    <3> HIDE DEF g
    <3>3. d \in Process
      BY <3>1, <1>7
    <3>4. Has(d, "rbStop", FALSE, ManualSteps, cli[p].out)
      BY <3>1, <1>6 DEF Has
    <3> QED
      BY <1>1, <1>13, <2>2, <3>2, <3>3, <3>4
  <2> QED
    BY <2>1, <2>2
<1> QED
  BY <1>9, <1>10, <1>11, <1>12, <1>13
-----------------------------------------------------------------------------
(* Each request, as what was asked and where its answer leads.               *)

Request(p, a, res) ==
  a \in Gots /\ Received(p, a) /\ (Replied(p, a, res) \/ Failed(p, a, res))

(* The process stays as it is but for its label and its context; it ends.    *)
Onward(p, a, l) == Turned(p, a, l, a.dead, cli[p].todo, cli[p].out)
Anew(p, a, l)   == Turned(p, a, l, FALSE, cli[p].todo, cli[p].out)
Ends(p, a, o)   == Turned(p, a, "idle", FALSE, cli[p].todo, o)
Undoes(p, a, o) == IF cli[p].swap
                   THEN Turned(p, a, "rbStop", FALSE, ManualSteps, cli[p].out)
                   ELSE Ends(p, a, o)
Records(p, a, s, l) == Turned(p, a, l, a.dead, cli[p].todo \ {s}, cli[p].out)

Reading == Answer("ok", docker)

(* A step is one answer to one request.                                      *)
LEMMA StepRequest ==
  ASSUME TypeOK, NEW p \in Procs, NEW res \in Results, NEW a \in Answers(p, res),
         NEW c, Step(p, a, c)
  PROVE  /\ a \in Gots
         /\ Replied(p, a, res) \/ Failed(p, a, res)
         /\ Receive(p, a, c)
         /\ proven' = proven
BY AnswersFacts, TwoAnswers DEF Step

(* rebuild asks whether the proxy runs.                                      *)
LEMMA RebuildStatusDoes ==
  ASSUME TypeOK, NEW p \in Procs, RebuildStatus(p)
  PROVE  /\ cli[p].pc = "rebuildStatus" /\ proven' = proven
         /\ \E a \in Gots :
              /\ Request(p, a, Inspect(Primary))
              /\ \E l \in {"inspectPrimary", "wait"} : Anew(p, a, l)
<1>1. PICK a \in Answers(p, Inspect(Primary)) : 
        Step(p, a, Renew(p, IF a.reply = "ok" /\ docker.name[Primary] \in docker.running
                            THEN "inspectPrimary" ELSE "wait"))
  BY DEF RebuildStatus
<1>2. Inspect(Primary) \in Results
  BY Arguments
<1>3. /\ a \in Gots /\ proven' = proven
      /\ Replied(p, a, Inspect(Primary)) \/ Failed(p, a, Inspect(Primary))
  BY <1>1, <1>2, StepRequest
<1>4. /\ \E l \in {"inspectPrimary", "wait"} : Anew(p, a, l)
      /\ Received(p, a)
  BY <1>1, <1>3, Turns DEF Step, Anew, Labels, Recreating, Outcomes
<1> QED
  BY <1>3, <1>4 DEF RebuildStatus, Request

(* What stands under the backup's name.                                      *)
LEMMA InspectBackupDoes ==
  ASSUME TypeOK, NEW p \in Procs, InspectBackup(p)
  PROVE  /\ cli[p].pc = "inspectBackup" /\ proven' = proven
         /\ \E a \in Gots :
              /\ Request(p, a, Inspect(Backup))
              /\ IF a.reply = "error" THEN Ends(p, a, "failed")
                 ELSE IF a.reply = "missing" THEN Onward(p, a, "preflight")
                 ELSE IF cli[p].swap THEN Onward(p, a, "triageRemove")
                 ELSE Onward(p, a, "healConnect")
<1>1. PICK a \in Answers(p, Inspect(Backup)) : 
        Step(p, a, CASE a.reply = "error"   -> End(p, "failed")
                     [] a.reply = "missing" -> Goto(p, a, "preflight")
                     [] OTHER -> Goto(p, a, IF cli[p].swap THEN "triageRemove"
                                            ELSE "healConnect"))
  BY DEF InspectBackup
<1>2. Inspect(Backup) \in Results
  BY Arguments
<1>3. /\ a \in Gots /\ proven' = proven
      /\ Replied(p, a, Inspect(Backup)) \/ Failed(p, a, Inspect(Backup))
  BY <1>1, <1>2, StepRequest
<1>4. /\ IF a.reply = "error" THEN Ends(p, a, "failed")
         ELSE IF a.reply = "missing" THEN Onward(p, a, "preflight")
         ELSE IF cli[p].swap THEN Onward(p, a, "triageRemove")
         ELSE Onward(p, a, "healConnect")
      /\ Received(p, a)
  BY <1>1, <1>3, Turns DEF Step, Onward, Ends, Labels, Recreating, Outcomes
<1> QED
  BY <1>3, <1>4 DEF InspectBackup, Request

(* A backup beside a primary goes.                                           *)
LEMMA TriageRemoveDoes ==
  ASSUME TypeOK, NEW p \in Procs, TriageRemove(p)
  PROVE  /\ cli[p].pc = "triageRemove" /\ proven' = proven
         /\ \E a \in Gots :
              /\ Request(p, a, DockerRemove(docker, Backup))
              /\ IF a.reply \in Gone THEN Onward(p, a, "preflight") ELSE Ends(p, a, "failed")
<1>1. PICK a \in Answers(p, DockerRemove(docker, Backup)) : 
        Step(p, a, IF a.reply \in Gone THEN Goto(p, a, "preflight") ELSE End(p, "failed"))
  BY DEF TriageRemove
<1>2. DockerRemove(docker, Backup) \in Results
  BY Arguments, RemoveType
<1>3. /\ a \in Gots /\ proven' = proven
      /\ \/ Replied(p, a, DockerRemove(docker, Backup))
         \/ Failed(p, a, DockerRemove(docker, Backup))
  BY <1>1, <1>2, StepRequest
<1>4. /\ IF a.reply \in Gone THEN Onward(p, a, "preflight") ELSE Ends(p, a, "failed")
      /\ Received(p, a)
  BY <1>1, <1>3, Turns DEF Step, Onward, Ends, Labels, Recreating, Outcomes
<1> QED
  BY <1>3, <1>4 DEF TriageRemove, Request

(* The three requests that restore a backup.                                 *)
LEMMA HealConnectDoes ==
  ASSUME TypeOK, NEW p \in Procs, HealConnect(p)
  PROVE  /\ cli[p].pc = "healConnect" /\ proven' = proven
         /\ \E a \in Gots :
              /\ Request(p, a, DockerConnect(docker, Backup))
              /\ IF a.reply = "ok" THEN Onward(p, a, "healStart") ELSE Ends(p, a, "failed")
<1>1. PICK a \in Answers(p, DockerConnect(docker, Backup)) : 
        Step(p, a, IF a.reply = "ok" THEN Goto(p, a, "healStart") ELSE End(p, "failed"))
  BY DEF HealConnect
<1>2. DockerConnect(docker, Backup) \in Results
  BY Arguments, ConnectType
<1>3. /\ a \in Gots /\ proven' = proven
      /\ \/ Replied(p, a, DockerConnect(docker, Backup))
         \/ Failed(p, a, DockerConnect(docker, Backup))
  BY <1>1, <1>2, StepRequest
<1>4. /\ IF a.reply = "ok" THEN Onward(p, a, "healStart") ELSE Ends(p, a, "failed")
      /\ Received(p, a)
  BY <1>1, <1>3, Turns DEF Step, Onward, Ends, Labels, Recreating, Outcomes
<1> QED
  BY <1>3, <1>4 DEF HealConnect, Request

(* ... then its start, ...                                                   *)
LEMMA HealStartDoes ==
  ASSUME TypeOK, NEW p \in Procs, HealStart(p)
  PROVE  /\ cli[p].pc = "healStart" /\ proven' = proven
         /\ \E a \in Gots :
              /\ Request(p, a, DockerStart(docker, docker.name[Backup], ConfigOk))
              /\ IF a.reply = "ok" THEN Onward(p, a, "healRename") ELSE Ends(p, a, "failed")
<1>1. PICK a \in Answers(p, DockerStart(docker, docker.name[Backup], ConfigOk)) : 
        Step(p, a, IF a.reply = "ok" THEN Goto(p, a, "healRename") ELSE End(p, "failed"))
  BY DEF HealStart
<1>2. DockerStart(docker, docker.name[Backup], ConfigOk) \in Results
  BY Arguments, StartType
<1>3. /\ a \in Gots /\ proven' = proven
      /\ \/ Replied(p, a, DockerStart(docker, docker.name[Backup], ConfigOk))
         \/ Failed(p, a, DockerStart(docker, docker.name[Backup], ConfigOk))
  BY <1>1, <1>2, StepRequest
<1>4. /\ IF a.reply = "ok" THEN Onward(p, a, "healRename") ELSE Ends(p, a, "failed")
      /\ Received(p, a)
  BY <1>1, <1>3, Turns DEF Step, Onward, Ends, Labels, Recreating, Outcomes
<1> QED
  BY <1>3, <1>4 DEF HealStart, Request

(* ... then its name.                                                        *)
LEMMA HealRenameDoes ==
  ASSUME TypeOK, NEW p \in Procs, HealRename(p)
  PROVE  /\ cli[p].pc = "healRename" /\ proven' = proven
         /\ \E a \in Gots :
              /\ Request(p, a, DockerRename(docker, Backup, Primary))
              /\ IF a.reply # "ok" THEN Ends(p, a, "failed")
                 ELSE IF cli[p].op = "rebuild" THEN Anew(p, a, "wait")
                 ELSE Ends(p, a, "recovered")
<1>1. PICK a \in Answers(p, DockerRename(docker, Backup, Primary)) : 
        Step(p, a, IF a.reply # "ok" THEN End(p, "failed")
                   ELSE IF cli[p].op = "rebuild" THEN Renew(p, "wait")
                   ELSE End(p, "recovered"))
  BY DEF HealRename
<1>2. DockerRename(docker, Backup, Primary) \in Results
  BY Arguments, RenameType
<1>3. /\ a \in Gots /\ proven' = proven
      /\ \/ Replied(p, a, DockerRename(docker, Backup, Primary))
         \/ Failed(p, a, DockerRename(docker, Backup, Primary))
  BY <1>1, <1>2, StepRequest
<1>4. /\ IF a.reply # "ok" THEN Ends(p, a, "failed")
         ELSE IF cli[p].op = "rebuild" THEN Anew(p, a, "wait")
         ELSE Ends(p, a, "recovered")
      /\ Received(p, a)
  BY <1>1, <1>3, Turns DEF Step, Anew, Ends, Labels, Recreating, Outcomes
<1> QED
  BY <1>3, <1>4 DEF HealRename, Request

(* The swap, up to the new container.                                        *)
LEMMA StopOldDoes ==
  ASSUME TypeOK, NEW p \in Procs, StopOld(p)
  PROVE  /\ cli[p].pc = "stop" /\ proven' = proven
         /\ \E a \in Gots :
              /\ Request(p, a, DockerStop(docker, Primary))
              /\ IF a.reply \in Gone THEN Onward(p, a, "rename") ELSE Ends(p, a, "leftRunning")
<1>1. PICK a \in Answers(p, DockerStop(docker, Primary)) : 
        Step(p, a, IF a.reply \in Gone THEN Goto(p, a, "rename") ELSE End(p, "leftRunning"))
  BY DEF StopOld
<1>2. DockerStop(docker, Primary) \in Results
  BY Arguments, StopType
<1>3. /\ a \in Gots /\ proven' = proven
      /\ \/ Replied(p, a, DockerStop(docker, Primary))
         \/ Failed(p, a, DockerStop(docker, Primary))
  BY <1>1, <1>2, StepRequest
<1>4. /\ IF a.reply \in Gone THEN Onward(p, a, "rename") ELSE Ends(p, a, "leftRunning")
      /\ Received(p, a)
  BY <1>1, <1>3, Turns DEF Step, Onward, Ends, Labels, Recreating, Outcomes
<1> QED
  BY <1>3, <1>4 DEF StopOld, Request

(* ... the rename, which an error undoes, ...                                *)
LEMMA RenameOldDoes ==
  ASSUME TypeOK, NEW p \in Procs, RenameOld(p)
  PROVE  /\ cli[p].pc = "rename" /\ proven' = proven
         /\ \E a \in Gots :
              /\ Request(p, a, DockerRename(docker, Primary, Backup))
              /\ IF a.reply = "ok" THEN Onward(p, a, "disconnect") ELSE Onward(p, a, "undoStart")
<1>1. PICK a \in Answers(p, DockerRename(docker, Primary, Backup)) : 
        Step(p, a, Goto(p, a, IF a.reply = "ok" THEN "disconnect" ELSE "undoStart"))
  BY DEF RenameOld
<1>2. DockerRename(docker, Primary, Backup) \in Results
  BY Arguments, RenameType
<1>3. /\ a \in Gots /\ proven' = proven
      /\ \/ Replied(p, a, DockerRename(docker, Primary, Backup))
         \/ Failed(p, a, DockerRename(docker, Primary, Backup))
  BY <1>1, <1>2, StepRequest
<1>4. /\ IF a.reply = "ok" THEN Onward(p, a, "disconnect") ELSE Onward(p, a, "undoStart")
      /\ Received(p, a)
  BY <1>1, <1>3, Turns DEF Step, Onward, Labels, Recreating, Outcomes
<1> QED
  BY <1>3, <1>4 DEF RenameOld, Request

(* ... and the disconnect, likewise.                                         *)
LEMMA DisconnectOldDoes ==
  ASSUME TypeOK, NEW p \in Procs, DisconnectOld(p)
  PROVE  /\ cli[p].pc = "disconnect" /\ proven' = proven
         /\ \E a \in Gots :
              /\ Request(p, a, DockerDisconnect(docker, Backup))
              /\ IF a.reply = "ok" THEN Onward(p, a, "create") ELSE Onward(p, a, "undoRename")
<1>1. PICK a \in Answers(p, DockerDisconnect(docker, Backup)) : 
        Step(p, a, Goto(p, a, IF a.reply = "ok" THEN "create" ELSE "undoRename"))
  BY DEF DisconnectOld
<1>2. DockerDisconnect(docker, Backup) \in Results
  BY Arguments, DisconnectType
<1>3. /\ a \in Gots /\ proven' = proven
      /\ \/ Replied(p, a, DockerDisconnect(docker, Backup))
         \/ Failed(p, a, DockerDisconnect(docker, Backup))
  BY <1>1, <1>2, StepRequest
<1>4. /\ IF a.reply = "ok" THEN Onward(p, a, "create") ELSE Onward(p, a, "undoRename")
      /\ Received(p, a)
  BY <1>1, <1>3, Turns DEF Step, Onward, Labels, Recreating, Outcomes
<1> QED
  BY <1>3, <1>4 DEF DisconnectOld, Request

(* The two requests that undo it.                                            *)
LEMMA UndoRenameDoes ==
  ASSUME TypeOK, NEW p \in Procs, UndoRename(p)
  PROVE  /\ cli[p].pc = "undoRename" /\ proven' = proven
         /\ \E a \in Gots :
              /\ Request(p, a, DockerRename(docker, Backup, Primary))
              /\ Onward(p, a, "undoStart")
<1>1. PICK a \in Answers(p, DockerRename(docker, Backup, Primary)) : 
        Step(p, a, Goto(p, a, "undoStart"))
  BY DEF UndoRename
<1>2. DockerRename(docker, Backup, Primary) \in Results
  BY Arguments, RenameType
<1>3. /\ a \in Gots /\ proven' = proven
      /\ \/ Replied(p, a, DockerRename(docker, Backup, Primary))
         \/ Failed(p, a, DockerRename(docker, Backup, Primary))
  BY <1>1, <1>2, StepRequest
<1>4. /\ Onward(p, a, "undoStart")
      /\ Received(p, a)
  BY <1>1, <1>3, Turns DEF Step, Onward, Labels, Recreating, Outcomes
<1> QED
  BY <1>3, <1>4 DEF UndoRename, Request

(* ... and ends, whatever the start that undoes the stop says.               *)
LEMMA UndoStartDoes ==
  ASSUME TypeOK, NEW p \in Procs, UndoStart(p)
  PROVE  /\ cli[p].pc = "undoStart" /\ proven' = proven
         /\ \E a \in Gots :
              /\ Request(p, a, DockerStart(docker, docker.name[Primary], ConfigOk))
              /\ Ends(p, a, "restored")
<1>1. PICK a \in Answers(p, DockerStart(docker, docker.name[Primary], ConfigOk)) : 
        Step(p, a, End(p, "restored"))
  BY DEF UndoStart
<1>2. DockerStart(docker, docker.name[Primary], ConfigOk) \in Results
  BY Arguments, StartType
<1>3. /\ a \in Gots /\ proven' = proven
      /\ \/ Replied(p, a, DockerStart(docker, docker.name[Primary], ConfigOk))
         \/ Failed(p, a, DockerStart(docker, docker.name[Primary], ConfigOk))
  BY <1>1, <1>2, StepRequest
<1>4. /\ Ends(p, a, "restored")
      /\ Received(p, a)
  BY <1>1, <1>3, Turns DEF Step, Ends, Labels, Recreating, Outcomes
<1> QED
  BY <1>3, <1>4 DEF UndoStart, Request

(* The new container is started, ...                                         *)
LEMMA StartNewDoes ==
  ASSUME TypeOK, NEW p \in Procs, StartNew(p)
  PROVE  /\ cli[p].pc = "startNew" /\ proven' = proven
         /\ \E a \in Gots :
              /\ Request(p, a, DockerStart(docker, cli[p].new, ConfigOk))
              /\ IF a.reply # "ok" THEN Undoes(p, a, "failed")
                 ELSE IF cli[p].swap THEN Anew(p, a, "verify")
                 ELSE \E l \in {"routes", "wait"} :
                        Anew(p, a, l) /\ (l = "routes" => cli[p].op \in {"up", "restart"})
<1>1. PICK a \in Answers(p, DockerStart(docker, cli[p].new, ConfigOk)) : 
        Step(p, a, IF a.reply # "ok" THEN NewFailed(p, "failed")
                   ELSE Renew(p, IF cli[p].swap THEN "verify" ELSE AfterStart(p)))
  BY DEF StartNew
<1>2. DockerStart(docker, cli[p].new, ConfigOk) \in Results
  BY Arguments, StartType
<1>3. /\ a \in Gots /\ proven' = proven
      /\ \/ Replied(p, a, DockerStart(docker, cli[p].new, ConfigOk))
         \/ Failed(p, a, DockerStart(docker, cli[p].new, ConfigOk))
  BY <1>1, <1>2, StepRequest
<1>4. /\ IF a.reply # "ok" THEN Undoes(p, a, "failed")
         ELSE IF cli[p].swap THEN Anew(p, a, "verify")
         ELSE \E l \in {"routes", "wait"} :
                Anew(p, a, l) /\ (l = "routes" => cli[p].op \in {"up", "restart"})
      /\ Received(p, a)
  BY <1>1, <1>3, Turns DEF Step, AfterStart, Undoes, Anew, Ends, Labels, Recreating, Outcomes
<1> QED
  BY <1>3, <1>4 DEF StartNew, Request

(* ... and once it is verified the backup goes.                              *)
LEMMA CommitDoes ==
  ASSUME TypeOK, NEW p \in Procs, Commit(p)
  PROVE  /\ cli[p].pc = "commit" /\ proven' = proven
         /\ \E a \in Gots :
              /\ Request(p, a, DockerRemove(docker, Backup))
              /\ IF cli[p].op = "rebuild" THEN Anew(p, a, "wait") ELSE Ends(p, a, "committed")
<1>1. PICK a \in Answers(p, DockerRemove(docker, Backup)) : 
        Step(p, a, IF cli[p].op = "rebuild" THEN Renew(p, "wait") ELSE End(p, "committed"))
  BY DEF Commit
<1>2. DockerRemove(docker, Backup) \in Results
  BY Arguments, RemoveType
<1>3. /\ a \in Gots /\ proven' = proven
      /\ \/ Replied(p, a, DockerRemove(docker, Backup))
         \/ Failed(p, a, DockerRemove(docker, Backup))
  BY <1>1, <1>2, StepRequest
<1>4. /\ IF cli[p].op = "rebuild" THEN Anew(p, a, "wait") ELSE Ends(p, a, "committed")
      /\ Received(p, a)
  BY <1>1, <1>3, Turns DEF Step, Anew, Ends, Labels, Recreating, Outcomes
<1> QED
  BY <1>3, <1>4 DEF Commit, Request

(* The rollback.                                                             *)
LEMMA RbStopDoes ==
  ASSUME TypeOK, NEW p \in Procs, RbStop(p)
  PROVE  /\ cli[p].pc = "rbStop" /\ proven' = proven
         /\ \E a \in Gots :
              /\ Request(p, a, DockerStop(docker, Primary))
              /\ Onward(p, a, "rbRemove")
<1>1. PICK a \in Answers(p, DockerStop(docker, Primary)) : 
        Step(p, a, Goto(p, a, "rbRemove"))
  BY DEF RbStop
<1>2. DockerStop(docker, Primary) \in Results
  BY Arguments, StopType
<1>3. /\ a \in Gots /\ proven' = proven
      /\ \/ Replied(p, a, DockerStop(docker, Primary))
         \/ Failed(p, a, DockerStop(docker, Primary))
  BY <1>1, <1>2, StepRequest
<1>4. /\ Onward(p, a, "rbRemove")
      /\ Received(p, a)
  BY <1>1, <1>3, Turns DEF Step, Onward, Labels, Recreating, Outcomes
<1> QED
  BY <1>3, <1>4 DEF RbStop, Request

(* ... removes it, ...                                                       *)
LEMMA RbRemoveDoes ==
  ASSUME TypeOK, NEW p \in Procs, RbRemove(p)
  PROVE  /\ cli[p].pc = "rbRemove" /\ proven' = proven
         /\ \E a \in Gots :
              /\ Request(p, a, DockerRemove(docker, Primary))
              /\ IF a.reply \in Gone THEN Records(p, a, "remove", "rbConnect")
                 ELSE Ends(p, a, "critical")
<1>1. PICK a \in Answers(p, DockerRemove(docker, Primary)) : 
        Step(p, a, IF a.reply \in Gone THEN Did(p, a, "remove", "rbConnect") ELSE Critical(p))
  BY DEF RbRemove
<1>2. DockerRemove(docker, Primary) \in Results
  BY Arguments, RemoveType
<1>3. /\ a \in Gots /\ proven' = proven
      /\ \/ Replied(p, a, DockerRemove(docker, Primary))
         \/ Failed(p, a, DockerRemove(docker, Primary))
  BY <1>1, <1>2, StepRequest
<1>4. /\ IF a.reply \in Gone THEN Records(p, a, "remove", "rbConnect")
         ELSE Ends(p, a, "critical")
      /\ Received(p, a)
  BY <1>1, <1>3, Turns DEF Step, Records, Critical, Ends, Labels, Recreating, Outcomes
<1> QED
  BY <1>3, <1>4 DEF RbRemove, Request

(* ... reconnects the backup, ...                                            *)
LEMMA RbConnectDoes ==
  ASSUME TypeOK, NEW p \in Procs, RbConnect(p)
  PROVE  /\ cli[p].pc = "rbConnect" /\ proven' = proven
         /\ \E a \in Gots :
              /\ Request(p, a, DockerConnect(docker, Backup))
              /\ IF a.reply = "ok" THEN Records(p, a, "connect", "rbStart")
                 ELSE Ends(p, a, "critical")
<1>1. PICK a \in Answers(p, DockerConnect(docker, Backup)) : 
        Step(p, a, IF a.reply = "ok" THEN Did(p, a, "connect", "rbStart") ELSE Critical(p))
  BY DEF RbConnect
<1>2. DockerConnect(docker, Backup) \in Results
  BY Arguments, ConnectType
<1>3. /\ a \in Gots /\ proven' = proven
      /\ \/ Replied(p, a, DockerConnect(docker, Backup))
         \/ Failed(p, a, DockerConnect(docker, Backup))
  BY <1>1, <1>2, StepRequest
<1>4. /\ IF a.reply = "ok" THEN Records(p, a, "connect", "rbStart")
         ELSE Ends(p, a, "critical")
      /\ Received(p, a)
  BY <1>1, <1>3, Turns DEF Step, Records, Critical, Ends, Labels, Recreating, Outcomes
<1> QED
  BY <1>3, <1>4 DEF RbConnect, Request

(* ... and starts it, in that order.                                         *)
LEMMA RbStartDoes ==
  ASSUME TypeOK, NEW p \in Procs, RbStart(p)
  PROVE  /\ cli[p].pc = "rbStart" /\ proven' = proven
         /\ \E a \in Gots :
              /\ Request(p, a, DockerStart(docker, docker.name[Backup], ConfigOk))
              /\ IF a.reply = "ok" THEN Records(p, a, "start", "rbRename")
                 ELSE Ends(p, a, "critical")
<1>1. PICK a \in Answers(p, DockerStart(docker, docker.name[Backup], ConfigOk)) : 
        Step(p, a, IF a.reply = "ok" THEN Did(p, a, "start", "rbRename") ELSE Critical(p))
  BY DEF RbStart
<1>2. DockerStart(docker, docker.name[Backup], ConfigOk) \in Results
  BY Arguments, StartType
<1>3. /\ a \in Gots /\ proven' = proven
      /\ \/ Replied(p, a, DockerStart(docker, docker.name[Backup], ConfigOk))
         \/ Failed(p, a, DockerStart(docker, docker.name[Backup], ConfigOk))
  BY <1>1, <1>2, StepRequest
<1>4. /\ IF a.reply = "ok" THEN Records(p, a, "start", "rbRename")
         ELSE Ends(p, a, "critical")
      /\ Received(p, a)
  BY <1>1, <1>3, Turns DEF Step, Records, Critical, Ends, Labels, Recreating, Outcomes
<1> QED
  BY <1>3, <1>4 DEF RbStart, Request

(* up, restart and down.                                                     *)
LEMMA UpInspectDoes ==
  ASSUME TypeOK, NEW p \in Procs, UpInspect(p)
  PROVE  /\ cli[p].pc = "upInspect" /\ proven' = proven
         /\ \E a \in Gots :
              /\ Request(p, a, Inspect(Primary))
              /\ \E l \in {"preflight", "routes", "upStart"} :
                   Turned(p, a, l, IF l = "routes" THEN FALSE ELSE a.dead,
                          cli[p].todo, cli[p].out)
<1>1. PICK a \in Answers(p, Inspect(Primary)) : 
        Step(p, a, IF a.reply # "ok" THEN Goto(p, a, "preflight")
                   ELSE IF docker.name[Primary] \in docker.running THEN Renew(p, "routes")
                   ELSE Goto(p, a, "upStart"))
  BY DEF UpInspect
<1>2. Inspect(Primary) \in Results
  BY Arguments
<1>3. /\ a \in Gots /\ proven' = proven
      /\ Replied(p, a, Inspect(Primary)) \/ Failed(p, a, Inspect(Primary))
  BY <1>1, <1>2, StepRequest
<1>4. /\ \E l \in {"preflight", "routes", "upStart"} :
           Turned(p, a, l, IF l = "routes" THEN FALSE ELSE a.dead,
                  cli[p].todo, cli[p].out)
      /\ Received(p, a)
  BY <1>1, <1>3, Turns DEF Step, Labels, Recreating, Outcomes
<1> QED
  BY <1>3, <1>4 DEF UpInspect, Request

(* ... starts it, ...                                                        *)
LEMMA UpStartDoes ==
  ASSUME TypeOK, NEW p \in Procs, UpStart(p)
  PROVE  /\ cli[p].pc = "upStart" /\ proven' = proven
         /\ \E a \in Gots :
              /\ Request(p, a, DockerStart(docker, docker.name[Primary], ConfigOk))
              /\ IF a.reply = "ok" THEN Anew(p, a, "routes") ELSE Ends(p, a, "failed")
<1>1. PICK a \in Answers(p, DockerStart(docker, docker.name[Primary], ConfigOk)) : 
        Step(p, a, IF a.reply = "ok" THEN Renew(p, "routes") ELSE End(p, "failed"))
  BY DEF UpStart
<1>2. DockerStart(docker, docker.name[Primary], ConfigOk) \in Results
  BY Arguments, StartType
<1>3. /\ a \in Gots /\ proven' = proven
      /\ \/ Replied(p, a, DockerStart(docker, docker.name[Primary], ConfigOk))
         \/ Failed(p, a, DockerStart(docker, docker.name[Primary], ConfigOk))
  BY <1>1, <1>2, StepRequest
<1>4. /\ IF a.reply = "ok" THEN Anew(p, a, "routes") ELSE Ends(p, a, "failed")
      /\ Received(p, a)
  BY <1>1, <1>3, Turns DEF Step, Anew, Ends, Labels, Recreating, Outcomes
<1> QED
  BY <1>3, <1>4 DEF UpStart, Request

(* ... or stops it.                                                          *)
LEMMA DownStopDoes ==
  ASSUME TypeOK, NEW p \in Procs, DownStop(p)
  PROVE  /\ cli[p].pc = "downStop" /\ proven' = proven
         /\ \E a \in Gots :
              /\ Request(p, a, DockerStop(docker, Primary))
              /\ IF a.reply \notin Gone THEN Ends(p, a, "leftRunning")
                 ELSE IF cli[p].op = "restart" THEN Anew(p, a, "upInspect")
                 ELSE Ends(p, a, "down")
<1>1. PICK a \in Answers(p, DockerStop(docker, Primary)) : 
        Step(p, a, IF a.reply \notin Gone THEN End(p, "leftRunning")
                   ELSE IF cli[p].op = "restart" THEN Renew(p, "upInspect")
                   ELSE End(p, "down"))
  BY DEF DownStop
<1>2. DockerStop(docker, Primary) \in Results
  BY Arguments, StopType
<1>3. /\ a \in Gots /\ proven' = proven
      /\ \/ Replied(p, a, DockerStop(docker, Primary))
         \/ Failed(p, a, DockerStop(docker, Primary))
  BY <1>1, <1>2, StepRequest
<1>4. /\ IF a.reply \notin Gone THEN Ends(p, a, "leftRunning")
         ELSE IF cli[p].op = "restart" THEN Anew(p, a, "upInspect")
         ELSE Ends(p, a, "down")
      /\ Received(p, a)
  BY <1>1, <1>3, Turns DEF Step, Anew, Ends, Labels, Recreating, Outcomes
<1> QED
  BY <1>3, <1>4 DEF DownStop, Request

(* The rename that ends a rollback also opens a context for its check.       *)
LEMMA RbRenameDoes ==
  ASSUME TypeOK, NEW p \in Procs, RbRename(p)
  PROVE  /\ cli[p].pc = "rbRename" /\ proven' = proven
         /\ \E a \in Gots :
              /\ Request(p, a, DockerRename(docker, Backup, Primary))
              /\ IF a.reply = "ok"
                 THEN Turned(p, a, "rbVerify", FALSE, cli[p].todo \ {"rename"}, cli[p].out)
                 ELSE Ends(p, a, "critical")
<1> DEFINE g == Renew(p, "rbVerify")
           d == [g EXCEPT !.todo = @ \ {"rename"}]
<1>1. PICK a \in Answers(p, DockerRename(docker, Backup, Primary)) :
        Step(p, a, IF a.reply = "ok" THEN d ELSE Critical(p))
  BY DEF RbRename
<1>2. DockerRename(docker, Backup, Primary) \in Results
  BY Arguments, RenameType
<1>3. /\ a \in Gots /\ proven' = proven
      /\ \/ Replied(p, a, DockerRename(docker, Backup, Primary))
         \/ Failed(p, a, DockerRename(docker, Backup, Primary))
      /\ Receive(p, a, IF a.reply = "ok" THEN d ELSE Critical(p))
  BY <1>1, <1>2, StepRequest
<1>4. g \in Process /\ cli[p] \in Process
  BY NextOfProcess DEF Labels, Recreating
<1>5. /\ g.pc = "rbVerify" /\ g.dead = FALSE /\ g.todo = cli[p].todo
      /\ g.out = cli[p].out /\ g.op = cli[p].op /\ g.swap = cli[p].swap
      /\ g.old = cli[p].old /\ g.new = cli[p].new /\ g.served = cli[p].served
      /\ g.orphan = cli[p].orphan /\ g.hit = cli[p].hit
  BY <1>4 DEF Renew, Process
<1> HIDE DEF g
<1>6. /\ d \in Process
      /\ d.pc = g.pc /\ d.dead = g.dead /\ d.todo = g.todo \ {"rename"}
      /\ d.out = g.out /\ d.op = g.op /\ d.swap = g.swap
      /\ d.old = g.old /\ d.new = g.new /\ d.served = g.served
      /\ d.orphan = g.orphan /\ d.hit = g.hit
  BY <1>4 DEF Process
<1> HIDE DEF d
<1>7. CASE a.reply = "ok"
  <2>1. /\ Turned(p, a, "rbVerify", FALSE, cli[p].todo \ {"rename"}, cli[p].out)
        /\ Received(p, a)
    BY <1>3, <1>5, <1>6, <1>7, ReceivedFields DEF Turned, Received
  <2> QED
    BY <1>3, <1>7, <2>1 DEF Request, RbRename
<1>8. CASE a.reply # "ok"
  <2>1. Ends(p, a, "critical") /\ Received(p, a)
    BY <1>3, <1>8, Turns DEF Critical, Ends, Outcomes
  <2> QED
    BY <1>3, <1>8, <2>1 DEF Request, RbRename
<1> QED
  BY <1>7, <1>8

(* The first inspection notes what is to be replaced.                        *)
LEMMA InspectPrimaryDoes ==
  ASSUME TypeOK, NEW p \in Procs, InspectPrimary(p)
  PROVE  /\ cli[p].pc = "inspectPrimary" /\ proven' = proven
         /\ \E a \in Gots :
              /\ Request(p, a, Inspect(Primary))
              /\ \/ a.reply = "error" /\ Ends(p, a, "failed")
                 \/ /\ a.reply # "error"
                    /\ cli'[p].pc = "inspectBackup" /\ cli'[p].dead = a.dead
                    /\ cli'[p].todo = cli[p].todo /\ cli'[p].out = cli[p].out
                    /\ cli'[p].op = cli[p].op /\ cli'[p].new = cli[p].new
                    /\ cli'[p].swap = (a.reply = "ok")
                    /\ cli'[p].old = docker.name[Primary]
                    /\ cli'[p].served = cli[p].served
                    /\ cli'[p].orphan = cli[p].orphan
<1>1. PICK a \in Answers(p, Inspect(Primary)) :
        Step(p, a, IF a.reply = "error" THEN End(p, "failed")
                   ELSE [Goto(p, a, "inspectBackup") EXCEPT
                           !.swap = (a.reply = "ok"),
                           !.old  = docker.name[Primary]])
  BY DEF InspectPrimary
<1>2. /\ a \in Gots /\ proven' = proven
      /\ Replied(p, a, Inspect(Primary)) \/ Failed(p, a, Inspect(Primary))
  BY <1>1, StepRequest, Arguments
<1>3. CASE a.reply = "error"
  <2>1. Ends(p, a, "failed") /\ Received(p, a)
    BY <1>1, <1>2, <1>3, Turns DEF Step, Ends, Outcomes
  <2> QED
    BY <1>2, <1>3, <2>1 DEF Request, InspectPrimary
<1>4. CASE a.reply # "error"
  <2> DEFINE g == Goto(p, a, "inspectBackup")
             c == [g EXCEPT !.swap = (a.reply = "ok"),
                            !.old  = docker.name[Primary]]
  <2>1. g \in Process
    BY <1>2, NextOfProcess DEF Labels
  <2>2. /\ g.pc = "inspectBackup" /\ g.dead = a.dead /\ g.todo = cli[p].todo
        /\ g.out = cli[p].out /\ g.op = cli[p].op /\ g.new = cli[p].new
        /\ g.served = cli[p].served /\ g.orphan = cli[p].orphan
        /\ g.hit = cli[p].hit
    BY NextOfProcess DEF Goto, Process
  <2>3. Receive(p, a, c)
    BY <1>1, <1>4 DEF Step
  <2>4. (a.reply = "ok") \in BOOLEAN /\ docker.name[Primary] \in Ctr \cup {None}
    BY Arguments
  <2> HIDE DEF g
  <2>5. /\ c \in Process
        /\ c.pc = g.pc /\ c.dead = g.dead /\ c.todo = g.todo /\ c.out = g.out
        /\ c.op = g.op /\ c.new = g.new /\ c.served = g.served
        /\ c.orphan = g.orphan /\ c.hit = g.hit
        /\ c.swap = (a.reply = "ok") /\ c.old = docker.name[Primary]
    BY <2>1, <2>4 DEF Process
  <2> HIDE DEF c
  <2>6. /\ cli'[p].pc = "inspectBackup" /\ cli'[p].dead = a.dead
        /\ cli'[p].todo = cli[p].todo /\ cli'[p].out = cli[p].out
        /\ cli'[p].op = cli[p].op /\ cli'[p].new = cli[p].new
        /\ cli'[p].swap = (a.reply = "ok")
        /\ cli'[p].old = docker.name[Primary]
        /\ cli'[p].served = cli[p].served
        /\ cli'[p].orphan = cli[p].orphan
        /\ Received(p, a)
    BY <1>2, <2>2, <2>3, <2>5, ReceivedFields DEF Received
  <2> QED
    BY <1>2, <1>4, <2>6 DEF Request, InspectPrimary
<1> QED
  BY <1>3, <1>4

(* A preflight that went well leads on, and so does one whose inspection of  *)
(* the network failed.                                                       *)
LEMMA PreflightDoes ==
  ASSUME TypeOK, NEW p \in Procs, Preflight(p)
  PROVE  /\ cli[p].pc = "preflight" /\ proven' = proven
         /\ \E a \in Gots, r \in {"ok", "refused"} :
              /\ Request(p, a, Answer(r, docker))
              /\ \/ a.reply # "ok" /\ Ends(p, a, "failed")
                 \/ Onward(p, a, IF cli[p].swap THEN "stop" ELSE "create")
<1> DEFINE Res == Answer(IF InputsThere /\ ~docker.foreign THEN "ok" ELSE "refused", docker)
<1>1. PICK a \in Answers(p, Res) :
        \/ a.reply # "ok" /\ Step(p, a, End(p, "failed"))
        \/ Step(p, a, Goto(p, a, IF cli[p].swap THEN "stop" ELSE "create"))
  BY DEF Preflight
<1>2. Res \in Results
  BY Arguments, ReadType DEF Replies
<1>3. /\ a \in Gots /\ proven' = proven
      /\ Replied(p, a, Res) \/ Failed(p, a, Res)
  BY <1>1, <1>2, StepRequest
<1>4. /\ \/ a.reply # "ok" /\ Ends(p, a, "failed")
         \/ Onward(p, a, IF cli[p].swap THEN "stop" ELSE "create")
      /\ Received(p, a)
  BY <1>1, <1>3, Turns DEF Step, Ends, Onward, Labels, Recreating, Outcomes
<1>5. Request(p, a, Res)
  BY <1>3, <1>4 DEF Request
<1> QED
  BY <1>3, <1>4, <1>5 DEF Preflight

(* A create that went well hands out a new identity.                         *)
LEMMA CreateDone ==
  ASSUME TypeOK, NEW p \in Procs, Create(p)
  PROVE  /\ cli[p].pc = "create" /\ proven' = proven
         /\ \E a \in Gots, c \in Ctr \ docker.made, res \in Results :
              /\ Request(p, a, res)
              /\ \/ res = Answer("missing", docker)
                 \/ \E k \in Kinds : res = DockerCreate(docker, Primary, c, k)
              /\ \/ a.reply # "ok" /\ Undoes(p, a, "failed")
                 \/ /\ a.reply = "ok"
                    /\ cli'[p].pc = "startNew" /\ cli'[p].dead = a.dead
                    /\ cli'[p].todo = cli[p].todo /\ cli'[p].out = cli[p].out
                    /\ cli'[p].op = cli[p].op /\ cli'[p].swap = cli[p].swap
                    /\ cli'[p].old = cli[p].old /\ cli'[p].new = c
                    /\ cli'[p].served = cli[p].served
                    /\ cli'[p].orphan = cli[p].orphan
<1> DEFINE Res(c) == IF env.image = "none" THEN Answer("missing", docker)
                     ELSE DockerCreate(docker, Primary, c, env.image)
<1>1. PICK c \in Ctr \ docker.made : \E a \in Answers(p, Res(c)) :
        Step(p, a, IF a.reply = "ok"
                   THEN [Goto(p, a, "startNew") EXCEPT !.new = c]
                   ELSE NewFailed(p, "failed"))
  BY DEF Create
<1>2. PICK a \in Answers(p, Res(c)) :
        Step(p, a, IF a.reply = "ok"
                   THEN [Goto(p, a, "startNew") EXCEPT !.new = c]
                   ELSE NewFailed(p, "failed"))
  BY <1>1
<1>3. /\ Res(c) \in Results
      /\ \/ Res(c) = Answer("missing", docker)
         \/ \E k \in Kinds : Res(c) = DockerCreate(docker, Primary, c, k)
  BY Arguments, ReadType, CreateType DEF TypeOK, Replies
<1> HIDE DEF Res
<1>4. /\ a \in Gots /\ proven' = proven
      /\ Replied(p, a, Res(c)) \/ Failed(p, a, Res(c))
  BY <1>2, <1>3, StepRequest
<1>5. CASE a.reply # "ok"
  <2>1. Undoes(p, a, "failed") /\ Received(p, a)
    BY <1>2, <1>4, <1>5, Turns DEF Step, Undoes, Ends, Outcomes
  <2> QED
    BY <1>3, <1>4, <1>5, <2>1 DEF Request, Create
<1>6. CASE a.reply = "ok"
  <2> DEFINE g == Goto(p, a, "startNew")
             d == [g EXCEPT !.new = c]
  <2>1. g \in Process
    BY <1>4, NextOfProcess DEF Labels, Recreating
  <2>2. /\ g.pc = "startNew" /\ g.dead = a.dead /\ g.todo = cli[p].todo
        /\ g.out = cli[p].out /\ g.op = cli[p].op /\ g.swap = cli[p].swap
        /\ g.old = cli[p].old
        /\ g.served = cli[p].served /\ g.orphan = cli[p].orphan
        /\ g.hit = cli[p].hit
    <3>1. cli[p] \in Process
      BY NextOfProcess
    <3>2. g = [cli[p] EXCEPT !.pc = "startNew", !.dead = a.dead]
      BY DEF Goto
    <3> HIDE DEF g
    <3> QED BY <3>1, <3>2 DEF Process
  <2>3. Receive(p, a, d)
    BY <1>2, <1>6 DEF Step
  <2> HIDE DEF g
  <2>4. /\ d \in Process
        /\ d.pc = g.pc /\ d.dead = g.dead /\ d.todo = g.todo /\ d.out = g.out
        /\ d.op = g.op /\ d.swap = g.swap /\ d.old = g.old
        /\ d.served = g.served /\ d.orphan = g.orphan /\ d.hit = g.hit
        /\ d.new = c
    BY <2>1 DEF Process
  <2> HIDE DEF d
  <2>5. /\ cli'[p].pc = "startNew" /\ cli'[p].dead = a.dead
        /\ cli'[p].todo = cli[p].todo /\ cli'[p].out = cli[p].out
        /\ cli'[p].op = cli[p].op /\ cli'[p].swap = cli[p].swap
        /\ cli'[p].old = cli[p].old /\ cli'[p].new = c
        /\ cli'[p].served = cli[p].served
        /\ cli'[p].orphan = cli[p].orphan
        /\ Received(p, a)
    BY <1>4, <2>2, <2>3, <2>4, ReceivedFields DEF Received
  <2> QED
    BY <1>3, <1>4, <1>6, <2>5 DEF Request, Create
<1> QED
  BY <1>5, <1>6

(* A check of the container under the primary's name, and what it proves.    *)
Verdict == Answer(IF Passes(docker.name[Primary]) THEN "ok" ELSE "refused", docker)

Shows(a) == proven' = IF a.reply = "ok" THEN docker.name[Primary] ELSE proven

(* A health check is a request that also tells what to remember.             *)
LEMMA CheckedRequest ==
  ASSUME TypeOK, NEW p \in Procs, NEW a \in Health(p), NEW c, NEW d,
         Checked(p, a, c, d)
  PROVE  /\ a \in Gots
         /\ Replied(p, a, Verdict) \/ Failed(p, a, Verdict)
         /\ Receive(p, a, IF a.reply = "ok" THEN c ELSE d)
         /\ Shows(a)
<1>1. Verdict \in Results
  BY Arguments, ReadType DEF Verdict, Replies
<1>2. a \in Answers(p, Verdict)
  BY DEF Health, Verdict
<1> QED
  BY <1>1, <1>2, AnswersFacts, TwoAnswers DEF Checked, Shows

(* The check of the new container, ...                                       *)
LEMMA VerifyNewDoes ==
  ASSUME TypeOK, NEW p \in Procs, VerifyNew(p)
  PROVE  /\ cli[p].pc = "verify"
         /\ \E a \in Gots :
              /\ Request(p, a, Verdict) /\ Shows(a)
              /\ IF a.reply = "ok" THEN Anew(p, a, "commit") ELSE Undoes(p, a, "failed")
<1>1. PICK a \in Health(p) : Checked(p, a, Renew(p, "commit"), NewFailed(p, "failed"))
  BY DEF VerifyNew
<1>2. /\ a \in Gots
      /\ Replied(p, a, Verdict) \/ Failed(p, a, Verdict)
      /\ Receive(p, a, IF a.reply = "ok" THEN Renew(p, "commit") ELSE NewFailed(p, "failed"))
      /\ Shows(a)
  BY <1>1, CheckedRequest
<1>3. /\ IF a.reply = "ok" THEN Anew(p, a, "commit") ELSE Undoes(p, a, "failed")
      /\ Received(p, a)
  BY <1>2, Turns DEF Anew, Undoes, Ends, Labels, Outcomes
<1> QED
  BY <1>2, <1>3 DEF Request, VerifyNew

(* ... the check of the old one, back again, ...                             *)
LEMMA RbVerifyDoes ==
  ASSUME TypeOK, NEW p \in Procs, RbVerify(p)
  PROVE  /\ cli[p].pc = "rbVerify"
         /\ \E a \in Gots :
              /\ Request(p, a, Verdict) /\ Shows(a)
              /\ Ends(p, a, IF a.reply = "ok" THEN "rolledBack" ELSE "bothUnhealthy")
<1>1. PICK a \in Health(p) : Checked(p, a, End(p, "rolledBack"), End(p, "bothUnhealthy"))
  BY DEF RbVerify
<1>2. /\ a \in Gots
      /\ Replied(p, a, Verdict) \/ Failed(p, a, Verdict)
      /\ Receive(p, a, IF a.reply = "ok" THEN End(p, "rolledBack") ELSE End(p, "bothUnhealthy"))
      /\ Shows(a)
  BY <1>1, CheckedRequest
<1>3. /\ Ends(p, a, IF a.reply = "ok" THEN "rolledBack" ELSE "bothUnhealthy")
      /\ Received(p, a)
  BY <1>2, Turns DEF Ends, Outcomes
<1> QED
  BY <1>2, <1>3 DEF Request, RbVerify

(* ... and the wait for health.                                              *)
LEMMA WaitDoes ==
  ASSUME TypeOK, NEW p \in Procs, Wait(p)
  PROVE  /\ cli[p].pc = "wait"
         /\ \E a \in Gots :
              /\ Request(p, a, Verdict) /\ Shows(a)
              /\ IF a.reply # "ok" THEN Ends(p, a, "unhealthy")
                 ELSE IF cli[p].op = "up" THEN Anew(p, a, "lastRoutes")
                 ELSE Ends(p, a, "serving")
<1>1. PICK a \in Health(p) :
        Checked(p, a, IF cli[p].op = "up" THEN Renew(p, "lastRoutes")
                      ELSE End(p, "serving"), End(p, "unhealthy"))
  BY DEF Wait
<1>2. /\ a \in Gots
      /\ Replied(p, a, Verdict) \/ Failed(p, a, Verdict)
      /\ Receive(p, a, IF a.reply = "ok"
                       THEN IF cli[p].op = "up" THEN Renew(p, "lastRoutes")
                            ELSE End(p, "serving")
                       ELSE End(p, "unhealthy"))
      /\ Shows(a)
  BY <1>1, CheckedRequest
<1>3. /\ IF a.reply # "ok" THEN Ends(p, a, "unhealthy")
         ELSE IF cli[p].op = "up" THEN Anew(p, a, "lastRoutes")
         ELSE Ends(p, a, "serving")
      /\ Received(p, a)
  BY <1>2, Turns DEF Ends, Anew, Labels, Outcomes
<1> QED
  BY <1>2, <1>3 DEF Request, Wait

(* The routes are the workspaces' matter: the proxy's containers stay.       *)
LEMMA FixRoutesDoes ==
  ASSUME TypeOK, NEW p \in Procs, FixRoutes(p)
  PROVE  /\ cli[p].pc \in {"routes", "lastRoutes"} /\ proven' = proven
         /\ \E a \in Gots :
              /\ Request(p, a, Reading)
              /\ \/ \E o \in {"failed", "serving"} : Ends(p, a, o)
                 \/ \E l \in {"wait", "lastRoutes"} : Anew(p, a, l)
<1>1. PICK a \in Answers(p, Reading) :
        \/ \E o \in {"failed", "serving"} : Step(p, a, End(p, o))
        \/ \E l \in {"wait", "lastRoutes"} : Step(p, a, Renew(p, l))
  BY DEF FixRoutes, Reading
<1>2. Reading \in Results
  BY Arguments, ReadType DEF Reading, Replies
<1>3. /\ a \in Gots /\ proven' = proven
      /\ Replied(p, a, Reading) \/ Failed(p, a, Reading)
  BY <1>1, <1>2, StepRequest
<1>4. /\ \/ \E o \in {"failed", "serving"} : Ends(p, a, o)
         \/ \E l \in {"wait", "lastRoutes"} : Anew(p, a, l)
      /\ Received(p, a)
  BY <1>1, <1>3, Turns DEF Step, Ends, Anew, Labels, Outcomes
<1>5. Request(p, a, Reading)
  BY <1>3, <1>4 DEF Request
<1> QED
  BY <1>3, <1>4, <1>5 DEF FixRoutes

(* A build asks nothing of the daemon.                                       *)
LEMMA BuildDoes ==
  ASSUME TypeOK, NEW p \in Procs, Build(p)
  PROVE  /\ cli[p].pc = "build" /\ proven' = proven
         /\ docker' = docker /\ spent' = spent /\ env'.config = env.config
         /\ \/ /\ cli'[p].pc \in {"inspectPrimary", "rebuildStatus"}
               /\ cli'[p].dead = cli[p].dead /\ cli'[p].out = cli[p].out
            \/ cli'[p].pc = "idle" /\ ~cli'[p].dead /\ cli'[p].out = "failed"
         /\ cli'[p].op = cli[p].op /\ cli'[p].swap = cli[p].swap
         /\ cli'[p].old = cli[p].old /\ cli'[p].new = cli[p].new
         /\ cli'[p].served = cli[p].served /\ cli'[p].orphan = cli[p].orphan
         /\ cli'[p].hit = cli[p].hit /\ cli'[p].todo = cli[p].todo
<1>1. cli[p] \in Process
  BY DEF TypeOK
<1>2. CASE \E l \in {"inspectPrimary", "rebuildStatus"} : cli' = [cli EXCEPT ![p].pc = l]
  <2>1. PICK l \in {"inspectPrimary", "rebuildStatus"} : cli' = [cli EXCEPT ![p].pc = l]
    BY <1>2
  <2>2. cli'[p] = [cli[p] EXCEPT !.pc = l]
    BY <2>1 DEF TypeOK
  <2> QED
    BY <1>1, <2>2 DEF Build, Process, TypeOK
<1>3. CASE cli' = [cli EXCEPT ![p] = End(p, "failed")]
  <2>1. cli'[p] = [cli[p] EXCEPT !.pc = "idle", !.dead = FALSE, !.out = "failed"]
    BY <1>3 DEF End, TypeOK
  <2> QED
    BY <1>1, <2>1 DEF Build, Process, TypeOK
<1> QED
  BY <1>2, <1>3 DEF Build
-----------------------------------------------------------------------------
(* What a step does to the containers: nothing, ...                          *)
Unmoved == docker' = docker /\ Prim' = Prim /\ Bak' = Bak

(* ... or one thing to one of them, ...                                      *)
Others ==
  /\ Prim' = Prim /\ Bak' = Bak /\ docker'.made = docker.made
  /\ docker'.kind = docker.kind /\ docker'.foreign = docker.foreign

Stopped(c) ==
  /\ Others /\ docker'.attached = docker.attached
  /\ docker'.running = docker.running \ {c} /\ docker'.sick = docker.sick \ {c}

Started(c) ==
  /\ Others /\ docker'.attached = docker.attached
  /\ docker'.running = docker.running \cup {c} /\ c \in {Prim, Bak} /\ c # None

Attached(c) ==
  /\ Others /\ docker'.running = docker.running /\ docker'.sick = docker.sick
  /\ docker'.attached = docker.attached \cup {c} /\ c # None

Detached(c) ==
  /\ Others /\ docker'.running = docker.running /\ docker'.sick = docker.sick
  /\ docker'.attached = docker.attached \ {c}

(* ... to the name of the old one, ...                                       *)
SetAside ==
  /\ Prim # None /\ Bak = None /\ Prim' = None /\ Bak' = Prim
  /\ docker'.made = docker.made /\ docker'.kind = docker.kind
  /\ docker'.foreign = docker.foreign /\ docker'.attached = docker.attached
  /\ docker'.running = docker.running /\ docker'.sick = docker.sick

PutBack ==
  /\ Bak # None /\ Prim = None /\ Bak' = None /\ Prim' = Bak
  /\ docker'.made = docker.made /\ docker'.kind = docker.kind
  /\ docker'.foreign = docker.foreign /\ docker'.attached = docker.attached
  /\ docker'.running = docker.running /\ docker'.sick = docker.sick

(* ... or the end of c, whose name is x after it, the other being as it was. *)
Deleted(c, x, d, y) ==
  /\ x = None /\ y = d
  /\ docker'.made = docker.made /\ docker'.kind = docker.kind
  /\ docker'.foreign = docker.foreign
  /\ docker'.running = docker.running \ {c} /\ docker'.sick = docker.sick \ {c}
  /\ docker'.attached = docker.attached \ {c}

(* An error is one of those allowed, or comes of a context that expired; it  *)
(* leaves things as they were, or the request was done and reported late.    *)
Costs(p, a) ==
  /\ a.dead => a.reply = "error" /\ (cli[p].dead \/ "deadline" \in FaultModes)
  /\ a.reply = "error" =>
       /\ docker' = docker \/ "late" \in FaultModes
       /\ ~cli[p].dead => spent.faults < MaxFaults /\ spent'.faults = spent.faults + 1
  /\ a.reply # "error" => spent'.faults = spent.faults
  /\ spent'.foreign = spent.foreign /\ spent'.crashes = spent.crashes

(* Every request is such.                                                    *)
LEMMA ErrorCosts ==
  ASSUME TypeOK, NEW p \in Procs, NEW a, NEW res, Request(p, a, res), res.reply # "error"
  PROVE  Costs(p, a)
BY DEF Request, Received, Replied, Failed, Costs, TypeOK, Gots

-----------------------------------------------------------------------------
(* What each step finds, and what it does.                                   *)

(* rebuild's question.                                                       *)
RebuildStatusHas(p, a) ==
  /\ cli[p].pc = "rebuildStatus"
  /\ proven' = proven
  /\ Request(p, a, Inspect(Primary))
  /\ \E l \in {"inspectPrimary", "wait"} : Anew(p, a, l)
  /\ Unmoved
  /\ Costs(p, a)

LEMMA RebuildStatusEffect ==
  ASSUME Inv, Sane, NEW p \in Procs, Solo(p), RebuildStatus(p)
  PROVE  docker' \in World /\ \E a \in Gots : RebuildStatusHas(p, a)
<1>1. PICK a \in Gots :
        /\ Request(p, a, Inspect(Primary))
        /\ \E l \in {"inspectPrimary", "wait"} : Anew(p, a, l)
  BY RebuildStatusDoes DEF Inv
<1>2. /\ cli[p].pc = "rebuildStatus" /\ docker \in World /\ docker' \in World
      /\ proven' = proven
  BY <1>1, RebuildStatusDoes DEF Inv, TypeOK, Request, Received, Gots
<1>3. Unmoved
  BY <1>1, <1>2
  DEF Request, Received, Replied, Failed, Inspect, Answer, Verdict, Reading, Prim, Bak,
      Unmoved
<1>6. Costs(p, a)
  <2>1. Inspect(Primary).reply # "error"
    BY <1>2 DEF Inspect, Answer, Verdict, Reading
  <2> QED
    BY <1>1, <2>1, ErrorCosts DEF Inv
<1> QED
  BY <1>1, <1>2, <1>3, <1>6 DEF RebuildStatusHas

(* What the triage finds.                                                    *)
InspectBackupHas(p, a) ==
  /\ cli[p].pc = "inspectBackup"
  /\ cli[p].swap => Prim # None
  /\ ~cli[p].swap => Prim = None
  /\ proven' = proven
  /\ Request(p, a, Inspect(Backup))
  /\ IF a.reply = "error" THEN Ends(p, a, "failed")
     ELSE IF a.reply = "missing" THEN Onward(p, a, "preflight")
     ELSE IF cli[p].swap THEN Onward(p, a, "triageRemove")
     ELSE Onward(p, a, "healConnect")
  /\ Unmoved
  /\ a.reply = "missing" => Bak = None
  /\ a.reply \notin {"error", "missing"} => Bak # None
  /\ Costs(p, a)

LEMMA InspectBackupEffect ==
  ASSUME Inv, Sane, NEW p \in Procs, Solo(p), InspectBackup(p)
  PROVE  docker' \in World /\ \E a \in Gots : InspectBackupHas(p, a)
<1>1. PICK a \in Gots :
        /\ Request(p, a, Inspect(Backup))
        /\ IF a.reply = "error" THEN Ends(p, a, "failed")
           ELSE IF a.reply = "missing" THEN Onward(p, a, "preflight")
           ELSE IF cli[p].swap THEN Onward(p, a, "triageRemove")
           ELSE Onward(p, a, "healConnect")
  BY InspectBackupDoes DEF Inv
<1>2. /\ cli[p].pc = "inspectBackup" /\ docker \in World /\ docker' \in World
      /\ proven' = proven
  BY <1>1, InspectBackupDoes DEF Inv, TypeOK, Request, Received, Gots
<1>3. Unmoved
  BY <1>1, <1>2
  DEF Request, Received, Replied, Failed, Inspect, Answer, Verdict, Reading, Prim, Bak,
      Unmoved
<1>4. /\ cli[p].swap => Prim # None
      /\ ~cli[p].swap => Prim = None
  BY <1>2
  DEF Inv, RoleOK, UpDownOnly, OldPlaced, AtPrimary, AtBackup, Existing, Sane, Solo,
      Vacant, SwapOnly, HealOnly, PrimFree, BakFree, Recreating, OldHalted, Halted,
      NewPlaced, Prim, Bak
<1>5. /\ a.reply = "missing" => Bak = None
      /\ a.reply \notin {"error", "missing"} => Bak # None
  BY <1>1, <1>2, <1>4, NoneAssumption
  DEF Request, Received, Replied, Failed, Inspect, Answer, Verdict, Reading, Prim, Bak,
      Unmoved
<1>6. Costs(p, a)
  <2>1. Inspect(Backup).reply # "error"
    BY <1>2 DEF Inspect, Answer, Verdict, Reading
  <2> QED
    BY <1>1, <2>1, ErrorCosts DEF Inv
<1> QED
  BY <1>1, <1>2, <1>3, <1>4, <1>5, <1>6 DEF InspectBackupHas

(* The removal of a backup beside a primary.                                 *)
TriageRemoveHas(p, a) ==
  /\ cli[p].pc = "triageRemove"
  /\ cli[p].swap
  /\ Prim = cli[p].old /\ cli[p].old # None
  /\ proven' = proven
  /\ Request(p, a, DockerRemove(docker, Backup))
  /\ IF a.reply \in Gone THEN Onward(p, a, "preflight") ELSE Ends(p, a, "failed")
  /\ Unmoved \/ Deleted(Bak, Bak', Prim, Prim')
  /\ a.reply \in Gone => Bak' = None
  /\ Costs(p, a)

LEMMA TriageRemoveEffect ==
  ASSUME Inv, Sane, NEW p \in Procs, Solo(p), TriageRemove(p)
  PROVE  docker' \in World /\ \E a \in Gots : TriageRemoveHas(p, a)
<1>1. PICK a \in Gots :
        /\ Request(p, a, DockerRemove(docker, Backup))
        /\ IF a.reply \in Gone THEN Onward(p, a, "preflight") ELSE Ends(p, a, "failed")
  BY TriageRemoveDoes DEF Inv
<1>2. /\ cli[p].pc = "triageRemove" /\ docker \in World /\ docker' \in World
      /\ proven' = proven
  BY <1>1, TriageRemoveDoes DEF Inv, TypeOK, Request, Received, Gots
<1>3. Unmoved \/ Deleted(Bak, Bak', Prim, Prim')
  BY <1>1, <1>2, RemoveDoes
  DEF Request, Received, Replied, Failed, Prim, Bak, Names, Primary, Backup, Unmoved,
      Deleted, Gone
<1>4. /\ cli[p].swap
      /\ Prim = cli[p].old /\ cli[p].old # None
  BY <1>2
  DEF Inv, RoleOK, UpDownOnly, OldPlaced, AtPrimary, AtBackup, Existing, Sane, Solo,
      Vacant, SwapOnly, HealOnly, PrimFree, BakFree, Recreating, OldHalted, Halted,
      NewPlaced, Prim, Bak
<1>5. /\ a.reply \in Gone => Bak' = None
  BY <1>1, <1>2, <1>4, RemoveDoes, NoneAssumption
  DEF Request, Received, Replied, Failed, Prim, Bak, Names, Primary, Backup, Unmoved,
      Deleted, Gone
<1>6. Costs(p, a)
  <2>1. DockerRemove(docker, Backup).reply # "error"
    BY <1>2, RemoveDoes DEF Names
  <2> QED
    BY <1>1, <2>1, ErrorCosts DEF Inv
<1> QED
  BY <1>1, <1>2, <1>3, <1>4, <1>5, <1>6 DEF TriageRemoveHas

(* The restoring of a backup, request by request.                            *)
HealConnectHas(p, a) ==
  /\ cli[p].pc = "healConnect"
  /\ ~cli[p].swap
  /\ Prim = None
  /\ proven' = proven
  /\ Request(p, a, DockerConnect(docker, Backup))
  /\ IF a.reply = "ok" THEN Onward(p, a, "healStart") ELSE Ends(p, a, "failed")
  /\ Unmoved \/ Attached(Bak)
  /\ a.reply = "ok" => Attached(Bak)
  /\ a.reply # "error" /\ Bak # None /\ Bak \notin docker.running => a.reply = "ok"
  /\ Bak \in docker.running /\ Bak \in docker.attached => Unmoved /\ a.reply # "ok"
  /\ Costs(p, a)

LEMMA HealConnectEffect ==
  ASSUME Inv, Sane, NEW p \in Procs, Solo(p), HealConnect(p)
  PROVE  docker' \in World /\ \E a \in Gots : HealConnectHas(p, a)
<1>1. PICK a \in Gots :
        /\ Request(p, a, DockerConnect(docker, Backup))
        /\ IF a.reply = "ok" THEN Onward(p, a, "healStart") ELSE Ends(p, a, "failed")
  BY HealConnectDoes DEF Inv
<1>2. /\ cli[p].pc = "healConnect" /\ docker \in World /\ docker' \in World
      /\ proven' = proven
  BY <1>1, HealConnectDoes DEF Inv, TypeOK, Request, Received, Gots
<1>3. Unmoved \/ Attached(Bak)
  BY <1>1, <1>2, ConnectDoes
  DEF Request, Received, Replied, Failed, Prim, Bak, Names, Primary, Backup, Unmoved,
      Attached, Others
<1>4. /\ ~cli[p].swap
      /\ Prim = None
  BY <1>2
  DEF Inv, RoleOK, UpDownOnly, OldPlaced, AtPrimary, AtBackup, Existing, Sane, Solo,
      Vacant, SwapOnly, HealOnly, PrimFree, BakFree, Recreating, OldHalted, Halted,
      NewPlaced, Prim, Bak
<1>5. /\ a.reply = "ok" => Attached(Bak)
      /\ a.reply # "error" /\ Bak # None /\ Bak \notin docker.running => a.reply = "ok"
      /\ Bak \in docker.running /\ Bak \in docker.attached => Unmoved /\ a.reply # "ok"
  BY <1>1, <1>2, <1>4, ConnectDoes, NoneAssumption
  DEF Request, Received, Replied, Failed, Prim, Bak, Names, Primary, Backup, Unmoved,
      Attached, Others
<1>6. Costs(p, a)
  <2>1. DockerConnect(docker, Backup).reply # "error"
    BY <1>2, ConnectDoes DEF Names
  <2> QED
    BY <1>1, <2>1, ErrorCosts DEF Inv
<1> QED
  BY <1>1, <1>2, <1>3, <1>4, <1>5, <1>6 DEF HealConnectHas

(* A stopped backup that nothing else keeps from the IP starts.              *)
HealStartHas(p, a) ==
  /\ cli[p].pc = "healStart"
  /\ ~cli[p].swap
  /\ Prim = None
  /\ proven' = proven
  /\ Request(p, a, DockerStart(docker, docker.name[Backup], ConfigOk))
  /\ IF a.reply = "ok" THEN Onward(p, a, "healRename") ELSE Ends(p, a, "failed")
  /\ Unmoved \/ Started(Bak)
  /\ a.reply = "ok" => Started(Bak)
  /\ a.reply \notin {"ok", "error"} /\ Bak # None =>
       docker.foreign \/ Holders(docker) # {}
  /\ Costs(p, a)

LEMMA HealStartEffect ==
  ASSUME Inv, Sane, NEW p \in Procs, Solo(p), HealStart(p)
  PROVE  docker' \in World /\ \E a \in Gots : HealStartHas(p, a)
<1>1. PICK a \in Gots :
        /\ Request(p, a, DockerStart(docker, docker.name[Backup], ConfigOk))
        /\ IF a.reply = "ok" THEN Onward(p, a, "healRename") ELSE Ends(p, a, "failed")
  BY HealStartDoes DEF Inv
<1>2. /\ cli[p].pc = "healStart" /\ docker \in World /\ docker' \in World
      /\ proven' = proven
  BY <1>1, HealStartDoes DEF Inv, TypeOK, Request, Received, Gots
<1>3. Unmoved \/ Started(Bak)
  BY <1>1, <1>2, StartDoes
  DEF Request, Received, Replied, Failed, Prim, Bak, Names, Primary, Backup, Unmoved,
      Started, Others, Existing, Holders
<1>4. /\ ~cli[p].swap
      /\ Prim = None
  BY <1>2
  DEF Inv, RoleOK, UpDownOnly, OldPlaced, AtPrimary, AtBackup, Existing, Sane, Solo,
      Vacant, SwapOnly, HealOnly, PrimFree, BakFree, Recreating, OldHalted, Halted,
      NewPlaced, Prim, Bak
<1>5. /\ a.reply = "ok" => Started(Bak)
      /\ a.reply \notin {"ok", "error"} /\ Bak # None =>
           docker.foreign \/ Holders(docker) # {}
  BY <1>1, <1>2, <1>4, StartDoes, NoneAssumption
  DEF Request, Received, Replied, Failed, Prim, Bak, Names, Primary, Backup, Unmoved,
      Started, Others, Existing, Holders
<1>6. Costs(p, a)
  <2>1. DockerStart(docker, docker.name[Backup], ConfigOk).reply # "error"
    BY <1>2, StartDoes DEF Names
  <2> QED
    BY <1>1, <2>1, ErrorCosts DEF Inv
<1> QED
  BY <1>1, <1>2, <1>3, <1>4, <1>5, <1>6 DEF HealStartHas

(* And gets its name.                                                        *)
HealRenameHas(p, a) ==
  /\ cli[p].pc = "healRename"
  /\ ~cli[p].swap
  /\ Prim = None
  /\ proven' = proven
  /\ Request(p, a, DockerRename(docker, Backup, Primary))
  /\ IF a.reply # "ok" THEN Ends(p, a, "failed")
     ELSE IF cli[p].op = "rebuild" THEN Anew(p, a, "wait")
     ELSE Ends(p, a, "recovered")
  /\ Unmoved \/ PutBack
  /\ a.reply = "ok" => PutBack
  /\ a.reply # "error" /\ Bak # None /\ Prim = None => a.reply = "ok"
  /\ Costs(p, a)

LEMMA HealRenameEffect ==
  ASSUME Inv, Sane, NEW p \in Procs, Solo(p), HealRename(p)
  PROVE  docker' \in World /\ \E a \in Gots : HealRenameHas(p, a)
<1>1. PICK a \in Gots :
        /\ Request(p, a, DockerRename(docker, Backup, Primary))
        /\ IF a.reply # "ok" THEN Ends(p, a, "failed")
           ELSE IF cli[p].op = "rebuild" THEN Anew(p, a, "wait")
           ELSE Ends(p, a, "recovered")
  BY HealRenameDoes DEF Inv
<1>2. /\ cli[p].pc = "healRename" /\ docker \in World /\ docker' \in World
      /\ proven' = proven
  BY <1>1, HealRenameDoes DEF Inv, TypeOK, Request, Received, Gots
<1>3. Unmoved \/ PutBack
  BY <1>1, <1>2, RenameDoes
  DEF Request, Received, Replied, Failed, Prim, Bak, Names, Primary, Backup, Unmoved,
      PutBack
<1>4. /\ ~cli[p].swap
      /\ Prim = None
  BY <1>2
  DEF Inv, RoleOK, UpDownOnly, OldPlaced, AtPrimary, AtBackup, Existing, Sane, Solo,
      Vacant, SwapOnly, HealOnly, PrimFree, BakFree, Recreating, OldHalted, Halted,
      NewPlaced, Prim, Bak
<1>5. /\ a.reply = "ok" => PutBack
      /\ a.reply # "error" /\ Bak # None /\ Prim = None => a.reply = "ok"
  BY <1>1, <1>2, <1>4, RenameDoes, NoneAssumption
  DEF Request, Received, Replied, Failed, Prim, Bak, Names, Primary, Backup, Unmoved,
      PutBack
<1>6. Costs(p, a)
  <2>1. DockerRename(docker, Backup, Primary).reply # "error"
    BY <1>2, RenameDoes DEF Names, Primary, Backup
  <2> QED
    BY <1>1, <2>1, ErrorCosts DEF Inv
<1> QED
  BY <1>1, <1>2, <1>3, <1>4, <1>5, <1>6 DEF HealRenameHas

(* The swap's stop, ...                                                      *)
StopOldHas(p, a) ==
  /\ cli[p].pc = "stop"
  /\ cli[p].swap
  /\ Bak = None
  /\ Prim = cli[p].old /\ cli[p].old # None
  /\ proven' = proven
  /\ Request(p, a, DockerStop(docker, Primary))
  /\ IF a.reply \in Gone THEN Onward(p, a, "rename") ELSE Ends(p, a, "leftRunning")
  /\ Unmoved \/ Stopped(Prim)
  /\ a.reply # "error" => a.reply \in Gone
  /\ a.reply \in Gone => Prim \notin docker'.running
  /\ Costs(p, a)

LEMMA StopOldEffect ==
  ASSUME Inv, Sane, NEW p \in Procs, Solo(p), StopOld(p)
  PROVE  docker' \in World /\ \E a \in Gots : StopOldHas(p, a)
<1>1. PICK a \in Gots :
        /\ Request(p, a, DockerStop(docker, Primary))
        /\ IF a.reply \in Gone THEN Onward(p, a, "rename") ELSE Ends(p, a, "leftRunning")
  BY StopOldDoes DEF Inv
<1>2. /\ cli[p].pc = "stop" /\ docker \in World /\ docker' \in World
      /\ proven' = proven
  BY <1>1, StopOldDoes DEF Inv, TypeOK, Request, Received, Gots
<1>3. Unmoved \/ Stopped(Prim)
  BY <1>1, <1>2, StopDoes
  DEF Request, Received, Replied, Failed, Prim, Bak, Names, Primary, Backup, Unmoved,
      Stopped, Others, Gone
<1>4. /\ cli[p].swap
      /\ Bak = None
      /\ Prim = cli[p].old /\ cli[p].old # None
  BY <1>2
  DEF Inv, RoleOK, UpDownOnly, OldPlaced, AtPrimary, AtBackup, Existing, Sane, Solo,
      Vacant, SwapOnly, HealOnly, PrimFree, BakFree, Recreating, OldHalted, Halted,
      NewPlaced, Prim, Bak
<1>5. /\ a.reply # "error" => a.reply \in Gone
      /\ a.reply \in Gone => Prim \notin docker'.running
  BY <1>1, <1>2, <1>4, StopDoes, NoneAssumption
  DEF Request, Received, Replied, Failed, Prim, Bak, Names, Primary, Backup, Unmoved,
      Stopped, Others, Gone
<1>6. Costs(p, a)
  <2>1. DockerStop(docker, Primary).reply # "error"
    BY <1>2, StopDoes DEF Names
  <2> QED
    BY <1>1, <2>1, ErrorCosts DEF Inv
<1> QED
  BY <1>1, <1>2, <1>3, <1>4, <1>5, <1>6 DEF StopOldHas

(* ... its rename, ...                                                       *)
RenameOldHas(p, a) ==
  /\ cli[p].pc = "rename"
  /\ cli[p].swap
  /\ Bak = None
  /\ Prim = cli[p].old /\ cli[p].old # None
  /\ cli[p].old \notin docker.running
  /\ proven' = proven
  /\ Request(p, a, DockerRename(docker, Primary, Backup))
  /\ IF a.reply = "ok" THEN Onward(p, a, "disconnect") ELSE Onward(p, a, "undoStart")
  /\ Unmoved \/ SetAside
  /\ a.reply = "ok" => SetAside
  /\ a.reply # "ok" => a.reply = "error"
  /\ Costs(p, a)

LEMMA RenameOldEffect ==
  ASSUME Inv, Sane, NEW p \in Procs, Solo(p), RenameOld(p)
  PROVE  docker' \in World /\ \E a \in Gots : RenameOldHas(p, a)
<1>1. PICK a \in Gots :
        /\ Request(p, a, DockerRename(docker, Primary, Backup))
        /\ IF a.reply = "ok" THEN Onward(p, a, "disconnect") ELSE Onward(p, a, "undoStart")
  BY RenameOldDoes DEF Inv
<1>2. /\ cli[p].pc = "rename" /\ docker \in World /\ docker' \in World
      /\ proven' = proven
  BY <1>1, RenameOldDoes DEF Inv, TypeOK, Request, Received, Gots
<1>3. Unmoved \/ SetAside
  BY <1>1, <1>2, RenameDoes
  DEF Request, Received, Replied, Failed, Prim, Bak, Names, Primary, Backup, Unmoved,
      SetAside
<1>4. /\ cli[p].swap
      /\ Bak = None
      /\ Prim = cli[p].old /\ cli[p].old # None
      /\ cli[p].old \notin docker.running
  BY <1>2
  DEF Inv, RoleOK, UpDownOnly, OldPlaced, AtPrimary, AtBackup, Existing, Sane, Solo,
      Vacant, SwapOnly, HealOnly, PrimFree, BakFree, Recreating, OldHalted, Halted,
      NewPlaced, Prim, Bak
<1>5. /\ a.reply = "ok" => SetAside
      /\ a.reply # "ok" => a.reply = "error"
  BY <1>1, <1>2, <1>4, RenameDoes, NoneAssumption
  DEF Request, Received, Replied, Failed, Prim, Bak, Names, Primary, Backup, Unmoved,
      SetAside
<1>6. Costs(p, a)
  <2>1. DockerRename(docker, Primary, Backup).reply # "error"
    BY <1>2, RenameDoes DEF Names, Primary, Backup
  <2> QED
    BY <1>1, <2>1, ErrorCosts DEF Inv
<1> QED
  BY <1>1, <1>2, <1>3, <1>4, <1>5, <1>6 DEF RenameOldHas

(* ... and its disconnect.                                                   *)
DisconnectOldHas(p, a) ==
  /\ cli[p].pc = "disconnect"
  /\ cli[p].swap
  /\ Prim = None
  /\ Bak = cli[p].old /\ cli[p].old # None
  /\ cli[p].old \notin docker.running
  /\ proven' = proven
  /\ Request(p, a, DockerDisconnect(docker, Backup))
  /\ IF a.reply = "ok" THEN Onward(p, a, "create") ELSE Onward(p, a, "undoRename")
  /\ Unmoved \/ Detached(Bak)
  /\ a.reply = "ok" => Detached(Bak)
  /\ a.reply \notin {"ok", "error"} => Unmoved /\ Bak \notin docker.attached
  /\ Costs(p, a)

LEMMA DisconnectOldEffect ==
  ASSUME Inv, Sane, NEW p \in Procs, Solo(p), DisconnectOld(p)
  PROVE  docker' \in World /\ \E a \in Gots : DisconnectOldHas(p, a)
<1>1. PICK a \in Gots :
        /\ Request(p, a, DockerDisconnect(docker, Backup))
        /\ IF a.reply = "ok" THEN Onward(p, a, "create") ELSE Onward(p, a, "undoRename")
  BY DisconnectOldDoes DEF Inv
<1>2. /\ cli[p].pc = "disconnect" /\ docker \in World /\ docker' \in World
      /\ proven' = proven
  BY <1>1, DisconnectOldDoes DEF Inv, TypeOK, Request, Received, Gots
<1>3. Unmoved \/ Detached(Bak)
  BY <1>1, <1>2, DisconnectDoes
  DEF Request, Received, Replied, Failed, Prim, Bak, Names, Primary, Backup, Unmoved,
      Detached, Others
<1>4. /\ cli[p].swap
      /\ Prim = None
      /\ Bak = cli[p].old /\ cli[p].old # None
      /\ cli[p].old \notin docker.running
  BY <1>2
  DEF Inv, RoleOK, UpDownOnly, OldPlaced, AtPrimary, AtBackup, Existing, Sane, Solo,
      Vacant, SwapOnly, HealOnly, PrimFree, BakFree, Recreating, OldHalted, Halted,
      NewPlaced, Prim, Bak
<1>5. /\ a.reply = "ok" => Detached(Bak)
      /\ a.reply \notin {"ok", "error"} => Unmoved /\ Bak \notin docker.attached
  BY <1>1, <1>2, <1>4, DisconnectDoes, NoneAssumption
  DEF Request, Received, Replied, Failed, Prim, Bak, Names, Primary, Backup, Unmoved,
      Detached, Others
<1>6. Costs(p, a)
  <2>1. DockerDisconnect(docker, Backup).reply # "error"
    BY <1>2, DisconnectDoes DEF Names
  <2> QED
    BY <1>1, <2>1, ErrorCosts DEF Inv
<1> QED
  BY <1>1, <1>2, <1>3, <1>4, <1>5, <1>6 DEF DisconnectOldHas

(* The undo's rename ...                                                     *)
UndoRenameHas(p, a) ==
  /\ cli[p].pc = "undoRename"
  /\ cli[p].swap
  /\ Prim = None
  /\ Bak = cli[p].old /\ cli[p].old # None
  /\ cli[p].old \notin docker.running
  /\ proven' = proven
  /\ Request(p, a, DockerRename(docker, Backup, Primary))
  /\ Onward(p, a, "undoStart")
  /\ Unmoved \/ PutBack
  /\ a.reply # "error" => PutBack
  /\ Costs(p, a)

LEMMA UndoRenameEffect ==
  ASSUME Inv, Sane, NEW p \in Procs, Solo(p), UndoRename(p)
  PROVE  docker' \in World /\ \E a \in Gots : UndoRenameHas(p, a)
<1>1. PICK a \in Gots :
        /\ Request(p, a, DockerRename(docker, Backup, Primary))
        /\ Onward(p, a, "undoStart")
  BY UndoRenameDoes DEF Inv
<1>2. /\ cli[p].pc = "undoRename" /\ docker \in World /\ docker' \in World
      /\ proven' = proven
  BY <1>1, UndoRenameDoes DEF Inv, TypeOK, Request, Received, Gots
<1>3. Unmoved \/ PutBack
  BY <1>1, <1>2, RenameDoes
  DEF Request, Received, Replied, Failed, Prim, Bak, Names, Primary, Backup, Unmoved,
      PutBack
<1>4. /\ cli[p].swap
      /\ Prim = None
      /\ Bak = cli[p].old /\ cli[p].old # None
      /\ cli[p].old \notin docker.running
  BY <1>2
  DEF Inv, RoleOK, UpDownOnly, OldPlaced, AtPrimary, AtBackup, Existing, Sane, Solo,
      Vacant, SwapOnly, HealOnly, PrimFree, BakFree, Recreating, OldHalted, Halted,
      NewPlaced, Prim, Bak
<1>5. /\ a.reply # "error" => PutBack
  BY <1>1, <1>2, <1>4, RenameDoes, NoneAssumption
  DEF Request, Received, Replied, Failed, Prim, Bak, Names, Primary, Backup, Unmoved,
      PutBack
<1>6. Costs(p, a)
  <2>1. DockerRename(docker, Backup, Primary).reply # "error"
    BY <1>2, RenameDoes DEF Names, Primary, Backup
  <2> QED
    BY <1>1, <2>1, ErrorCosts DEF Inv
<1> QED
  BY <1>1, <1>2, <1>3, <1>4, <1>5, <1>6 DEF UndoRenameHas

(* ... and its start.                                                        *)
UndoStartHas(p, a) ==
  /\ cli[p].pc = "undoStart"
  /\ cli[p].swap
  /\ cli[p].old # None
  /\ proven' = proven
  /\ Request(p, a, DockerStart(docker, docker.name[Primary], ConfigOk))
  /\ Ends(p, a, "restored")
  /\ Unmoved \/ Started(Prim)
  /\ a.reply # "error" /\ Prim # None =>
       \/ Started(Prim)
       \/ Unmoved /\ (docker.foreign \/ Holders(docker) # {})
  /\ Costs(p, a)

LEMMA UndoStartEffect ==
  ASSUME Inv, Sane, NEW p \in Procs, Solo(p), UndoStart(p)
  PROVE  docker' \in World /\ \E a \in Gots : UndoStartHas(p, a)
<1>1. PICK a \in Gots :
        /\ Request(p, a, DockerStart(docker, docker.name[Primary], ConfigOk))
        /\ Ends(p, a, "restored")
  BY UndoStartDoes DEF Inv
<1>2. /\ cli[p].pc = "undoStart" /\ docker \in World /\ docker' \in World
      /\ proven' = proven
  BY <1>1, UndoStartDoes DEF Inv, TypeOK, Request, Received, Gots
<1>3. Unmoved \/ Started(Prim)
  BY <1>1, <1>2, StartDoes
  DEF Request, Received, Replied, Failed, Prim, Bak, Names, Primary, Backup, Unmoved,
      Started, Others, Existing, Holders
<1>4. /\ cli[p].swap
      /\ cli[p].old # None
  BY <1>2
  DEF Inv, RoleOK, UpDownOnly, OldPlaced, AtPrimary, AtBackup, Existing, Sane, Solo,
      Vacant, SwapOnly, HealOnly, PrimFree, BakFree, Recreating, OldHalted, Halted,
      NewPlaced, Prim, Bak
<1>5. /\ a.reply # "error" /\ Prim # None =>
           \/ Started(Prim)
           \/ Unmoved /\ (docker.foreign \/ Holders(docker) # {})
  BY <1>1, <1>2, <1>4, StartDoes, NoneAssumption
  DEF Request, Received, Replied, Failed, Prim, Bak, Names, Primary, Backup, Unmoved,
      Started, Others, Existing, Holders
<1>6. Costs(p, a)
  <2>1. DockerStart(docker, docker.name[Primary], ConfigOk).reply # "error"
    BY <1>2, StartDoes DEF Names
  <2> QED
    BY <1>1, <2>1, ErrorCosts DEF Inv
<1> QED
  BY <1>1, <1>2, <1>3, <1>4, <1>5, <1>6 DEF UndoStartHas

(* The new container beside the old one, ...                                 *)
StartNewHas(p, a) ==
  /\ cli[p].pc = "startNew"
  /\ cli[p].new # None /\ Prim = cli[p].new /\ cli[p].new \in docker.attached
  /\ cli[p].swap => /\ Bak = cli[p].old /\ cli[p].old # None
                    /\ cli[p].old \notin docker.running /\ cli[p].old # cli[p].new
  /\ proven' = proven
  /\ Request(p, a, DockerStart(docker, cli[p].new, ConfigOk))
  /\ IF a.reply # "ok" THEN Undoes(p, a, "failed")
     ELSE IF cli[p].swap THEN Anew(p, a, "verify")
     ELSE \E l \in {"routes", "wait"} :
            Anew(p, a, l) /\ (l = "routes" => cli[p].op \in {"up", "restart"})
  /\ Unmoved \/ Started(cli[p].new)
  /\ a.reply = "ok" => Started(cli[p].new)
  /\ Costs(p, a)

LEMMA StartNewEffect ==
  ASSUME Inv, Sane, NEW p \in Procs, Solo(p), StartNew(p)
  PROVE  docker' \in World /\ \E a \in Gots : StartNewHas(p, a)
<1>1. PICK a \in Gots :
        /\ Request(p, a, DockerStart(docker, cli[p].new, ConfigOk))
        /\ IF a.reply # "ok" THEN Undoes(p, a, "failed")
           ELSE IF cli[p].swap THEN Anew(p, a, "verify")
           ELSE \E l \in {"routes", "wait"} :
                  Anew(p, a, l) /\ (l = "routes" => cli[p].op \in {"up", "restart"})
  BY StartNewDoes DEF Inv
<1>2. /\ cli[p].pc = "startNew" /\ docker \in World /\ docker' \in World
      /\ proven' = proven
  BY <1>1, StartNewDoes DEF Inv, TypeOK, Request, Received, Gots
<1>3. Unmoved \/ Started(cli[p].new)
  BY <1>1, <1>2, StartDoes
  DEF Request, Received, Replied, Failed, Prim, Bak, Names, Primary, Backup, Unmoved,
      Started, Others, Existing, Holders
<1>4. /\ cli[p].new # None /\ Prim = cli[p].new /\ cli[p].new \in docker.attached
      /\ cli[p].swap => /\ Bak = cli[p].old /\ cli[p].old # None
                        /\ cli[p].old \notin docker.running /\ cli[p].old # cli[p].new
  BY <1>2
  DEF Inv, RoleOK, UpDownOnly, OldPlaced, AtPrimary, AtBackup, Existing, Sane, Solo,
      Vacant, SwapOnly, HealOnly, PrimFree, BakFree, Recreating, OldHalted, Halted,
      NewPlaced, Prim, Bak
<1>5. /\ a.reply = "ok" => Started(cli[p].new)
  BY <1>1, <1>2, <1>4, StartDoes, NoneAssumption
  DEF Request, Received, Replied, Failed, Prim, Bak, Names, Primary, Backup, Unmoved,
      Started, Others, Existing, Holders
<1>6. Costs(p, a)
  <2>1. DockerStart(docker, cli[p].new, ConfigOk).reply # "error"
    BY <1>2, StartDoes DEF Names
  <2> QED
    BY <1>1, <2>1, ErrorCosts DEF Inv
<1> QED
  BY <1>1, <1>2, <1>3, <1>4, <1>5, <1>6 DEF StartNewHas

(* ... which must have the IP and pass, ...                                  *)
VerifyNewHas(p, a) ==
  /\ cli[p].pc = "verify"
  /\ cli[p].swap
  /\ cli[p].new # None /\ Prim = cli[p].new /\ cli[p].new \in docker.attached
  /\ Bak = cli[p].old /\ cli[p].old # None
  /\ cli[p].old \notin docker.running
  /\ Request(p, a, Verdict) /\ Shows(a)
  /\ IF a.reply = "ok" THEN Anew(p, a, "commit") ELSE Undoes(p, a, "failed")
  /\ Unmoved
  /\ a.reply = "ok" => Passes(Prim)
  /\ Costs(p, a)

LEMMA VerifyNewEffect ==
  ASSUME Inv, Sane, NEW p \in Procs, Solo(p), VerifyNew(p)
  PROVE  docker' \in World /\ \E a \in Gots : VerifyNewHas(p, a)
<1>1. PICK a \in Gots :
        /\ Request(p, a, Verdict) /\ Shows(a)
        /\ IF a.reply = "ok" THEN Anew(p, a, "commit") ELSE Undoes(p, a, "failed")
  BY VerifyNewDoes DEF Inv
<1>2. /\ cli[p].pc = "verify" /\ docker \in World /\ docker' \in World
  BY <1>1, VerifyNewDoes DEF Inv, TypeOK, Request, Received, Gots
<1>3. Unmoved
  BY <1>1, <1>2
  DEF Request, Received, Replied, Failed, Inspect, Answer, Verdict, Reading, Prim, Bak,
      Unmoved
<1>4. /\ cli[p].swap
      /\ cli[p].new # None /\ Prim = cli[p].new /\ cli[p].new \in docker.attached
      /\ Bak = cli[p].old /\ cli[p].old # None
      /\ cli[p].old \notin docker.running
  BY <1>2
  DEF Inv, RoleOK, UpDownOnly, OldPlaced, AtPrimary, AtBackup, Existing, Sane, Solo,
      Vacant, SwapOnly, HealOnly, PrimFree, BakFree, Recreating, OldHalted, Halted,
      NewPlaced, Prim, Bak
<1>5. /\ a.reply = "ok" => Passes(Prim)
  BY <1>1, <1>2, <1>4, NoneAssumption
  DEF Request, Received, Replied, Failed, Inspect, Answer, Verdict, Reading, Prim, Bak,
      Unmoved
<1>6. Costs(p, a)
  <2>1. Verdict.reply # "error"
    BY <1>2 DEF Inspect, Answer, Verdict, Reading
  <2> QED
    BY <1>1, <2>1, ErrorCosts DEF Inv
<1> QED
  BY <1>1, <1>2, <1>3, <1>4, <1>5, <1>6 DEF VerifyNewHas

(* ... before the old one goes.                                              *)
CommitHas(p, a) ==
  /\ cli[p].pc = "commit"
  /\ cli[p].swap
  /\ cli[p].new # None /\ Prim = cli[p].new /\ cli[p].new \in docker.attached
  /\ Bak = cli[p].old /\ cli[p].old # None
  /\ cli[p].old # cli[p].new
  /\ Passes(cli[p].new)
  /\ proven' = proven
  /\ Request(p, a, DockerRemove(docker, Backup))
  /\ IF cli[p].op = "rebuild" THEN Anew(p, a, "wait") ELSE Ends(p, a, "committed")
  /\ Unmoved \/ Deleted(Bak, Bak', Prim, Prim')
  /\ a.reply # "error" => Bak' = None
  /\ Costs(p, a)

LEMMA CommitEffect ==
  ASSUME Inv, Sane, NEW p \in Procs, Solo(p), Commit(p)
  PROVE  docker' \in World /\ \E a \in Gots : CommitHas(p, a)
<1>1. PICK a \in Gots :
        /\ Request(p, a, DockerRemove(docker, Backup))
        /\ IF cli[p].op = "rebuild" THEN Anew(p, a, "wait") ELSE Ends(p, a, "committed")
  BY CommitDoes DEF Inv
<1>2. /\ cli[p].pc = "commit" /\ docker \in World /\ docker' \in World
      /\ proven' = proven
  BY <1>1, CommitDoes DEF Inv, TypeOK, Request, Received, Gots
<1>3. Unmoved \/ Deleted(Bak, Bak', Prim, Prim')
  BY <1>1, <1>2, RemoveDoes
  DEF Request, Received, Replied, Failed, Prim, Bak, Names, Primary, Backup, Unmoved,
      Deleted
<1>4. /\ cli[p].swap
      /\ cli[p].new # None /\ Prim = cli[p].new /\ cli[p].new \in docker.attached
      /\ Bak = cli[p].old /\ cli[p].old # None
      /\ cli[p].old # cli[p].new
      /\ Passes(cli[p].new)
  BY <1>2
  DEF Inv, RoleOK, UpDownOnly, OldPlaced, AtPrimary, AtBackup, Existing, Sane, Solo,
      Vacant, SwapOnly, HealOnly, PrimFree, BakFree, Recreating, OldHalted, Halted,
      NewPlaced, Prim, Bak
<1>5. /\ a.reply # "error" => Bak' = None
  BY <1>1, <1>2, <1>4, RemoveDoes, NoneAssumption
  DEF Request, Received, Replied, Failed, Prim, Bak, Names, Primary, Backup, Unmoved,
      Deleted
<1>6. Costs(p, a)
  <2>1. DockerRemove(docker, Backup).reply # "error"
    BY <1>2, RemoveDoes DEF Names
  <2> QED
    BY <1>1, <2>1, ErrorCosts DEF Inv
<1> QED
  BY <1>1, <1>2, <1>3, <1>4, <1>5, <1>6 DEF CommitHas

(* The rollback clears the way, ...                                          *)
RbStopHas(p, a) ==
  /\ cli[p].pc = "rbStop"
  /\ cli[p].swap
  /\ Bak = cli[p].old /\ cli[p].old # None
  /\ cli[p].old \notin docker.running
  /\ proven' = proven
  /\ Request(p, a, DockerStop(docker, Primary))
  /\ Onward(p, a, "rbRemove")
  /\ Unmoved \/ Stopped(Prim)
  /\ Costs(p, a)

LEMMA RbStopEffect ==
  ASSUME Inv, Sane, NEW p \in Procs, Solo(p), RbStop(p)
  PROVE  docker' \in World /\ \E a \in Gots : RbStopHas(p, a)
<1>1. PICK a \in Gots :
        /\ Request(p, a, DockerStop(docker, Primary))
        /\ Onward(p, a, "rbRemove")
  BY RbStopDoes DEF Inv
<1>2. /\ cli[p].pc = "rbStop" /\ docker \in World /\ docker' \in World
      /\ proven' = proven
  BY <1>1, RbStopDoes DEF Inv, TypeOK, Request, Received, Gots
<1>3. Unmoved \/ Stopped(Prim)
  BY <1>1, <1>2, StopDoes
  DEF Request, Received, Replied, Failed, Prim, Bak, Names, Primary, Backup, Unmoved,
      Stopped, Others
<1>4. /\ cli[p].swap
      /\ Bak = cli[p].old /\ cli[p].old # None
      /\ cli[p].old \notin docker.running
  BY <1>2
  DEF Inv, RoleOK, UpDownOnly, OldPlaced, AtPrimary, AtBackup, Existing, Sane, Solo,
      Vacant, SwapOnly, HealOnly, PrimFree, BakFree, Recreating, OldHalted, Halted,
      NewPlaced, Prim, Bak
<1>6. Costs(p, a)
  <2>1. DockerStop(docker, Primary).reply # "error"
    BY <1>2, StopDoes DEF Names
  <2> QED
    BY <1>1, <2>1, ErrorCosts DEF Inv
<1> QED
  BY <1>1, <1>2, <1>3, <1>4, <1>6 DEF RbStopHas

(* ... frees the name, ...                                                   *)
RbRemoveHas(p, a) ==
  /\ cli[p].pc = "rbRemove"
  /\ cli[p].swap
  /\ Bak = cli[p].old /\ cli[p].old # None
  /\ cli[p].old \notin docker.running
  /\ proven' = proven
  /\ Request(p, a, DockerRemove(docker, Primary))
  /\ IF a.reply \in Gone THEN Records(p, a, "remove", "rbConnect")
     ELSE Ends(p, a, "critical")
  /\ Unmoved \/ Deleted(Prim, Prim', Bak, Bak')
  /\ a.reply \in Gone => Prim' = None
  /\ a.reply # "error" => a.reply \in Gone
  /\ Costs(p, a)

LEMMA RbRemoveEffect ==
  ASSUME Inv, Sane, NEW p \in Procs, Solo(p), RbRemove(p)
  PROVE  docker' \in World /\ \E a \in Gots : RbRemoveHas(p, a)
<1>1. PICK a \in Gots :
        /\ Request(p, a, DockerRemove(docker, Primary))
        /\ IF a.reply \in Gone THEN Records(p, a, "remove", "rbConnect")
           ELSE Ends(p, a, "critical")
  BY RbRemoveDoes DEF Inv
<1>2. /\ cli[p].pc = "rbRemove" /\ docker \in World /\ docker' \in World
      /\ proven' = proven
  BY <1>1, RbRemoveDoes DEF Inv, TypeOK, Request, Received, Gots
<1>3. Unmoved \/ Deleted(Prim, Prim', Bak, Bak')
  BY <1>1, <1>2, RemoveDoes
  DEF Request, Received, Replied, Failed, Prim, Bak, Names, Primary, Backup, Unmoved,
      Deleted, Gone
<1>4. /\ cli[p].swap
      /\ Bak = cli[p].old /\ cli[p].old # None
      /\ cli[p].old \notin docker.running
  BY <1>2
  DEF Inv, RoleOK, UpDownOnly, OldPlaced, AtPrimary, AtBackup, Existing, Sane, Solo,
      Vacant, SwapOnly, HealOnly, PrimFree, BakFree, Recreating, OldHalted, Halted,
      NewPlaced, Prim, Bak
<1>5. /\ a.reply \in Gone => Prim' = None
      /\ a.reply # "error" => a.reply \in Gone
  BY <1>1, <1>2, <1>4, RemoveDoes, NoneAssumption
  DEF Request, Received, Replied, Failed, Prim, Bak, Names, Primary, Backup, Unmoved,
      Deleted, Gone
<1>6. Costs(p, a)
  <2>1. DockerRemove(docker, Primary).reply # "error"
    BY <1>2, RemoveDoes DEF Names
  <2> QED
    BY <1>1, <2>1, ErrorCosts DEF Inv
<1> QED
  BY <1>1, <1>2, <1>3, <1>4, <1>5, <1>6 DEF RbRemoveHas

(* ... gives the old one its endpoint, ...                                   *)
RbConnectHas(p, a) ==
  /\ cli[p].pc = "rbConnect"
  /\ cli[p].swap
  /\ Prim = None
  /\ Bak = cli[p].old /\ cli[p].old # None
  /\ cli[p].old \notin docker.running
  /\ proven' = proven
  /\ Request(p, a, DockerConnect(docker, Backup))
  /\ IF a.reply = "ok" THEN Records(p, a, "connect", "rbStart")
     ELSE Ends(p, a, "critical")
  /\ Unmoved \/ Attached(Bak)
  /\ a.reply = "ok" => Attached(Bak)
  /\ Costs(p, a)

LEMMA RbConnectEffect ==
  ASSUME Inv, Sane, NEW p \in Procs, Solo(p), RbConnect(p)
  PROVE  docker' \in World /\ \E a \in Gots : RbConnectHas(p, a)
<1>1. PICK a \in Gots :
        /\ Request(p, a, DockerConnect(docker, Backup))
        /\ IF a.reply = "ok" THEN Records(p, a, "connect", "rbStart")
           ELSE Ends(p, a, "critical")
  BY RbConnectDoes DEF Inv
<1>2. /\ cli[p].pc = "rbConnect" /\ docker \in World /\ docker' \in World
      /\ proven' = proven
  BY <1>1, RbConnectDoes DEF Inv, TypeOK, Request, Received, Gots
<1>3. Unmoved \/ Attached(Bak)
  BY <1>1, <1>2, ConnectDoes
  DEF Request, Received, Replied, Failed, Prim, Bak, Names, Primary, Backup, Unmoved,
      Attached, Others
<1>4. /\ cli[p].swap
      /\ Prim = None
      /\ Bak = cli[p].old /\ cli[p].old # None
      /\ cli[p].old \notin docker.running
  BY <1>2
  DEF Inv, RoleOK, UpDownOnly, OldPlaced, AtPrimary, AtBackup, Existing, Sane, Solo,
      Vacant, SwapOnly, HealOnly, PrimFree, BakFree, Recreating, OldHalted, Halted,
      NewPlaced, Prim, Bak
<1>5. /\ a.reply = "ok" => Attached(Bak)
  BY <1>1, <1>2, <1>4, ConnectDoes, NoneAssumption
  DEF Request, Received, Replied, Failed, Prim, Bak, Names, Primary, Backup, Unmoved,
      Attached, Others
<1>6. Costs(p, a)
  <2>1. DockerConnect(docker, Backup).reply # "error"
    BY <1>2, ConnectDoes DEF Names
  <2> QED
    BY <1>1, <2>1, ErrorCosts DEF Inv
<1> QED
  BY <1>1, <1>2, <1>3, <1>4, <1>5, <1>6 DEF RbConnectHas

(* ... starts it, ...                                                        *)
RbStartHas(p, a) ==
  /\ cli[p].pc = "rbStart"
  /\ cli[p].swap
  /\ Prim = None
  /\ Bak = cli[p].old /\ cli[p].old # None
  /\ cli[p].old \notin docker.running
  /\ cli[p].old \in docker.attached
  /\ proven' = proven
  /\ Request(p, a, DockerStart(docker, docker.name[Backup], ConfigOk))
  /\ IF a.reply = "ok" THEN Records(p, a, "start", "rbRename")
     ELSE Ends(p, a, "critical")
  /\ Unmoved \/ Started(Bak)
  /\ a.reply = "ok" => Started(Bak)
  /\ Costs(p, a)

LEMMA RbStartEffect ==
  ASSUME Inv, Sane, NEW p \in Procs, Solo(p), RbStart(p)
  PROVE  docker' \in World /\ \E a \in Gots : RbStartHas(p, a)
<1>1. PICK a \in Gots :
        /\ Request(p, a, DockerStart(docker, docker.name[Backup], ConfigOk))
        /\ IF a.reply = "ok" THEN Records(p, a, "start", "rbRename")
           ELSE Ends(p, a, "critical")
  BY RbStartDoes DEF Inv
<1>2. /\ cli[p].pc = "rbStart" /\ docker \in World /\ docker' \in World
      /\ proven' = proven
  BY <1>1, RbStartDoes DEF Inv, TypeOK, Request, Received, Gots
<1>3. Unmoved \/ Started(Bak)
  BY <1>1, <1>2, StartDoes
  DEF Request, Received, Replied, Failed, Prim, Bak, Names, Primary, Backup, Unmoved,
      Started, Others, Existing, Holders
<1>4. /\ cli[p].swap
      /\ Prim = None
      /\ Bak = cli[p].old /\ cli[p].old # None
      /\ cli[p].old \notin docker.running
      /\ cli[p].old \in docker.attached
  BY <1>2
  DEF Inv, RoleOK, UpDownOnly, OldPlaced, AtPrimary, AtBackup, Existing, Sane, Solo,
      Vacant, SwapOnly, HealOnly, PrimFree, BakFree, Recreating, OldHalted, Halted,
      NewPlaced, Prim, Bak
<1>5. /\ a.reply = "ok" => Started(Bak)
  BY <1>1, <1>2, <1>4, StartDoes, NoneAssumption
  DEF Request, Received, Replied, Failed, Prim, Bak, Names, Primary, Backup, Unmoved,
      Started, Others, Existing, Holders
<1>6. Costs(p, a)
  <2>1. DockerStart(docker, docker.name[Backup], ConfigOk).reply # "error"
    BY <1>2, StartDoes DEF Names
  <2> QED
    BY <1>1, <2>1, ErrorCosts DEF Inv
<1> QED
  BY <1>1, <1>2, <1>3, <1>4, <1>5, <1>6 DEF RbStartHas

(* ... names it, ...                                                         *)
RbRenameHas(p, a) ==
  /\ cli[p].pc = "rbRename"
  /\ cli[p].swap
  /\ Prim = None
  /\ Bak = cli[p].old /\ cli[p].old # None
  /\ cli[p].old \in docker.attached
  /\ cli[p].old \in docker.running
  /\ proven' = proven
  /\ Request(p, a, DockerRename(docker, Backup, Primary))
  /\ IF a.reply = "ok"
     THEN Turned(p, a, "rbVerify", FALSE, cli[p].todo \ {"rename"}, cli[p].out)
     ELSE Ends(p, a, "critical")
  /\ Unmoved \/ PutBack
  /\ a.reply = "ok" => PutBack
  /\ Costs(p, a)

LEMMA RbRenameEffect ==
  ASSUME Inv, Sane, NEW p \in Procs, Solo(p), RbRename(p)
  PROVE  docker' \in World /\ \E a \in Gots : RbRenameHas(p, a)
<1>1. PICK a \in Gots :
        /\ Request(p, a, DockerRename(docker, Backup, Primary))
        /\ IF a.reply = "ok"
           THEN Turned(p, a, "rbVerify", FALSE, cli[p].todo \ {"rename"}, cli[p].out)
           ELSE Ends(p, a, "critical")
  BY RbRenameDoes DEF Inv
<1>2. /\ cli[p].pc = "rbRename" /\ docker \in World /\ docker' \in World
      /\ proven' = proven
  BY <1>1, RbRenameDoes DEF Inv, TypeOK, Request, Received, Gots
<1>3. Unmoved \/ PutBack
  BY <1>1, <1>2, RenameDoes
  DEF Request, Received, Replied, Failed, Prim, Bak, Names, Primary, Backup, Unmoved,
      PutBack
<1>4. /\ cli[p].swap
      /\ Prim = None
      /\ Bak = cli[p].old /\ cli[p].old # None
      /\ cli[p].old \in docker.attached
      /\ cli[p].old \in docker.running
  BY <1>2
  DEF Inv, RoleOK, UpDownOnly, OldPlaced, AtPrimary, AtBackup, Existing, Sane, Solo,
      Vacant, SwapOnly, HealOnly, PrimFree, BakFree, Recreating, OldHalted, Halted,
      NewPlaced, Prim, Bak
<1>5. /\ a.reply = "ok" => PutBack
  BY <1>1, <1>2, <1>4, RenameDoes, NoneAssumption
  DEF Request, Received, Replied, Failed, Prim, Bak, Names, Primary, Backup, Unmoved,
      PutBack
<1>6. Costs(p, a)
  <2>1. DockerRename(docker, Backup, Primary).reply # "error"
    BY <1>2, RenameDoes DEF Names, Primary, Backup
  <2> QED
    BY <1>1, <2>1, ErrorCosts DEF Inv
<1> QED
  BY <1>1, <1>2, <1>3, <1>4, <1>5, <1>6 DEF RbRenameHas

(* ... and says what the check of it says.                                   *)
RbVerifyHas(p, a) ==
  /\ cli[p].pc = "rbVerify"
  /\ cli[p].swap
  /\ Bak = None
  /\ Prim = cli[p].old /\ cli[p].old # None
  /\ cli[p].old \in docker.attached
  /\ Request(p, a, Verdict) /\ Shows(a)
  /\ Ends(p, a, IF a.reply = "ok" THEN "rolledBack" ELSE "bothUnhealthy")
  /\ Unmoved
  /\ a.reply = "ok" => Passes(Prim)
  /\ Costs(p, a)

LEMMA RbVerifyEffect ==
  ASSUME Inv, Sane, NEW p \in Procs, Solo(p), RbVerify(p)
  PROVE  docker' \in World /\ \E a \in Gots : RbVerifyHas(p, a)
<1>1. PICK a \in Gots :
        /\ Request(p, a, Verdict) /\ Shows(a)
        /\ Ends(p, a, IF a.reply = "ok" THEN "rolledBack" ELSE "bothUnhealthy")
  BY RbVerifyDoes DEF Inv
<1>2. /\ cli[p].pc = "rbVerify" /\ docker \in World /\ docker' \in World
  BY <1>1, RbVerifyDoes DEF Inv, TypeOK, Request, Received, Gots
<1>3. Unmoved
  BY <1>1, <1>2
  DEF Request, Received, Replied, Failed, Inspect, Answer, Verdict, Reading, Prim, Bak,
      Unmoved
<1>4. /\ cli[p].swap
      /\ Bak = None
      /\ Prim = cli[p].old /\ cli[p].old # None
      /\ cli[p].old \in docker.attached
  BY <1>2
  DEF Inv, RoleOK, UpDownOnly, OldPlaced, AtPrimary, AtBackup, Existing, Sane, Solo,
      Vacant, SwapOnly, HealOnly, PrimFree, BakFree, Recreating, OldHalted, Halted,
      NewPlaced, Prim, Bak
<1>5. /\ a.reply = "ok" => Passes(Prim)
  BY <1>1, <1>2, <1>4, NoneAssumption
  DEF Request, Received, Replied, Failed, Inspect, Answer, Verdict, Reading, Prim, Bak,
      Unmoved
<1>6. Costs(p, a)
  <2>1. Verdict.reply # "error"
    BY <1>2 DEF Inspect, Answer, Verdict, Reading
  <2> QED
    BY <1>1, <2>1, ErrorCosts DEF Inv
<1> QED
  BY <1>1, <1>2, <1>3, <1>4, <1>5, <1>6 DEF RbVerifyHas

(* up's look at what is there.                                               *)
UpInspectHas(p, a) ==
  /\ cli[p].pc = "upInspect"
  /\ ~cli[p].swap
  /\ proven' = proven
  /\ Request(p, a, Inspect(Primary))
  /\ \E l \in {"preflight", "routes", "upStart"} :
       Turned(p, a, l, IF l = "routes" THEN FALSE ELSE a.dead,
              cli[p].todo, cli[p].out)
  /\ Unmoved
  /\ Costs(p, a)

LEMMA UpInspectEffect ==
  ASSUME Inv, Sane, NEW p \in Procs, Solo(p), UpInspect(p)
  PROVE  docker' \in World /\ \E a \in Gots : UpInspectHas(p, a)
<1>1. PICK a \in Gots :
        /\ Request(p, a, Inspect(Primary))
        /\ \E l \in {"preflight", "routes", "upStart"} :
             Turned(p, a, l, IF l = "routes" THEN FALSE ELSE a.dead,
                    cli[p].todo, cli[p].out)
  BY UpInspectDoes DEF Inv
<1>2. /\ cli[p].pc = "upInspect" /\ docker \in World /\ docker' \in World
      /\ proven' = proven
  BY <1>1, UpInspectDoes DEF Inv, TypeOK, Request, Received, Gots
<1>3. Unmoved
  BY <1>1, <1>2
  DEF Request, Received, Replied, Failed, Inspect, Answer, Verdict, Reading, Prim, Bak,
      Unmoved
<1>4. /\ ~cli[p].swap
  BY <1>2
  DEF Inv, RoleOK, UpDownOnly, OldPlaced, AtPrimary, AtBackup, Existing, Sane, Solo,
      Vacant, SwapOnly, HealOnly, PrimFree, BakFree, Recreating, OldHalted, Halted,
      NewPlaced, Prim, Bak
<1>6. Costs(p, a)
  <2>1. Inspect(Primary).reply # "error"
    BY <1>2 DEF Inspect, Answer, Verdict, Reading
  <2> QED
    BY <1>1, <2>1, ErrorCosts DEF Inv
<1> QED
  BY <1>1, <1>2, <1>3, <1>4, <1>6 DEF UpInspectHas

(* up's start of what is there.                                              *)
UpStartHas(p, a) ==
  /\ cli[p].pc = "upStart"
  /\ proven' = proven
  /\ Request(p, a, DockerStart(docker, docker.name[Primary], ConfigOk))
  /\ IF a.reply = "ok" THEN Anew(p, a, "routes") ELSE Ends(p, a, "failed")
  /\ Unmoved \/ Started(Prim)
  /\ Costs(p, a)

LEMMA UpStartEffect ==
  ASSUME Inv, Sane, NEW p \in Procs, Solo(p), UpStart(p)
  PROVE  docker' \in World /\ \E a \in Gots : UpStartHas(p, a)
<1>1. PICK a \in Gots :
        /\ Request(p, a, DockerStart(docker, docker.name[Primary], ConfigOk))
        /\ IF a.reply = "ok" THEN Anew(p, a, "routes") ELSE Ends(p, a, "failed")
  BY UpStartDoes DEF Inv
<1>2. /\ cli[p].pc = "upStart" /\ docker \in World /\ docker' \in World
      /\ proven' = proven
  BY <1>1, UpStartDoes DEF Inv, TypeOK, Request, Received, Gots
<1>3. Unmoved \/ Started(Prim)
  BY <1>1, <1>2, StartDoes
  DEF Request, Received, Replied, Failed, Prim, Bak, Names, Primary, Backup, Unmoved,
      Started, Others, Existing, Holders
<1>6. Costs(p, a)
  <2>1. DockerStart(docker, docker.name[Primary], ConfigOk).reply # "error"
    BY <1>2, StartDoes DEF Names
  <2> QED
    BY <1>1, <2>1, ErrorCosts DEF Inv
<1> QED
  BY <1>1, <1>2, <1>3, <1>6 DEF UpStartHas

(* down's stop.                                                              *)
DownStopHas(p, a) ==
  /\ cli[p].pc = "downStop"
  /\ proven' = proven
  /\ Request(p, a, DockerStop(docker, Primary))
  /\ IF a.reply \notin Gone THEN Ends(p, a, "leftRunning")
     ELSE IF cli[p].op = "restart" THEN Anew(p, a, "upInspect")
     ELSE Ends(p, a, "down")
  /\ Unmoved \/ Stopped(Prim)
  /\ Costs(p, a)

LEMMA DownStopEffect ==
  ASSUME Inv, Sane, NEW p \in Procs, Solo(p), DownStop(p)
  PROVE  docker' \in World /\ \E a \in Gots : DownStopHas(p, a)
<1>1. PICK a \in Gots :
        /\ Request(p, a, DockerStop(docker, Primary))
        /\ IF a.reply \notin Gone THEN Ends(p, a, "leftRunning")
           ELSE IF cli[p].op = "restart" THEN Anew(p, a, "upInspect")
           ELSE Ends(p, a, "down")
  BY DownStopDoes DEF Inv
<1>2. /\ cli[p].pc = "downStop" /\ docker \in World /\ docker' \in World
      /\ proven' = proven
  BY <1>1, DownStopDoes DEF Inv, TypeOK, Request, Received, Gots
<1>3. Unmoved \/ Stopped(Prim)
  BY <1>1, <1>2, StopDoes
  DEF Request, Received, Replied, Failed, Prim, Bak, Names, Primary, Backup, Unmoved,
      Stopped, Others
<1>6. Costs(p, a)
  <2>1. DockerStop(docker, Primary).reply # "error"
    BY <1>2, StopDoes DEF Names
  <2> QED
    BY <1>1, <2>1, ErrorCosts DEF Inv
<1> QED
  BY <1>1, <1>2, <1>3, <1>6 DEF DownStopHas

(* The wait for health.                                                      *)
WaitHas(p, a) ==
  /\ cli[p].pc = "wait"
  /\ Request(p, a, Verdict) /\ Shows(a)
  /\ IF a.reply # "ok" THEN Ends(p, a, "unhealthy")
     ELSE IF cli[p].op = "up" THEN Anew(p, a, "lastRoutes")
     ELSE Ends(p, a, "serving")
  /\ Unmoved
  /\ a.reply = "ok" => Passes(Prim)
  /\ Costs(p, a)

LEMMA WaitEffect ==
  ASSUME Inv, Sane, NEW p \in Procs, Solo(p), Wait(p)
  PROVE  docker' \in World /\ \E a \in Gots : WaitHas(p, a)
<1>1. PICK a \in Gots :
        /\ Request(p, a, Verdict) /\ Shows(a)
        /\ IF a.reply # "ok" THEN Ends(p, a, "unhealthy")
           ELSE IF cli[p].op = "up" THEN Anew(p, a, "lastRoutes")
           ELSE Ends(p, a, "serving")
  BY WaitDoes DEF Inv
<1>2. /\ cli[p].pc = "wait" /\ docker \in World /\ docker' \in World
  BY <1>1, WaitDoes DEF Inv, TypeOK, Request, Received, Gots
<1>3. Unmoved
  BY <1>1, <1>2
  DEF Request, Received, Replied, Failed, Inspect, Answer, Verdict, Reading, Prim, Bak,
      Unmoved
<1>5. /\ a.reply = "ok" => Passes(Prim)
  BY <1>1, <1>2, NoneAssumption
  DEF Request, Received, Replied, Failed, Inspect, Answer, Verdict, Reading, Prim, Bak,
      Unmoved
<1>6. Costs(p, a)
  <2>1. Verdict.reply # "error"
    BY <1>2 DEF Inspect, Answer, Verdict, Reading
  <2> QED
    BY <1>1, <2>1, ErrorCosts DEF Inv
<1> QED
  BY <1>1, <1>2, <1>3, <1>5, <1>6 DEF WaitHas

(* The routes of the workspaces.                                             *)
FixRoutesHas(p, a) ==
  /\ cli[p].pc \in {"routes", "lastRoutes"}
  /\ proven' = proven
  /\ Request(p, a, Reading)
  /\ \/ \E o \in {"failed", "serving"} : Ends(p, a, o)
     \/ \E l \in {"wait", "lastRoutes"} : Anew(p, a, l)
  /\ Unmoved
  /\ Costs(p, a)

LEMMA FixRoutesEffect ==
  ASSUME Inv, Sane, NEW p \in Procs, Solo(p), FixRoutes(p)
  PROVE  docker' \in World /\ \E a \in Gots : FixRoutesHas(p, a)
<1>1. PICK a \in Gots :
        /\ Request(p, a, Reading)
        /\ \/ \E o \in {"failed", "serving"} : Ends(p, a, o)
           \/ \E l \in {"wait", "lastRoutes"} : Anew(p, a, l)
  BY FixRoutesDoes DEF Inv
<1>2. /\ cli[p].pc \in {"routes", "lastRoutes"} /\ docker \in World /\ docker' \in World
      /\ proven' = proven
  BY <1>1, FixRoutesDoes DEF Inv, TypeOK, Request, Received, Gots
<1>3. Unmoved
  BY <1>1, <1>2
  DEF Request, Received, Replied, Failed, Inspect, Answer, Verdict, Reading, Prim, Bak,
      Unmoved
<1>6. Costs(p, a)
  <2>1. Reading.reply # "error"
    BY <1>2 DEF Inspect, Answer, Verdict, Reading
  <2> QED
    BY <1>1, <2>1, ErrorCosts DEF Inv
<1> QED
  BY <1>1, <1>2, <1>3, <1>6 DEF FixRoutesHas

-----------------------------------------------------------------------------
(* What each step keeps of SoloInv: the daemon's order, where the commands   *)
(* are in a swap, and what was said of it.                                   *)

LEMMA RebuildStatusSolo ==
  ASSUME Inv, Sane, NEW p \in Procs, Solo(p), RebuildStatus(p)
  PROVE  Sane' /\ Solo(p)'
<1>1. PICK a \in Gots : RebuildStatusHas(p, a)
  BY RebuildStatusEffect
<1>2. docker \in World /\ docker' \in World
  BY RebuildStatusEffect DEF Inv, TypeOK
<1> USE NoneAssumption DEF RebuildStatusHas, Unmoved
<1>3. Sane'
  BY <1>1, <1>2 DEF Sane, World
<1>4. Vacant(p)'
  BY <1>1, <1>2
  DEF Vacant, SwapOnly, HealOnly, PrimFree, BakFree, Recreating, Anew, Turned,
      Received, Request
<1>5. OldHalted(p)'
  BY <1>1, <1>2
  DEF OldHalted, Halted, World, Anew, Turned, Received, Request
<1>6. NewPlaced(p)'
  BY <1>1, <1>2
  DEF NewPlaced, Passes, Anew, Turned, Received, Request
<1>7. TrueWhenSaid(p)'
  BY <1>1, <1>2
  DEF Solo, TrueWhenSaid, Passes, Holders, Anew, Turned, Received, Request
<1>8. Healing(p)'
  BY <1>1, <1>2
  DEF Solo, Healing, HealOnly, Costs, Anew, Turned, Received, Request
<1> QED
  BY <1>3, <1>4, <1>5, <1>6, <1>7, <1>8 DEF Solo

LEMMA InspectBackupSolo ==
  ASSUME Inv, Sane, NEW p \in Procs, Solo(p), InspectBackup(p)
  PROVE  Sane' /\ Solo(p)'
<1>1. PICK a \in Gots : InspectBackupHas(p, a)
  BY InspectBackupEffect
<1>2. docker \in World /\ docker' \in World
  BY InspectBackupEffect DEF Inv, TypeOK
<1> USE NoneAssumption DEF InspectBackupHas, Unmoved
<1>3. Sane'
  BY <1>1, <1>2 DEF Sane, World
<1>4. Vacant(p)'
  BY <1>1, <1>2
  DEF Vacant, SwapOnly, HealOnly, PrimFree, BakFree, Recreating, Onward, Ends, Turned,
      Received, Request
<1>5. OldHalted(p)'
  BY <1>1, <1>2
  DEF OldHalted, Halted, World, Onward, Ends, Turned, Received, Request
<1>6. NewPlaced(p)'
  BY <1>1, <1>2
  DEF NewPlaced, Passes, Onward, Ends, Turned, Received, Request
<1>7. TrueWhenSaid(p)'
  BY <1>1, <1>2
  DEF Solo, TrueWhenSaid, Passes, Holders, Onward, Ends, Turned, Received, Request
<1>8. Healing(p)'
  BY <1>1, <1>2
  DEF Solo, Healing, HealOnly, Costs, Onward, Ends, Turned, Received, Request
<1> QED
  BY <1>3, <1>4, <1>5, <1>6, <1>7, <1>8 DEF Solo

LEMMA TriageRemoveSolo ==
  ASSUME Inv, Sane, NEW p \in Procs, Solo(p), TriageRemove(p)
  PROVE  Sane' /\ Solo(p)'
<1>1. PICK a \in Gots : TriageRemoveHas(p, a)
  BY TriageRemoveEffect
<1>2. docker \in World /\ docker' \in World
  BY TriageRemoveEffect DEF Inv, TypeOK
<1> USE NoneAssumption DEF TriageRemoveHas, Unmoved, Deleted
<1>3. Sane'
  BY <1>1, <1>2 DEF Sane, World
<1>4. Vacant(p)'
  BY <1>1, <1>2
  DEF Vacant, SwapOnly, HealOnly, PrimFree, BakFree, Recreating, Onward, Ends, Turned,
      Received, Request
<1>5. OldHalted(p)'
  BY <1>1, <1>2
  DEF OldHalted, Halted, World, Onward, Ends, Turned, Received, Request
<1>6. NewPlaced(p)'
  BY <1>1, <1>2
  DEF NewPlaced, Passes, Onward, Ends, Turned, Received, Request
<1>7. TrueWhenSaid(p)'
  BY <1>1, <1>2
  DEF Solo, TrueWhenSaid, Passes, Holders, Onward, Ends, Turned, Received, Request
<1>8. Healing(p)'
  BY <1>1, <1>2
  DEF Solo, Healing, HealOnly, Costs, Onward, Ends, Turned, Received, Request
<1> QED
  BY <1>3, <1>4, <1>5, <1>6, <1>7, <1>8 DEF Solo

LEMMA HealConnectSolo ==
  ASSUME Inv, Sane, NEW p \in Procs, Solo(p), HealConnect(p)
  PROVE  Sane' /\ Solo(p)'
<1>1. PICK a \in Gots : HealConnectHas(p, a)
  BY HealConnectEffect
<1>2. docker \in World /\ docker' \in World
  BY HealConnectEffect DEF Inv, TypeOK
<1> USE NoneAssumption DEF HealConnectHas, Unmoved, Attached, Others
<1>3. Sane'
  BY <1>1, <1>2 DEF Sane, World
<1>4. Vacant(p)'
  BY <1>1, <1>2
  DEF Vacant, SwapOnly, HealOnly, PrimFree, BakFree, Recreating, Onward, Ends, Turned,
      Received, Request
<1>5. OldHalted(p)'
  BY <1>1, <1>2
  DEF OldHalted, Halted, World, Onward, Ends, Turned, Received, Request
<1>6. NewPlaced(p)'
  BY <1>1, <1>2
  DEF NewPlaced, Passes, Onward, Ends, Turned, Received, Request
<1>7. TrueWhenSaid(p)'
  BY <1>1, <1>2
  DEF Solo, TrueWhenSaid, Passes, Holders, Onward, Ends, Turned, Received, Request
<1>8. Healing(p)'
  BY <1>1, <1>2
  DEF Solo, Healing, HealOnly, Costs, Onward, Ends, Turned, Received, Request
<1> QED
  BY <1>3, <1>4, <1>5, <1>6, <1>7, <1>8 DEF Solo

LEMMA HealStartSolo ==
  ASSUME Inv, Sane, NEW p \in Procs, Solo(p), HealStart(p)
  PROVE  Sane' /\ Solo(p)'
<1>1. PICK a \in Gots : HealStartHas(p, a)
  BY HealStartEffect
<1>2. docker \in World /\ docker' \in World
  BY HealStartEffect DEF Inv, TypeOK
<1> USE NoneAssumption DEF HealStartHas, Unmoved, Started, Others
<1>3. Sane'
  BY <1>1, <1>2 DEF Sane, World
<1>4. Vacant(p)'
  BY <1>1, <1>2
  DEF Vacant, SwapOnly, HealOnly, PrimFree, BakFree, Recreating, Onward, Ends, Turned,
      Received, Request
<1>5. OldHalted(p)'
  BY <1>1, <1>2
  DEF OldHalted, Halted, World, Onward, Ends, Turned, Received, Request
<1>6. NewPlaced(p)'
  BY <1>1, <1>2
  DEF NewPlaced, Passes, Onward, Ends, Turned, Received, Request
<1>7. TrueWhenSaid(p)'
  BY <1>1, <1>2
  DEF Solo, TrueWhenSaid, Passes, Holders, Onward, Ends, Turned, Received, Request
<1>8. Healing(p)'
  BY <1>1, <1>2
  DEF Solo, Healing, HealOnly, Costs, Sane, Holders, World, Onward, Ends, Turned,
      Received, Request
<1> QED
  BY <1>3, <1>4, <1>5, <1>6, <1>7, <1>8 DEF Solo

LEMMA HealRenameSolo ==
  ASSUME Inv, Sane, NEW p \in Procs, Solo(p), HealRename(p)
  PROVE  Sane' /\ Solo(p)'
<1>1. PICK a \in Gots : HealRenameHas(p, a)
  BY HealRenameEffect
<1>2. docker \in World /\ docker' \in World
  BY HealRenameEffect DEF Inv, TypeOK
<1> USE NoneAssumption DEF HealRenameHas, Unmoved, PutBack
<1>3. Sane'
  BY <1>1, <1>2 DEF Sane, World
<1>4. Vacant(p)'
  BY <1>1, <1>2
  DEF Vacant, SwapOnly, HealOnly, PrimFree, BakFree, Recreating, Anew, Ends, Turned,
      Received, Request
<1>5. OldHalted(p)'
  BY <1>1, <1>2
  DEF OldHalted, Halted, World, Anew, Ends, Turned, Received, Request
<1>6. NewPlaced(p)'
  BY <1>1, <1>2
  DEF NewPlaced, Passes, Anew, Ends, Turned, Received, Request
<1>7. TrueWhenSaid(p)'
  BY <1>1, <1>2
  DEF Solo, TrueWhenSaid, Passes, Holders, Anew, Ends, Turned, Received, Request
<1>8. Healing(p)'
  BY <1>1, <1>2
  DEF Solo, Healing, HealOnly, Costs, Anew, Ends, Turned, Received, Request
<1> QED
  BY <1>3, <1>4, <1>5, <1>6, <1>7, <1>8 DEF Solo

LEMMA StopOldSolo ==
  ASSUME Inv, Sane, NEW p \in Procs, Solo(p), StopOld(p)
  PROVE  Sane' /\ Solo(p)'
<1>1. PICK a \in Gots : StopOldHas(p, a)
  BY StopOldEffect
<1>2. docker \in World /\ docker' \in World
  BY StopOldEffect DEF Inv, TypeOK
<1> USE NoneAssumption DEF StopOldHas, Unmoved, Stopped, Others
<1>3. Sane'
  BY <1>1, <1>2 DEF Sane, World
<1>4. Vacant(p)'
  BY <1>1, <1>2
  DEF Vacant, SwapOnly, HealOnly, PrimFree, BakFree, Recreating, Onward, Ends, Turned,
      Received, Request
<1>5. OldHalted(p)'
  BY <1>1, <1>2
  DEF OldHalted, Halted, World, Onward, Ends, Turned, Received, Request
<1>6. NewPlaced(p)'
  BY <1>1, <1>2
  DEF NewPlaced, Passes, Onward, Ends, Turned, Received, Request
<1>7. TrueWhenSaid(p)'
  BY <1>1, <1>2
  DEF Solo, TrueWhenSaid, Passes, Holders, Onward, Ends, Turned, Received, Request
<1>8. Healing(p)'
  BY <1>1, <1>2
  DEF Solo, Healing, HealOnly, Costs, Onward, Ends, Turned, Received, Request
<1> QED
  BY <1>3, <1>4, <1>5, <1>6, <1>7, <1>8 DEF Solo

LEMMA RenameOldSolo ==
  ASSUME Inv, Sane, NEW p \in Procs, Solo(p), RenameOld(p)
  PROVE  Sane' /\ Solo(p)'
<1>1. PICK a \in Gots : RenameOldHas(p, a)
  BY RenameOldEffect
<1>2. docker \in World /\ docker' \in World
  BY RenameOldEffect DEF Inv, TypeOK
<1> USE NoneAssumption DEF RenameOldHas, Unmoved, SetAside
<1>3. Sane'
  BY <1>1, <1>2 DEF Sane, World
<1>4. Vacant(p)'
  BY <1>1, <1>2
  DEF Vacant, SwapOnly, HealOnly, PrimFree, BakFree, Recreating, Onward, Turned,
      Received, Request
<1>5. OldHalted(p)'
  BY <1>1, <1>2
  DEF OldHalted, Halted, World, Onward, Turned, Received, Request
<1>6. NewPlaced(p)'
  BY <1>1, <1>2
  DEF NewPlaced, Passes, Onward, Turned, Received, Request
<1>7. TrueWhenSaid(p)'
  BY <1>1, <1>2
  DEF Solo, TrueWhenSaid, Passes, Holders, Onward, Turned, Received, Request
<1>8. Healing(p)'
  BY <1>1, <1>2
  DEF Solo, Healing, HealOnly, Costs, Onward, Turned, Received, Request
<1> QED
  BY <1>3, <1>4, <1>5, <1>6, <1>7, <1>8 DEF Solo

LEMMA DisconnectOldSolo ==
  ASSUME Inv, Sane, NEW p \in Procs, Solo(p), DisconnectOld(p)
  PROVE  Sane' /\ Solo(p)'
<1>1. PICK a \in Gots : DisconnectOldHas(p, a)
  BY DisconnectOldEffect
<1>2. docker \in World /\ docker' \in World
  BY DisconnectOldEffect DEF Inv, TypeOK
<1> USE NoneAssumption DEF DisconnectOldHas, Unmoved, Detached, Others
<1>3. Sane'
  BY <1>1, <1>2 DEF Sane, World
<1>4. Vacant(p)'
  BY <1>1, <1>2
  DEF Vacant, SwapOnly, HealOnly, PrimFree, BakFree, Recreating, Onward, Turned,
      Received, Request
<1>5. OldHalted(p)'
  BY <1>1, <1>2
  DEF OldHalted, Halted, World, Onward, Turned, Received, Request
<1>6. NewPlaced(p)'
  BY <1>1, <1>2
  DEF NewPlaced, Passes, Onward, Turned, Received, Request
<1>7. TrueWhenSaid(p)'
  BY <1>1, <1>2
  DEF Solo, TrueWhenSaid, Passes, Holders, Onward, Turned, Received, Request
<1>8. Healing(p)'
  BY <1>1, <1>2
  DEF Solo, Healing, HealOnly, Costs, Onward, Turned, Received, Request
<1> QED
  BY <1>3, <1>4, <1>5, <1>6, <1>7, <1>8 DEF Solo

LEMMA UndoRenameSolo ==
  ASSUME Inv, Sane, NEW p \in Procs, Solo(p), UndoRename(p)
  PROVE  Sane' /\ Solo(p)'
<1>1. PICK a \in Gots : UndoRenameHas(p, a)
  BY UndoRenameEffect
<1>2. docker \in World /\ docker' \in World
  BY UndoRenameEffect DEF Inv, TypeOK
<1> USE NoneAssumption DEF UndoRenameHas, Unmoved, PutBack
<1>3. Sane'
  BY <1>1, <1>2 DEF Sane, World
<1>4. Vacant(p)'
  BY <1>1, <1>2
  DEF Vacant, SwapOnly, HealOnly, PrimFree, BakFree, Recreating, Onward, Turned,
      Received, Request
<1>5. OldHalted(p)'
  BY <1>1, <1>2
  DEF OldHalted, Halted, World, Onward, Turned, Received, Request
<1>6. NewPlaced(p)'
  BY <1>1, <1>2
  DEF NewPlaced, Passes, Onward, Turned, Received, Request
<1>7. TrueWhenSaid(p)'
  BY <1>1, <1>2
  DEF Solo, TrueWhenSaid, Passes, Holders, Onward, Turned, Received, Request
<1>8. Healing(p)'
  BY <1>1, <1>2
  DEF Solo, Healing, HealOnly, Costs, Onward, Turned, Received, Request
<1> QED
  BY <1>3, <1>4, <1>5, <1>6, <1>7, <1>8 DEF Solo

LEMMA UndoStartSolo ==
  ASSUME Inv, Sane, NEW p \in Procs, Solo(p), UndoStart(p)
  PROVE  Sane' /\ Solo(p)'
<1>1. PICK a \in Gots : UndoStartHas(p, a)
  BY UndoStartEffect
<1>2. docker \in World /\ docker' \in World
  BY UndoStartEffect DEF Inv, TypeOK
<1> USE NoneAssumption DEF UndoStartHas, Unmoved, Started, Others
<1>3. Sane'
  BY <1>1, <1>2 DEF Sane, World
<1>4. Vacant(p)'
  BY <1>1, <1>2
  DEF Vacant, SwapOnly, HealOnly, PrimFree, BakFree, Recreating, Ends, Turned,
      Received, Request
<1>5. OldHalted(p)'
  BY <1>1, <1>2
  DEF OldHalted, Halted, World, Ends, Turned, Received, Request
<1>6. NewPlaced(p)'
  BY <1>1, <1>2
  DEF NewPlaced, Passes, Ends, Turned, Received, Request
<1>7. TrueWhenSaid(p)'
  BY <1>1, <1>2
  DEF Solo, TrueWhenSaid, Passes, Holders, Ends, Turned, Received, Request
<1>8. Healing(p)'
  BY <1>1, <1>2
  DEF Solo, Healing, HealOnly, Costs, Ends, Turned, Received, Request
<1> QED
  BY <1>3, <1>4, <1>5, <1>6, <1>7, <1>8 DEF Solo

LEMMA StartNewSolo ==
  ASSUME Inv, Sane, NEW p \in Procs, Solo(p), StartNew(p)
  PROVE  Sane' /\ Solo(p)'
<1>1. PICK a \in Gots : StartNewHas(p, a)
  BY StartNewEffect
<1>2. docker \in World /\ docker' \in World
  BY StartNewEffect DEF Inv, TypeOK
<1> USE NoneAssumption DEF StartNewHas, Unmoved, Started, Others
<1>3. Sane'
  BY <1>1, <1>2 DEF Sane, World
<1>4. Vacant(p)'
  BY <1>1, <1>2
  DEF Vacant, SwapOnly, HealOnly, PrimFree, BakFree, Recreating, Anew, Undoes, Ends,
      Turned, Received, Request
<1>5. OldHalted(p)'
  BY <1>1, <1>2
  DEF OldHalted, Halted, World, Anew, Undoes, Ends, Turned, Received, Request
<1>6. NewPlaced(p)'
  BY <1>1, <1>2
  DEF NewPlaced, Passes, Anew, Undoes, Ends, Turned, Received, Request
<1>7. TrueWhenSaid(p)'
  BY <1>1, <1>2
  DEF Solo, TrueWhenSaid, Passes, Holders, Anew, Undoes, Ends, Turned, Received, Request
<1>8. Healing(p)'
  BY <1>1, <1>2
  DEF Solo, Healing, HealOnly, Costs, Anew, Undoes, Ends, Turned, Received, Request
<1> QED
  BY <1>3, <1>4, <1>5, <1>6, <1>7, <1>8 DEF Solo

LEMMA VerifyNewSolo ==
  ASSUME Inv, Sane, NEW p \in Procs, Solo(p), VerifyNew(p)
  PROVE  Sane' /\ Solo(p)'
<1>1. PICK a \in Gots : VerifyNewHas(p, a)
  BY VerifyNewEffect
<1>2. docker \in World /\ docker' \in World
  BY VerifyNewEffect DEF Inv, TypeOK
<1> USE NoneAssumption DEF VerifyNewHas, Unmoved
<1>3. Sane'
  BY <1>1, <1>2 DEF Sane, World
<1>4. Vacant(p)'
  BY <1>1, <1>2
  DEF Vacant, SwapOnly, HealOnly, PrimFree, BakFree, Recreating, Anew, Undoes, Ends,
      Turned, Received, Request
<1>5. OldHalted(p)'
  BY <1>1, <1>2
  DEF OldHalted, Halted, World, Anew, Undoes, Ends, Turned, Received, Request
<1>6. NewPlaced(p)'
  BY <1>1, <1>2
  DEF NewPlaced, Passes, Anew, Undoes, Ends, Turned, Received, Request
<1>7. TrueWhenSaid(p)'
  BY <1>1, <1>2
  DEF Solo, TrueWhenSaid, Passes, Holders, Anew, Undoes, Ends, Turned, Received, Request
<1>8. Healing(p)'
  BY <1>1, <1>2
  DEF Solo, Healing, HealOnly, Costs, Anew, Undoes, Ends, Turned, Received, Request
<1> QED
  BY <1>3, <1>4, <1>5, <1>6, <1>7, <1>8 DEF Solo

LEMMA CommitSolo ==
  ASSUME Inv, Sane, NEW p \in Procs, Solo(p), Commit(p)
  PROVE  Sane' /\ Solo(p)'
<1>1. PICK a \in Gots : CommitHas(p, a)
  BY CommitEffect
<1>2. docker \in World /\ docker' \in World
  BY CommitEffect DEF Inv, TypeOK
<1> USE NoneAssumption DEF CommitHas, Unmoved, Deleted
<1>3. Sane'
  BY <1>1, <1>2 DEF Sane, World
<1>4. Vacant(p)'
  BY <1>1, <1>2
  DEF Vacant, SwapOnly, HealOnly, PrimFree, BakFree, Recreating, Anew, Ends, Turned,
      Received, Request
<1>5. OldHalted(p)'
  BY <1>1, <1>2
  DEF OldHalted, Halted, World, Anew, Ends, Turned, Received, Request
<1>6. NewPlaced(p)'
  BY <1>1, <1>2
  DEF NewPlaced, Passes, Anew, Ends, Turned, Received, Request
<1>7. TrueWhenSaid(p)'
  BY <1>1, <1>2
  DEF Solo, TrueWhenSaid, Passes, Holders, Anew, Ends, Turned, Received, Request
<1>8. Healing(p)'
  BY <1>1, <1>2
  DEF Solo, Healing, HealOnly, Costs, Anew, Ends, Turned, Received, Request
<1> QED
  BY <1>3, <1>4, <1>5, <1>6, <1>7, <1>8 DEF Solo

LEMMA RbStopSolo ==
  ASSUME Inv, Sane, NEW p \in Procs, Solo(p), RbStop(p)
  PROVE  Sane' /\ Solo(p)'
<1>1. PICK a \in Gots : RbStopHas(p, a)
  BY RbStopEffect
<1>2. docker \in World /\ docker' \in World
  BY RbStopEffect DEF Inv, TypeOK
<1> USE NoneAssumption DEF RbStopHas, Unmoved, Stopped, Others
<1>3. Sane'
  BY <1>1, <1>2 DEF Sane, World
<1>4. Vacant(p)'
  BY <1>1, <1>2
  DEF Vacant, SwapOnly, HealOnly, PrimFree, BakFree, Recreating, Onward, Turned,
      Received, Request
<1>5. OldHalted(p)'
  BY <1>1, <1>2
  DEF OldHalted, Halted, World, Onward, Turned, Received, Request
<1>6. NewPlaced(p)'
  BY <1>1, <1>2
  DEF NewPlaced, Passes, Onward, Turned, Received, Request
<1>7. TrueWhenSaid(p)'
  BY <1>1, <1>2
  DEF Solo, TrueWhenSaid, Passes, Holders, Onward, Turned, Received, Request
<1>8. Healing(p)'
  BY <1>1, <1>2
  DEF Solo, Healing, HealOnly, Costs, Onward, Turned, Received, Request
<1> QED
  BY <1>3, <1>4, <1>5, <1>6, <1>7, <1>8 DEF Solo

LEMMA RbRemoveSolo ==
  ASSUME Inv, Sane, NEW p \in Procs, Solo(p), RbRemove(p)
  PROVE  Sane' /\ Solo(p)'
<1>1. PICK a \in Gots : RbRemoveHas(p, a)
  BY RbRemoveEffect
<1>2. docker \in World /\ docker' \in World
  BY RbRemoveEffect DEF Inv, TypeOK
<1> USE NoneAssumption DEF RbRemoveHas, Unmoved, Deleted
<1>3. Sane'
  BY <1>1, <1>2 DEF Sane, World
<1>4. Vacant(p)'
  BY <1>1, <1>2
  DEF Vacant, SwapOnly, HealOnly, PrimFree, BakFree, Recreating, Ends, Records,
      Turned, Received, Request
<1>5. OldHalted(p)'
  BY <1>1, <1>2
  DEF OldHalted, Halted, World, Ends, Records, Turned, Received, Request
<1>6. NewPlaced(p)'
  BY <1>1, <1>2
  DEF NewPlaced, Passes, Ends, Records, Turned, Received, Request
<1>7. TrueWhenSaid(p)'
  BY <1>1, <1>2
  DEF Solo, TrueWhenSaid, Passes, Holders, Ends, Records, Turned, Received, Request
<1>8. Healing(p)'
  BY <1>1, <1>2
  DEF Solo, Healing, HealOnly, Costs, Ends, Records, Turned, Received, Request
<1> QED
  BY <1>3, <1>4, <1>5, <1>6, <1>7, <1>8 DEF Solo

LEMMA RbConnectSolo ==
  ASSUME Inv, Sane, NEW p \in Procs, Solo(p), RbConnect(p)
  PROVE  Sane' /\ Solo(p)'
<1>1. PICK a \in Gots : RbConnectHas(p, a)
  BY RbConnectEffect
<1>2. docker \in World /\ docker' \in World
  BY RbConnectEffect DEF Inv, TypeOK
<1> USE NoneAssumption DEF RbConnectHas, Unmoved, Attached, Others
<1>3. Sane'
  BY <1>1, <1>2 DEF Sane, World
<1>4. Vacant(p)'
  BY <1>1, <1>2
  DEF Vacant, SwapOnly, HealOnly, PrimFree, BakFree, Recreating, Ends, Records,
      Turned, Received, Request
<1>5. OldHalted(p)'
  BY <1>1, <1>2
  DEF OldHalted, Halted, World, Ends, Records, Turned, Received, Request
<1>6. NewPlaced(p)'
  BY <1>1, <1>2
  DEF NewPlaced, Passes, Ends, Records, Turned, Received, Request
<1>7. TrueWhenSaid(p)'
  BY <1>1, <1>2
  DEF Solo, TrueWhenSaid, Passes, Holders, Ends, Records, Turned, Received, Request
<1>8. Healing(p)'
  BY <1>1, <1>2
  DEF Solo, Healing, HealOnly, Costs, Ends, Records, Turned, Received, Request
<1> QED
  BY <1>3, <1>4, <1>5, <1>6, <1>7, <1>8 DEF Solo

LEMMA RbStartSolo ==
  ASSUME Inv, Sane, NEW p \in Procs, Solo(p), RbStart(p)
  PROVE  Sane' /\ Solo(p)'
<1>1. PICK a \in Gots : RbStartHas(p, a)
  BY RbStartEffect
<1>2. docker \in World /\ docker' \in World
  BY RbStartEffect DEF Inv, TypeOK
<1> USE NoneAssumption DEF RbStartHas, Unmoved, Started, Others
<1>3. Sane'
  BY <1>1, <1>2 DEF Sane, World
<1>4. Vacant(p)'
  BY <1>1, <1>2
  DEF Vacant, SwapOnly, HealOnly, PrimFree, BakFree, Recreating, Ends, Records,
      Turned, Received, Request
<1>5. OldHalted(p)'
  BY <1>1, <1>2
  DEF OldHalted, Halted, World, Ends, Records, Turned, Received, Request
<1>6. NewPlaced(p)'
  BY <1>1, <1>2
  DEF NewPlaced, Passes, Ends, Records, Turned, Received, Request
<1>7. TrueWhenSaid(p)'
  BY <1>1, <1>2
  DEF Solo, TrueWhenSaid, Passes, Holders, Ends, Records, Turned, Received, Request
<1>8. Healing(p)'
  BY <1>1, <1>2
  DEF Solo, Healing, HealOnly, Costs, Ends, Records, Turned, Received, Request
<1> QED
  BY <1>3, <1>4, <1>5, <1>6, <1>7, <1>8 DEF Solo

LEMMA RbRenameSolo ==
  ASSUME Inv, Sane, NEW p \in Procs, Solo(p), RbRename(p)
  PROVE  Sane' /\ Solo(p)'
<1>1. PICK a \in Gots : RbRenameHas(p, a)
  BY RbRenameEffect
<1>2. docker \in World /\ docker' \in World
  BY RbRenameEffect DEF Inv, TypeOK
<1> USE NoneAssumption DEF RbRenameHas, Unmoved, PutBack
<1>3. Sane'
  BY <1>1, <1>2 DEF Sane, World
<1>4. Vacant(p)'
  BY <1>1, <1>2
  DEF Vacant, SwapOnly, HealOnly, PrimFree, BakFree, Recreating, Ends, Turned,
      Received, Request
<1>5. OldHalted(p)'
  BY <1>1, <1>2
  DEF OldHalted, Halted, World, Ends, Turned, Received, Request
<1>6. NewPlaced(p)'
  BY <1>1, <1>2
  DEF NewPlaced, Passes, Ends, Turned, Received, Request
<1>7. TrueWhenSaid(p)'
  BY <1>1, <1>2
  DEF Solo, TrueWhenSaid, Passes, Holders, Ends, Turned, Received, Request
<1>8. Healing(p)'
  BY <1>1, <1>2
  DEF Solo, Healing, HealOnly, Costs, Ends, Turned, Received, Request
<1> QED
  BY <1>3, <1>4, <1>5, <1>6, <1>7, <1>8 DEF Solo

LEMMA RbVerifySolo ==
  ASSUME Inv, Sane, NEW p \in Procs, Solo(p), RbVerify(p)
  PROVE  Sane' /\ Solo(p)'
<1>1. PICK a \in Gots : RbVerifyHas(p, a)
  BY RbVerifyEffect
<1>2. docker \in World /\ docker' \in World
  BY RbVerifyEffect DEF Inv, TypeOK
<1> USE NoneAssumption DEF RbVerifyHas, Unmoved
<1>3. Sane'
  BY <1>1, <1>2 DEF Sane, World
<1>4. Vacant(p)'
  BY <1>1, <1>2
  DEF Vacant, SwapOnly, HealOnly, PrimFree, BakFree, Recreating, Ends, Turned,
      Received, Request
<1>5. OldHalted(p)'
  BY <1>1, <1>2
  DEF OldHalted, Halted, World, Ends, Turned, Received, Request
<1>6. NewPlaced(p)'
  BY <1>1, <1>2
  DEF NewPlaced, Passes, Ends, Turned, Received, Request
<1>7. TrueWhenSaid(p)'
  BY <1>1, <1>2
  DEF Solo, TrueWhenSaid, Passes, Holders, Ends, Turned, Received, Request
<1>8. Healing(p)'
  BY <1>1, <1>2
  DEF Solo, Healing, HealOnly, Costs, Ends, Turned, Received, Request
<1> QED
  BY <1>3, <1>4, <1>5, <1>6, <1>7, <1>8 DEF Solo

LEMMA UpInspectSolo ==
  ASSUME Inv, Sane, NEW p \in Procs, Solo(p), UpInspect(p)
  PROVE  Sane' /\ Solo(p)'
<1>1. PICK a \in Gots : UpInspectHas(p, a)
  BY UpInspectEffect
<1>2. docker \in World /\ docker' \in World
  BY UpInspectEffect DEF Inv, TypeOK
<1> USE NoneAssumption DEF UpInspectHas, Unmoved
<1>3. Sane'
  BY <1>1, <1>2 DEF Sane, World
<1>4. Vacant(p)'
  BY <1>1, <1>2
  DEF Vacant, SwapOnly, HealOnly, PrimFree, BakFree, Recreating, Turned, Received,
      Request
<1>5. OldHalted(p)'
  BY <1>1, <1>2
  DEF OldHalted, Halted, World, Turned, Received, Request
<1>6. NewPlaced(p)'
  BY <1>1, <1>2
  DEF NewPlaced, Passes, Turned, Received, Request
<1>7. TrueWhenSaid(p)'
  BY <1>1, <1>2
  DEF Solo, TrueWhenSaid, Passes, Holders, Turned, Received, Request
<1>8. Healing(p)'
  BY <1>1, <1>2
  DEF Solo, Healing, HealOnly, Costs, Turned, Received, Request
<1> QED
  BY <1>3, <1>4, <1>5, <1>6, <1>7, <1>8 DEF Solo

LEMMA UpStartSolo ==
  ASSUME Inv, Sane, NEW p \in Procs, Solo(p), UpStart(p)
  PROVE  Sane' /\ Solo(p)'
<1>1. PICK a \in Gots : UpStartHas(p, a)
  BY UpStartEffect
<1>2. docker \in World /\ docker' \in World
  BY UpStartEffect DEF Inv, TypeOK
<1> USE NoneAssumption DEF UpStartHas, Unmoved, Started, Others
<1>3. Sane'
  BY <1>1, <1>2 DEF Sane, World
<1>4. Vacant(p)'
  BY <1>1, <1>2
  DEF Vacant, SwapOnly, HealOnly, PrimFree, BakFree, Recreating, Anew, Ends, Turned,
      Received, Request
<1>5. OldHalted(p)'
  BY <1>1, <1>2
  DEF OldHalted, Halted, World, Anew, Ends, Turned, Received, Request
<1>6. NewPlaced(p)'
  BY <1>1, <1>2
  DEF NewPlaced, Passes, Anew, Ends, Turned, Received, Request
<1>7. TrueWhenSaid(p)'
  BY <1>1, <1>2
  DEF Solo, TrueWhenSaid, Passes, Holders, Anew, Ends, Turned, Received, Request
<1>8. Healing(p)'
  BY <1>1, <1>2
  DEF Solo, Healing, HealOnly, Costs, Anew, Ends, Turned, Received, Request
<1> QED
  BY <1>3, <1>4, <1>5, <1>6, <1>7, <1>8 DEF Solo

LEMMA DownStopSolo ==
  ASSUME Inv, Sane, NEW p \in Procs, Solo(p), DownStop(p)
  PROVE  Sane' /\ Solo(p)'
<1>1. PICK a \in Gots : DownStopHas(p, a)
  BY DownStopEffect
<1>2. docker \in World /\ docker' \in World
  BY DownStopEffect DEF Inv, TypeOK
<1> USE NoneAssumption DEF DownStopHas, Unmoved, Stopped, Others
<1>3. Sane'
  BY <1>1, <1>2 DEF Sane, World
<1>4. Vacant(p)'
  BY <1>1, <1>2
  DEF Vacant, SwapOnly, HealOnly, PrimFree, BakFree, Recreating, Anew, Ends, Turned,
      Received, Request
<1>5. OldHalted(p)'
  BY <1>1, <1>2
  DEF OldHalted, Halted, World, Anew, Ends, Turned, Received, Request
<1>6. NewPlaced(p)'
  BY <1>1, <1>2
  DEF NewPlaced, Passes, Anew, Ends, Turned, Received, Request
<1>7. TrueWhenSaid(p)'
  BY <1>1, <1>2
  DEF Solo, TrueWhenSaid, Passes, Holders, Anew, Ends, Turned, Received, Request
<1>8. Healing(p)'
  BY <1>1, <1>2
  DEF Solo, Healing, HealOnly, Costs, Anew, Ends, Turned, Received, Request
<1> QED
  BY <1>3, <1>4, <1>5, <1>6, <1>7, <1>8 DEF Solo

LEMMA WaitSolo ==
  ASSUME Inv, Sane, NEW p \in Procs, Solo(p), Wait(p)
  PROVE  Sane' /\ Solo(p)'
<1>1. PICK a \in Gots : WaitHas(p, a)
  BY WaitEffect
<1>2. docker \in World /\ docker' \in World
  BY WaitEffect DEF Inv, TypeOK
<1> USE NoneAssumption DEF WaitHas, Unmoved
<1>3. Sane'
  BY <1>1, <1>2 DEF Sane, World
<1>4. Vacant(p)'
  BY <1>1, <1>2
  DEF Vacant, SwapOnly, HealOnly, PrimFree, BakFree, Recreating, Anew, Ends, Turned,
      Received, Request
<1>5. OldHalted(p)'
  BY <1>1, <1>2
  DEF OldHalted, Halted, World, Anew, Ends, Turned, Received, Request
<1>6. NewPlaced(p)'
  BY <1>1, <1>2
  DEF NewPlaced, Passes, Anew, Ends, Turned, Received, Request
<1>7. TrueWhenSaid(p)'
  BY <1>1, <1>2
  DEF Solo, TrueWhenSaid, Passes, Holders, Anew, Ends, Turned, Received, Request
<1>8. Healing(p)'
  BY <1>1, <1>2
  DEF Solo, Healing, HealOnly, Costs, Anew, Ends, Turned, Received, Request
<1> QED
  BY <1>3, <1>4, <1>5, <1>6, <1>7, <1>8 DEF Solo

LEMMA FixRoutesSolo ==
  ASSUME Inv, Sane, NEW p \in Procs, Solo(p), FixRoutes(p)
  PROVE  Sane' /\ Solo(p)'
<1>1. PICK a \in Gots : FixRoutesHas(p, a)
  BY FixRoutesEffect
<1>2. docker \in World /\ docker' \in World
  BY FixRoutesEffect DEF Inv, TypeOK
<1> USE NoneAssumption DEF FixRoutesHas, Unmoved
<1>3. Sane'
  BY <1>1, <1>2 DEF Sane, World
<1>4. Vacant(p)'
  BY <1>1, <1>2
  DEF Vacant, SwapOnly, HealOnly, PrimFree, BakFree, Recreating, Anew, Ends, Turned,
      Received, Request
<1>5. OldHalted(p)'
  BY <1>1, <1>2
  DEF OldHalted, Halted, World, Anew, Ends, Turned, Received, Request
<1>6. NewPlaced(p)'
  BY <1>1, <1>2
  DEF NewPlaced, Passes, Anew, Ends, Turned, Received, Request
<1>7. TrueWhenSaid(p)'
  BY <1>1, <1>2
  DEF Solo, TrueWhenSaid, Passes, Holders, Anew, Ends, Turned, Received, Request
<1>8. Healing(p)'
  BY <1>1, <1>2
  DEF Solo, Healing, HealOnly, Costs, Anew, Ends, Turned, Received, Request
<1> QED
  BY <1>3, <1>4, <1>5, <1>6, <1>7, <1>8 DEF Solo

(* What is to be replaced, and whether the backup stands alone.              *)
InspectPrimaryHas(p, a) ==
  /\ cli[p].pc = "inspectPrimary"
  /\ proven' = proven
  /\ Request(p, a, Inspect(Primary))
  /\ \/ a.reply = "error" /\ Ends(p, a, "failed")
     \/ /\ a.reply # "error"
        /\ cli'[p].pc = "inspectBackup" /\ cli'[p].dead = a.dead
        /\ cli'[p].todo = cli[p].todo /\ cli'[p].out = cli[p].out
        /\ cli'[p].op = cli[p].op /\ cli'[p].new = cli[p].new
        /\ cli'[p].swap = (a.reply = "ok")
        /\ cli'[p].old = docker.name[Primary]
        /\ cli'[p].served = cli[p].served
        /\ cli'[p].orphan = cli[p].orphan
  /\ Unmoved
  /\ a.reply # "error" => (a.reply = "ok" <=> Prim # None)
  /\ Costs(p, a)

LEMMA InspectPrimaryEffect ==
  ASSUME Inv, Sane, NEW p \in Procs, Solo(p), InspectPrimary(p)
  PROVE  docker' \in World /\ \E a \in Gots : InspectPrimaryHas(p, a)
<1>1. PICK a \in Gots :
        /\ Request(p, a, Inspect(Primary))
        /\ \/ a.reply = "error" /\ Ends(p, a, "failed")
           \/ /\ a.reply # "error"
              /\ cli'[p].pc = "inspectBackup" /\ cli'[p].dead = a.dead
              /\ cli'[p].todo = cli[p].todo /\ cli'[p].out = cli[p].out
              /\ cli'[p].op = cli[p].op /\ cli'[p].new = cli[p].new
              /\ cli'[p].swap = (a.reply = "ok")
              /\ cli'[p].old = docker.name[Primary]
              /\ cli'[p].served = cli[p].served
              /\ cli'[p].orphan = cli[p].orphan
  BY InspectPrimaryDoes DEF Inv
<1>2. cli[p].pc = "inspectPrimary" /\ proven' = proven /\ docker \in World
  BY InspectPrimaryDoes DEF Inv, TypeOK
<1>3. Unmoved /\ (a.reply # "error" => (a.reply = "ok" <=> Prim # None))
  BY <1>1 DEF Unmoved, Request, Received, Replied, Failed, Inspect, Answer, Prim, Bak
<1>4. Costs(p, a)
  <2>1. Inspect(Primary).reply # "error"
    BY DEF Inspect, Answer
  <2> QED
    BY <1>1, <2>1, ErrorCosts DEF Inv
<1> QED
  BY <1>1, <1>2, <1>3, <1>4 DEF InspectPrimaryHas, Unmoved

LEMMA InspectPrimarySolo ==
  ASSUME Inv, Sane, NEW p \in Procs, Solo(p), InspectPrimary(p)
  PROVE  Sane' /\ Solo(p)'
<1>1. PICK a \in Gots : InspectPrimaryHas(p, a)
  BY InspectPrimaryEffect
<1> USE DEF InspectPrimaryHas, Unmoved
<1>2. Sane'
  BY <1>1 DEF Sane
<1>3. Vacant(p)'
  BY <1>1
  DEF Vacant, SwapOnly, HealOnly, PrimFree, BakFree, Recreating, Ends, Turned
<1>4. OldHalted(p)' /\ NewPlaced(p)'
  BY <1>1 DEF OldHalted, Halted, NewPlaced, Ends, Turned
<1>5. TrueWhenSaid(p)'
  BY <1>1 DEF TrueWhenSaid, Ends, Turned
<1>6. Healing(p)'
  BY <1>1 DEF Solo, Healing, HealOnly, Ends, Turned, Request, Received, Costs
<1> QED
  BY <1>2, <1>3, <1>4, <1>5, <1>6 DEF Solo

(* Nothing happens to the containers before the preflight has passed.        *)
PreflightHas(p, a) ==
  /\ cli[p].pc = "preflight"
  /\ cli[p].swap => Bak = None
  /\ proven' = proven
  /\ Received(p, a)
  /\ \/ a.reply # "ok" /\ Ends(p, a, "failed")
     \/ Onward(p, a, IF cli[p].swap THEN "stop" ELSE "create")
  /\ Unmoved
  /\ Costs(p, a)

LEMMA PreflightEffect ==
  ASSUME Inv, Sane, NEW p \in Procs, Solo(p), Preflight(p)
  PROVE  docker' \in World /\ \E a \in Gots : PreflightHas(p, a)
<1>1. PICK a \in Gots, r \in {"ok", "refused"} :
        /\ Request(p, a, Answer(r, docker))
        /\ \/ a.reply # "ok" /\ Ends(p, a, "failed")
           \/ Onward(p, a, IF cli[p].swap THEN "stop" ELSE "create")
  BY PreflightDoes DEF Inv
<1>2. /\ cli[p].pc = "preflight" /\ proven' = proven /\ docker \in World
      /\ cli[p].swap => Bak = None
  BY PreflightDoes DEF Inv, TypeOK, Solo, Vacant
<1>3. Unmoved /\ Received(p, a)
  BY <1>1 DEF Unmoved, Request, Received, Replied, Failed, Answer, Prim, Bak
<1>4. Costs(p, a)
  <2>1. Answer(r, docker).reply # "error"
    BY DEF Answer
  <2> QED
    BY <1>1, <2>1, ErrorCosts DEF Inv
<1> QED
  BY <1>1, <1>2, <1>3, <1>4 DEF PreflightHas, Unmoved

LEMMA PreflightSolo ==
  ASSUME Inv, Sane, NEW p \in Procs, Solo(p), Preflight(p)
  PROVE  Sane' /\ Solo(p)'
<1>1. PICK a \in Gots : PreflightHas(p, a)
  BY PreflightEffect
<1> USE DEF PreflightHas, Unmoved
<1>2. Sane'
  BY <1>1 DEF Sane
<1>3. Vacant(p)'
  BY <1>1
  DEF Vacant, SwapOnly, HealOnly, PrimFree, BakFree, Recreating, Onward, Ends, Turned
<1>4. OldHalted(p)' /\ NewPlaced(p)'
  <2>1. /\ cli'[p].pc = "create" => ~cli'[p].swap
        /\ cli'[p].pc \in {"stop", "create", "idle"}
    BY <1>1 DEF Onward, Ends, Turned
  <2> QED
    BY <2>1 DEF OldHalted, Halted, NewPlaced
<1>5. TrueWhenSaid(p)'
  BY <1>1 DEF TrueWhenSaid, Onward, Ends, Turned
<1>6. Healing(p)'
  BY <1>1 DEF Solo, Healing, HealOnly, Onward, Ends, Turned, Received
<1> QED
  BY <1>2, <1>3, <1>4, <1>5, <1>6 DEF Solo

(* The new container takes the free name under an identity never used.       *)
Created(c) ==
  /\ Prim = None /\ Prim' = c /\ Bak' = Bak
  /\ docker'.running = docker.running
  /\ docker'.attached = docker.attached \cup {c}
  /\ docker'.made = docker.made \cup {c}
  /\ docker'.foreign = docker.foreign

Goes(p, a, c) ==
  \/ a.reply # "ok" /\ Undoes(p, a, "failed")
  \/ /\ a.reply = "ok"
     /\ cli'[p].pc = "startNew" /\ cli'[p].dead = a.dead
     /\ cli'[p].op = cli[p].op /\ cli'[p].swap = cli[p].swap
     /\ cli'[p].old = cli[p].old /\ cli'[p].new = c
     /\ cli'[p].served = cli[p].served
     /\ cli'[p].orphan = cli[p].orphan

CreateHas(p, a, c) ==
  /\ cli[p].pc = "create"
  /\ cli[p].swap => /\ Prim = None /\ cli[p].old \notin docker.running
                    /\ Bak = cli[p].old /\ cli[p].old # None
  /\ proven' = proven
  /\ Received(p, a)
  /\ Goes(p, a, c)
  /\ Unmoved \/ Created(c)
  /\ a.reply = "ok" => Created(c)
  /\ Costs(p, a)

LEMMA CreateEffect ==
  ASSUME Inv, Sane, NEW p \in Procs, Solo(p), Create(p)
  PROVE  docker' \in World /\ \E a \in Gots, c \in Ctr \ docker.made : CreateHas(p, a, c)
<1>1. PICK a \in Gots, c \in Ctr \ docker.made, res \in Results :
        /\ Request(p, a, res)
        /\ \/ res = Answer("missing", docker)
           \/ \E k \in Kinds : res = DockerCreate(docker, Primary, c, k)
        /\ Goes(p, a, c)
  BY CreateDone DEF Inv, Goes
<1>2. /\ cli[p].pc = "create" /\ docker \in World /\ docker' \in World
      /\ proven' = proven /\ Received(p, a)
  BY <1>1, CreateDone DEF Inv, TypeOK, Request, Received, Gots
<1>3. /\ Unmoved \/ Created(c)
      /\ a.reply = "ok" => Created(c)
      /\ res.reply # "error"
  <2> USE DEF Unmoved, Created, Request, Received, Replied, Failed
  <2>1. CASE res = Answer("missing", docker)
    BY <1>1, <2>1 DEF Answer, Prim, Bak
  <2>2. ASSUME NEW k \in Kinds, res = DockerCreate(docker, Primary, c, k)
        PROVE  /\ Unmoved \/ Created(c)
               /\ a.reply = "ok" => Created(c)
               /\ res.reply # "error"
    BY <1>1, <1>2, <2>2, CreateDoes DEF Prim, Bak
  <2> QED
    BY <1>1, <2>1, <2>2
<1>4. cli[p].swap => /\ Prim = None /\ cli[p].old \notin docker.running
                     /\ Bak = cli[p].old /\ cli[p].old # None
  BY <1>2 DEF Solo, Vacant, OldHalted, Halted, Inv, OldPlaced, AtBackup, Bak
<1>5. Costs(p, a)
  BY <1>1, <1>3, ErrorCosts DEF Inv
<1> QED
  BY <1>1, <1>2, <1>3, <1>4, <1>5 DEF CreateHas

LEMMA CreateSolo ==
  ASSUME Inv, Sane, NEW p \in Procs, Solo(p), Create(p)
  PROVE  Sane' /\ Solo(p)'
<1>1. PICK a \in Gots, c \in Ctr \ docker.made : CreateHas(p, a, c)
  BY CreateEffect
<1>2. docker \in World /\ docker' \in World
  BY CreateEffect DEF Inv, TypeOK
<1> USE DEF CreateHas, Unmoved, Created, Goes
<1>3. Sane'
  BY <1>1, <1>2, NoneAssumption DEF Sane, World
<1>4. Vacant(p)'
  BY <1>1
  DEF Vacant, SwapOnly, HealOnly, PrimFree, BakFree, Recreating, Undoes, Ends, Turned
<1>5. OldHalted(p)'
  BY <1>1 DEF OldHalted, Halted, Undoes, Ends, Turned
<1>6. NewPlaced(p)'
  BY <1>1, NoneAssumption DEF NewPlaced, Undoes, Ends, Turned
<1>7. TrueWhenSaid(p)'
  BY <1>1 DEF TrueWhenSaid, Undoes, Ends, Turned
<1>8. Healing(p)'
  BY <1>1 DEF Solo, Healing, HealOnly, Undoes, Ends, Turned, Received
<1> QED
  BY <1>3, <1>4, <1>5, <1>6, <1>7, <1>8 DEF Solo

(* A build touches no container.                                             *)
LEMMA BuildSolo ==
  ASSUME Inv, Sane, NEW p \in Procs, Solo(p), Build(p)
  PROVE  Sane' /\ Solo(p)'
<1>1. /\ cli[p].pc = "build" /\ docker' = docker
      /\ cli'[p].pc \in {"inspectPrimary", "rebuildStatus", "idle"}
      /\ cli'[p].pc = "idle" => cli'[p].out = "failed"
      /\ cli'[p].op = cli[p].op /\ cli'[p].orphan = cli[p].orphan
      /\ cli'[p].hit = cli[p].hit
  BY BuildDoes DEF Inv
<1>2. Sane'
  BY <1>1 DEF Sane, Prim, Bak
<1>3. Vacant(p)' /\ OldHalted(p)' /\ NewPlaced(p)' /\ TrueWhenSaid(p)'
  BY <1>1
  DEF Vacant, SwapOnly, HealOnly, PrimFree, BakFree, Recreating, OldHalted, Halted,
      NewPlaced, TrueWhenSaid
<1>4. Healing(p)'
  BY <1>1 DEF Solo, Healing, HealOnly
<1> QED
  BY <1>2, <1>3, <1>4 DEF Solo

(* Every step of the process at work.                                        *)
LEMMA AdvanceSolo ==
  ASSUME Inv, Sane, NEW p \in Procs, Solo(p), Advance(p)
  PROVE  Sane' /\ Solo(p)'
<1>1. CASE Recreate(p)
  BY <1>1, InspectPrimarySolo, InspectBackupSolo, TriageRemoveSolo, HealConnectSolo,
     HealStartSolo, HealRenameSolo, PreflightSolo, StopOldSolo, RenameOldSolo,
     DisconnectOldSolo, UndoRenameSolo, UndoStartSolo, CreateSolo, StartNewSolo,
     VerifyNewSolo, CommitSolo DEF Recreate
<1>2. CASE Rollback(p)
  BY <1>2, RbStopSolo, RbRemoveSolo, RbConnectSolo, RbStartSolo, RbRenameSolo,
     RbVerifySolo DEF Rollback
<1>3. CASE UpDown(p)
  BY <1>3, BuildSolo, RebuildStatusSolo, UpInspectSolo, UpStartSolo, DownStopSolo,
     WaitSolo, FixRoutesSolo DEF UpDown
<1> QED
  BY <1>1, <1>2, <1>3 DEF Advance

(* A command that begins sees whether a stopped backup stands alone.         *)
LEMMA BeginSolo ==
  ASSUME Inv, Sane, NEW p \in Procs, Solo(p), Begin(p)
  PROVE  Sane' /\ Solo(p)'
<1>1. PICK op \in Commands[p] : cli' = [cli EXCEPT ![p] =
         [op |-> op, pc |-> FirstLabel(op), swap |-> FALSE, old |-> None,
          new |-> None, dead |-> FALSE, todo |-> {}, out |-> "none",
          served |-> \E c \in Ctr : Serving(docker, c),
          orphan |-> Orphan, hit |-> FALSE]]
  BY DEF Begin
<1>2. /\ cli'[p].op = op /\ cli'[p].pc = FirstLabel(op) /\ ~cli'[p].swap
      /\ ~cli'[p].dead /\ cli'[p].orphan = Orphan
      /\ docker' = docker
  BY <1>1 DEF Begin, Inv, TypeOK
<1>3. op \in AllCommands
  BY CommandsAssumption
<1>4. /\ FirstLabel(op) \in {"inspectPrimary", "build", "upInspect", "downStop"}
      /\ op = "recreate" => FirstLabel(op) = "inspectPrimary"
  BY <1>3 DEF FirstLabel, AllCommands, Recreators
<1>5. Sane'
  BY <1>2 DEF Sane, Prim, Bak
<1>6. Vacant(p)' /\ OldHalted(p)' /\ NewPlaced(p)' /\ TrueWhenSaid(p)'
  BY <1>2, <1>4
  DEF Vacant, SwapOnly, HealOnly, PrimFree, BakFree, Recreating, OldHalted, Halted,
      NewPlaced, TrueWhenSaid
<1>7. Healing(p)'
  BY <1>2, <1>4 DEF Healing, HealOnly, Orphan, Prim, Bak
<1> QED
  BY <1>5, <1>6, <1>7 DEF Solo

(* A command that ends by its death says nothing.                            *)
LEMMA DeadSolo ==
  ASSUME NEW p \in Procs, cli'[p].pc = "idle", cli'[p].out = "killed"
  PROVE  Solo(p)'
BY DEF Solo, Vacant, SwapOnly, HealOnly, PrimFree, BakFree, Recreating, OldHalted,
       Halted, NewPlaced, TrueWhenSaid, Healing

LEMMA KillSolo ==
  ASSUME Inv, Sane, NEW p \in Procs, Kill(p)
  PROVE  Sane' /\ Solo(p)'
<1>1. cli'[p].pc = "idle" /\ cli'[p].out = "killed" /\ docker' = docker
  BY DEF Kill, End, Inv, TypeOK, Process
<1> QED
  BY <1>1, DeadSolo DEF Sane, Prim, Bak

(* Nothing around the processes names, creates or starts a container.        *)
LEMMA SurroundingsSane ==
  ASSUME Inv, Sane, Surroundings
  PROVE  Sane'
<1>1. /\ docker'.name = docker.name /\ docker'.running = docker.running
      /\ docker'.attached = docker.attached /\ docker'.made = docker.made
  BY DEF Surroundings, Reboot, DockerReboot, EditInputs, ForeignJoins, ForeignLeaves,
         Inv, TypeOK, World
<1> QED
  BY <1>1 DEF Sane, Prim, Bak

(* A reboot ends every command; a stopped container stays so, and what runs  *)
(* keeps its names and its endpoint.                                         *)
LEMMA SurroundingsSolo ==
  ASSUME Inv, Surroundings, NEW p \in Procs, Solo(p)
  PROVE  Solo(p)'
<1> USE DEF Inv
<1>1. CASE Reboot
  BY <1>1, DeadSolo DEF Reboot, End, TypeOK, Process
<1>2. CASE EditInputs
  <2>1. docker' = docker /\ cli' = cli
    BY <1>2 DEF EditInputs
  <2> QED
    BY <2>1 DEF Solo, Vacant, OldHalted, NewPlaced, TrueWhenSaid, Healing,
                Prim, Bak, Passes, Holders
<1>3. CASE ForeignJoins \/ ForeignLeaves
  <2>1. /\ docker'.name = docker.name /\ docker'.running = docker.running
        /\ docker'.attached = docker.attached
        /\ docker'.sick = docker.sick /\ docker'.kind = docker.kind
        /\ cli' = cli
    BY <1>3 DEF ForeignJoins, ForeignLeaves, TypeOK, World
  <2> QED
    BY <2>1 DEF Solo, Vacant, OldHalted, NewPlaced, TrueWhenSaid, Healing,
                Prim, Bak, Passes, Holders
<1> QED
  BY <1>1, <1>2, <1>3 DEF Surroundings

(* SoloInv is inductive when there is one process.                           *)
LEMMA SoloInit == Init => SoloInv
<1> SUFFICES ASSUME Init PROVE SoloInv
  OBVIOUS
<1>1. Inv
  BY InvInit
<1>2. Sane
  <2>1. CASE docker = Fresh
    BY <2>1 DEF Fresh, Sane, Prim, Bak, Names, Primary, Backup
  <2>2. CASE \E c \in Ctr : docker = [Fresh EXCEPT !.name[Primary] = c, !.running = {c},
                                        !.attached = {c}, !.made = {c}]
    BY <2>2 DEF Fresh, Sane, Prim, Bak, Names, Primary, Backup
  <2> QED
    BY <2>1, <2>2 DEF Init
<1>3. ASSUME NEW p \in Procs PROVE Solo(p)
  <2>1. cli[p].pc = "idle" /\ cli[p].out = "none"
    BY DEF Init
  <2> QED
    BY <2>1 DEF Solo, Vacant, SwapOnly, HealOnly, PrimFree, BakFree, Recreating,
                OldHalted, Halted, NewPlaced, TrueWhenSaid, Healing
<1> QED
  BY <1>1, <1>2, <1>3 DEF SoloInv

(* Alone, no process is a bystander.                                         *)
LEMMA AloneRecreates == Alone => OneRecreator
BY DEF Alone, OneRecreator

(* Every step keeps it, ...                                                  *)
LEMMA SoloNext == Alone /\ SoloInv /\ [Next]_vars => SoloInv'
<1> SUFFICES ASSUME Alone, SoloInv, [Next]_vars PROVE SoloInv'
  OBVIOUS
<1>1. Inv /\ Inv'
  BY AloneRecreates, InvNext DEF SoloInv
<1>2. CASE UNCHANGED vars
  BY <1>1, <1>2 DEF vars, SoloInv, Sane, Solo, Vacant, OldHalted, NewPlaced,
                    TrueWhenSaid, Healing, Prim, Bak, Passes, Holders
<1>3. CASE \E p \in Procs : Begin(p) \/ Advance(p) \/ Kill(p)
  <2>1. PICK p \in Procs : Begin(p) \/ Advance(p) \/ Kill(p)
    BY <1>3
  <2>2. Sane' /\ Solo(p)'
    BY <2>1, AdvanceSolo, BeginSolo, KillSolo DEF SoloInv
  <2>3. \A q \in Procs : q = p
    BY DEF Alone
  <2>4. \A q \in Procs : Solo(q)'
    BY <2>2, <2>3
  <2> QED
    BY <1>1, <2>2, <2>4 DEF SoloInv
<1>4. CASE Surroundings
  BY <1>1, <1>4, SurroundingsSane, SurroundingsSolo DEF SoloInv
<1> QED
  BY <1>2, <1>3, <1>4 DEF Next

(* ... so it always holds.                                                   *)
LEMMA SoloAlways ==
  ASSUME Alone
  PROVE  Spec => []SoloInv
BY SoloInit, SoloNext, PTL DEF Spec

(* A rollback that reports itself as such has left the old container under   *)
(* the proxy's name, on the IP, passing its check, and no backup: however    *)
(* requests failed on the way, whatever was edited or rebooted since.        *)
THEOREM RolledBackAlwaysServes ==
  ASSUME Alone
  PROVE  Spec => []RolledBackServes
<1>1. SoloInv => RolledBackServes
  BY DEF SoloInv, Solo, TrueWhenSaid, RolledBackServes, Ended, Prim, Bak
<1> QED
  BY <1>1, SoloAlways, PTL

(* A recreate that reports a commit has left the container it made under the *)
(* proxy's name, on the IP, passing its check.                               *)
THEOREM CommittedAlwaysServes ==
  ASSUME Alone
  PROVE  Spec => []CommittedServes
<1>1. SoloInv => CommittedServes
  BY DEF SoloInv, Solo, TrueWhenSaid, CommittedServes, Ended, Prim
<1> QED
  BY <1>1, SoloAlways, PTL

(* A recreate that finds a stopped backup alone, and meets neither an error  *)
(* of the daemon nor another holder of the IP, restores it, wherever the     *)
(* swap that left it was cut off.                                            *)
THEOREM StoppedAlwaysHeals ==
  ASSUME Alone
  PROVE  Spec => []SelfHealsStopped
<1>1. SoloInv => SelfHealsStopped
  BY DEF SoloInv, Solo, Healing, SelfHealsStopped, Heals
<1> QED
  BY <1>1, SoloAlways, PTL

-----------------------------------------------------------------------------
(* The rollbackState.                                                        *)

(* Forward of the rollback nothing is left to do, until it begins with       *)
(* everything.                                                               *)
RollingBack == {"rbStop", "rbRemove", "rbConnect", "rbStart", "rbRename"}

Starts(p) ==
  /\ cli'[p].pc \in RollingBack => cli'[p].pc = "rbStop" /\ cli'[p].todo = ManualSteps
  /\ cli'[p].pc = "idle" => cli'[p].out # "critical"

(* Every step forward is such.                                               *)
LEMMA ForwardStarts ==
  ASSUME TypeOK, NEW p \in Procs, Recreate(p) \/ UpDown(p) \/ RbVerify(p)
  PROVE  Starts(p)
<1> USE DEF Starts, RollingBack, Turned
<1>1. CASE RebuildStatus(p)
  BY <1>1, RebuildStatusDoes DEF Anew
<1>2. CASE InspectPrimary(p)
  BY <1>2, InspectPrimaryDoes DEF Ends
<1>3. CASE InspectBackup(p)
  BY <1>3, InspectBackupDoes DEF Onward, Ends
<1>4. CASE TriageRemove(p)
  BY <1>4, TriageRemoveDoes DEF Onward, Ends
<1>5. CASE HealConnect(p)
  BY <1>5, HealConnectDoes DEF Onward, Ends
<1>6. CASE HealStart(p)
  BY <1>6, HealStartDoes DEF Onward, Ends
<1>7. CASE HealRename(p)
  BY <1>7, HealRenameDoes DEF Anew, Ends
<1>8. CASE Preflight(p)
  BY <1>8, PreflightDoes DEF Onward, Ends
<1>9. CASE StopOld(p)
  BY <1>9, StopOldDoes DEF Onward, Ends
<1>10. CASE RenameOld(p)
  BY <1>10, RenameOldDoes DEF Onward
<1>11. CASE DisconnectOld(p)
  BY <1>11, DisconnectOldDoes DEF Onward
<1>12. CASE UndoRename(p)
  BY <1>12, UndoRenameDoes DEF Onward
<1>13. CASE UndoStart(p)
  BY <1>13, UndoStartDoes DEF Ends
<1>14. CASE Create(p)
  BY <1>14, CreateDone DEF Undoes, Ends
<1>15. CASE StartNew(p)
  BY <1>15, StartNewDoes DEF Undoes, Anew, Ends
<1>16. CASE VerifyNew(p)
  BY <1>16, VerifyNewDoes DEF Undoes, Anew, Ends
<1>17. CASE Commit(p)
  BY <1>17, CommitDoes DEF Anew, Ends
<1>18. CASE RbVerify(p)
  BY <1>18, RbVerifyDoes DEF Ends
<1>19. CASE UpInspect(p)
  BY <1>19, UpInspectDoes
<1>20. CASE UpStart(p)
  BY <1>20, UpStartDoes DEF Anew, Ends
<1>21. CASE DownStop(p)
  BY <1>21, DownStopDoes DEF Anew, Ends
<1>22. CASE Wait(p)
  BY <1>22, WaitDoes DEF Anew, Ends
<1>23. CASE FixRoutes(p)
  BY <1>23, FixRoutesDoes DEF Anew, Ends
<1>24. CASE Build(p)
  BY <1>24, BuildDoes
<1> QED
  BY <1>1, <1>2, <1>3, <1>4, <1>5, <1>6, <1>7, <1>8, <1>9, <1>10, <1>11, <1>12,
     <1>13, <1>14, <1>15, <1>16, <1>17, <1>18, <1>19, <1>20, <1>21, <1>22, <1>23, <1>24
  DEF Recreate, UpDown

(* Each step of the rollback leaves on the list what it did not do.          *)
LEMMA RollbackRecovers ==
  ASSUME "late" \notin FaultModes, Inv, Sane, NEW p \in Procs, Solo(p), Recoverable(p),
         RbStop(p) \/ RbRemove(p) \/ RbConnect(p) \/ RbStart(p) \/ RbRename(p)
  PROVE  Recoverable(p)'
<1> USE DEF Turned
<1>1. CASE RbStop(p)
  BY <1>1, RbStopEffect DEF RbStopHas, Recoverable, Onward
<1>2. CASE RbRemove(p)
  <2>1. /\ cli[p].pc = "rbRemove" /\ Bak = cli[p].old /\ cli[p].old # None
        /\ cli[p].old \notin docker.running
    BY <1>2, RbRemoveEffect DEF RbRemoveHas
  <2>2. PICK a \in Gots :
          /\ Request(p, a, DockerRemove(docker, Primary))
          /\ IF a.reply \in Gone THEN Records(p, a, "remove", "rbConnect")
             ELSE Ends(p, a, "critical")
    BY <1>2, RbRemoveEffect DEF RbRemoveHas
  <2>3. cli[p].todo = ManualSteps
    BY <2>1 DEF Recoverable
  <2>4. CASE a.reply \in Gone
    BY <2>2, <2>3, <2>4 DEF Recoverable, Records, ManualSteps
  <2>5. CASE a.reply \notin Gone
    <3>1. docker \in World
      BY DEF Inv, TypeOK
    <3>2. docker' = docker
      BY <2>2, <2>5, <3>1, RemoveDoes DEF Request, Received, Replied, Failed, Gone, Names
    <3> QED
      BY <2>1, <2>2, <2>3, <2>5, <3>2 DEF Recoverable, LeftToDo, Ends, Bak
  <2> QED
    BY <2>4, <2>5
<1>3. CASE RbConnect(p)
  <2>1. /\ cli[p].pc = "rbConnect" /\ Prim = None
        /\ Bak = cli[p].old /\ cli[p].old # None
        /\ cli[p].old \notin docker.running
    BY <1>3, RbConnectEffect DEF RbConnectHas
  <2>2. PICK a \in Gots :
          /\ Request(p, a, DockerConnect(docker, Backup))
          /\ IF a.reply = "ok" THEN Records(p, a, "connect", "rbStart")
             ELSE Ends(p, a, "critical")
    BY <1>3, RbConnectEffect DEF RbConnectHas
  <2>3. cli[p].todo = {"connect", "start", "rename"}
    BY <2>1 DEF Recoverable
  <2>4. CASE a.reply = "ok"
    BY <2>2, <2>3, <2>4 DEF Recoverable, Records
  <2>5. CASE a.reply # "ok"
    <3>1. docker \in World
      BY DEF Inv, TypeOK
    <3>2. docker' = docker
      BY <2>2, <2>5, <3>1, ConnectDoes DEF Request, Received, Replied, Failed, Names
    <3> QED
      BY <2>1, <2>2, <2>3, <2>5, <3>2 DEF Recoverable, LeftToDo, Ends, Bak, Prim
  <2> QED
    BY <2>4, <2>5
<1>4. CASE RbStart(p)
  <2>1. /\ cli[p].pc = "rbStart" /\ Prim = None
        /\ Bak = cli[p].old /\ cli[p].old # None
        /\ cli[p].old \notin docker.running /\ cli[p].old \in docker.attached
    BY <1>4, RbStartEffect DEF RbStartHas
  <2>2. PICK a \in Gots :
          /\ Request(p, a, DockerStart(docker, docker.name[Backup], ConfigOk))
          /\ IF a.reply = "ok" THEN Records(p, a, "start", "rbRename")
             ELSE Ends(p, a, "critical")
    BY <1>4, RbStartEffect DEF RbStartHas
  <2>3. cli[p].todo = {"start", "rename"}
    BY <2>1 DEF Recoverable
  <2>4. CASE a.reply = "ok"
    BY <2>2, <2>3, <2>4 DEF Recoverable, Records
  <2>5. CASE a.reply # "ok"
    <3>1. docker \in World
      BY DEF Inv, TypeOK
    <3>2. docker' = docker
      BY <2>2, <2>5, <3>1, StartDoes DEF Request, Received, Replied, Failed, Names
    <3> QED
      BY <2>1, <2>2, <2>3, <2>5, <3>2 DEF Recoverable, LeftToDo, Ends, Bak, Prim
  <2> QED
    BY <2>4, <2>5
<1>5. CASE RbRename(p)
  <2>1. /\ cli[p].pc = "rbRename" /\ Prim = None
        /\ Bak = cli[p].old /\ cli[p].old # None
        /\ cli[p].old \in docker.running /\ cli[p].old \in docker.attached
    BY <1>5, RbRenameEffect DEF RbRenameHas
  <2>2. PICK a \in Gots :
          /\ Request(p, a, DockerRename(docker, Backup, Primary))
          /\ IF a.reply = "ok"
             THEN Turned(p, a, "rbVerify", FALSE, cli[p].todo \ {"rename"}, cli[p].out)
             ELSE Ends(p, a, "critical")
    BY <1>5, RbRenameEffect DEF RbRenameHas
  <2>3. cli[p].todo = {"rename"}
    BY <2>1 DEF Recoverable
  <2>4. CASE a.reply = "ok"
    BY <2>2, <2>4 DEF Recoverable
  <2>5. CASE a.reply # "ok"
    <3>1. docker \in World /\ Primary # Backup
      BY DEF Inv, TypeOK, Primary, Backup
    <3>2. docker' = docker
      BY <2>2, <2>5, <3>1, RenameDoes DEF Request, Received, Replied, Failed, Names
    <3> QED
      BY <2>1, <2>2, <2>3, <2>5, <3>2 DEF Recoverable, LeftToDo, Ends, Bak, Prim, Holders
  <2> QED
    BY <2>4, <2>5
<1> QED
  BY <1>1, <1>2, <1>3, <1>4, <1>5

(* The list stays right while the operator reads it.                         *)
LEMMA RecoverNext ==
  ASSUME Alone, "late" \notin FaultModes, SoloInv, RecoverInv, [Next]_vars
  PROVE  RecoverInv'
<1>1. TypeOK /\ Inv /\ Sane /\ \A p \in Procs : Solo(p) /\ Recoverable(p)
  BY DEF SoloInv, RecoverInv, Inv
<1>2. CASE UNCHANGED vars
  BY <1>2 DEF vars, RecoverInv, Recoverable, LeftToDo, Prim, Bak, Holders
<1>3. ASSUME NEW p \in Procs, Begin(p) \/ Advance(p) \/ Kill(p)
      PROVE  RecoverInv'
  <2>1. CASE Begin(p)
    <3>1. PICK op \in Commands[p] : cli'[p].pc = FirstLabel(op)
      BY <1>1, <2>1 DEF Begin, TypeOK
    <3>2. op \in AllCommands
      BY CommandsAssumption
    <3>3. FirstLabel(op) \notin RollingBack \cup {"idle"}
      BY <3>2 DEF FirstLabel, AllCommands, Recreators, RollingBack
    <3> QED
      BY <3>1, <3>3 DEF Alone, RecoverInv, Recoverable, RollingBack
  <2>2. CASE Kill(p)
    <3>1. cli'[p].pc = "idle" /\ cli'[p].out = "killed"
      BY <1>1, <2>2 DEF Kill, End, TypeOK, Process
    <3> QED
      BY <3>1 DEF Alone, RecoverInv, Recoverable
  <2>3. CASE Recreate(p) \/ UpDown(p) \/ RbVerify(p)
    <3>1. Starts(p)
      BY <1>1, <2>3, ForwardStarts
    <3> QED
      BY <3>1 DEF Starts, RollingBack, Alone, RecoverInv, Recoverable
  <2>4. CASE RbStop(p) \/ RbRemove(p) \/ RbConnect(p) \/ RbStart(p) \/ RbRename(p)
    <3>1. Recoverable(p)'
      BY <1>1, <2>4, RollbackRecovers
    <3>2. \A q \in Procs : q = p
      BY DEF Alone
    <3> QED
      BY <3>1, <3>2 DEF RecoverInv
  <2> QED
    BY <1>3, <2>1, <2>2, <2>3, <2>4 DEF Advance, Rollback
<1>4. CASE Reboot
  <2>1. \A p \in Procs : cli'[p].pc = "idle" /\ cli'[p].out = "killed"
    BY <1>1, <1>4 DEF Reboot, End, TypeOK, Process
  <2> QED
    BY <2>1 DEF RecoverInv, Recoverable
<1>5. CASE EditInputs \/ ForeignJoins \/ ForeignLeaves
  <2>1. /\ docker'.name = docker.name /\ docker'.running = docker.running
        /\ docker'.attached = docker.attached /\ cli' = cli
    BY <1>1, <1>5 DEF EditInputs, ForeignJoins, ForeignLeaves, TypeOK, World
  <2> QED
    BY <2>1 DEF RecoverInv, Recoverable, LeftToDo, Prim, Bak, Holders
<1> QED
  BY <1>2, <1>3, <1>4, <1>5 DEF Next, Surroundings

(* Done in order, what is on the list works, each from where the one before  *)
(* it leaves the daemon.                                                     *)
LEMMA ListWorks ==
  ASSUME Inv, Sane, NEW p \in Procs, LeftToDo(p, cli[p].todo), ~docker.foreign
  PROVE  ManualRecovery(p)
<1> DEFINE T == cli[p].todo
           old == cli[p].old
           do(s, res, w) == IF s \in T THEN res ELSE Answer("ok", w)
           r1 == do("remove",  DockerRemove(docker, Primary), docker)
           r2 == do("connect", DockerConnect(r1.w, Backup), r1.w)
           r3 == do("start",   DockerStart(r2.w, r2.w.name[Backup], ConfigOk), r2.w)
           r4 == do("rename",  DockerRename(r3.w, Backup, Primary), r3.w)
<1>1. /\ docker \in World /\ Bak = old /\ old # None
      /\ Primary # Backup /\ Names = {Primary, Backup} /\ ConfigOk \in BOOLEAN
  BY Arguments DEF Inv, LeftToDo, TypeOK, Primary, Backup, Names
<1>2. /\ r1.reply \in Gone /\ r1.w \in World
      /\ r1.w.name[Primary] = None /\ r1.w.name[Backup] = old
      /\ ~r1.w.foreign
      /\ old \in r1.w.running <=> old \in docker.running
      /\ old \in r1.w.attached <=> old \in docker.attached
      /\ r1.w.running \subseteq {old}
  <2>1. CASE "remove" \in T
    <3>1. r1 = DockerRemove(docker, Primary)
      BY <2>1
    <3>2. DockerRemove(docker, Primary).w \in World
      BY <1>1, RemoveType DEF Results
    <3>3. old # Prim
      BY <1>1 DEF Sane
    <3>4. LET r == DockerRemove(docker, Primary) IN
          /\ r.reply \in Gone /\ r.w.name[Primary] = None
          /\ r.w.name[Backup] = docker.name[Backup]
          /\ r.w.foreign = docker.foreign
          /\ r.w.running = docker.running \ {Prim} /\ r.w.attached = docker.attached \ {Prim}
      BY <1>1, RemoveDoes DEF Prim, Gone
    <3>5. docker.name[Backup] = old /\ docker.running \subseteq {Prim, old}
      BY <1>1 DEF Sane, Bak
    <3> HIDE DEF r1, old
    <3> QED
      BY <3>1, <3>2, <3>3, <3>4, <3>5
  <2>2. CASE "remove" \notin T
    <3>1. r1 = Answer("ok", docker)
      BY <2>2
    <3>2. Prim = None
      BY <2>2 DEF LeftToDo, ManualSteps
    <3> HIDE DEF r1
    <3> QED
      BY <1>1, <3>1, <3>2, NoneAssumption DEF Sane, Prim, Bak, Gone, Answer, World
  <2> QED
    BY <2>1, <2>2
<1> HIDE DEF r1
<1>3. /\ r2.reply = "ok" /\ r2.w \in World
      /\ r2.w.name[Primary] = None /\ r2.w.name[Backup] = old
      /\ ~r2.w.foreign
      /\ old \in r2.w.running <=> old \in docker.running
      /\ old \in r2.w.attached /\ r2.w.running \subseteq {old}
  <2>1. CASE "connect" \in T
    <3>1. r2 = DockerConnect(r1.w, Backup)
      BY <2>1
    <3>2. DockerConnect(r1.w, Backup).w \in World
      BY <1>1, <1>2, ConnectType DEF Results
    <3>3. old \notin docker.running
      BY <2>1 DEF LeftToDo
    <3> HIDE DEF r2
    <3> QED
      BY <1>1, <1>2, <3>1, <3>2, <3>3, ConnectDoes
  <2>2. CASE "connect" \notin T
    <3>1. r2 = Answer("ok", r1.w)
      BY <2>2
    <3>2. old \in docker.attached
      BY <2>2 DEF LeftToDo, ManualSteps, Holders
    <3> HIDE DEF r2
    <3> QED
      BY <1>2, <3>1, <3>2 DEF Answer
  <2> QED
    BY <2>1, <2>2
<1> HIDE DEF r2
<1>4. /\ r3.reply = "ok" /\ r3.w \in World
      /\ r3.w.name[Primary] = None /\ r3.w.name[Backup] = old
      /\ old \in r3.w.running /\ old \in r3.w.attached
  <2>1. CASE "start" \in T
    <3>1. r3 = DockerStart(r2.w, r2.w.name[Backup], ConfigOk)
      BY <2>1
    <3>2. DockerStart(r2.w, old, ConfigOk).w \in World
      <4>1. old \in Ctr \cup {None}
        BY <1>1, Arguments DEF Inv, Bak
      <4> HIDE DEF old
      <4> QED
        BY <1>1, <1>3, <4>1, StartType DEF Results
    <3>3. old \notin docker.running
      BY <2>1 DEF LeftToDo
    <3>4. old \in Existing(r2.w) /\ Holders(r2.w) = {}
      BY <1>1, <1>3, <3>3 DEF Existing, Holders
    <3> HIDE DEF r3
    <3>5. r3.reply = "ok"
      BY <1>3, <3>1, <3>4, StartDoes
    <3> QED
      BY <1>3, <3>1, <3>2, <3>5, StartDoes
  <2>2. CASE "start" \notin T
    <3>1. r3 = Answer("ok", r2.w)
      BY <2>2
    <3>2. old \in docker.running
      BY <2>2 DEF LeftToDo, ManualSteps, Holders
    <3> HIDE DEF r3
    <3> QED
      BY <1>3, <3>1, <3>2 DEF Answer
  <2> QED
    BY <2>1, <2>2
<1> HIDE DEF r3
<1>5. "rename" \in T
  BY DEF LeftToDo, ManualSteps
<1>6. /\ r4.reply = "ok" /\ r4.w.name[Primary] = old
      /\ old \in Holders(r4.w)
  <2>1. r4 = DockerRename(r3.w, Backup, Primary)
    BY <1>5
  <2> HIDE DEF r4
  <2> QED
    BY <1>1, <1>4, <2>1, RenameDoes DEF Holders
<1> USE DEF r1, r2, r3
<1> QED
  BY <1>2, <1>3, <1>4, <1>6 DEF ManualRecovery

(* The commands that CRITICAL prints are what is left to do, and they work:  *)
(* if no request is done and reported as failed, however many are refused or *)
(* time out, and whatever was edited, joined or left since.                  *)
THEOREM CriticalAlwaysExact ==
  ASSUME Alone, "late" \notin FaultModes
  PROVE  Spec => []CriticalExact
<1>1. Init => RecoverInv
  <2> SUFFICES ASSUME Init, NEW p \in Procs PROVE Recoverable(p)
    BY DEF RecoverInv
  <2>1. cli[p].pc = "idle" /\ cli[p].out = "none"
    BY DEF Init
  <2> QED
    BY <2>1 DEF Recoverable
<1>2. SoloInv /\ RecoverInv /\ [Next]_vars => RecoverInv'
  BY RecoverNext
<1>3. SoloInv /\ RecoverInv => CriticalExact
  BY ListWorks DEF SoloInv, RecoverInv, Recoverable, CriticalExact, Ended
<1> QED
  BY <1>1, <1>2, <1>3, SoloAlways, PTL DEF Spec
-----------------------------------------------------------------------------
(* Where neither `up` nor `restart` is run.                                  *)

UpOnly == {"upInspect", "upStart", "routes", "lastRoutes"}

(* Beside a primary a backup is stopped, so the triage that removes it takes *)
(* nothing that serves; and a container is made only where there is no       *)
(* backup, or as the backup's replacement.                                   *)
BakAside == (Prim # None /\ Bak # None) => Bak \notin docker.running

Apart(p) ==
  LET c == cli[p] IN
  /\ c.op \notin {"up", "restart"} /\ c.pc \notin UpOnly
  /\ c.pc = "downStop" => c.op = "down"
  /\ c.pc \in {"preflight", "create", "startNew"} /\ ~c.swap => Bak = None

ApartInv == BakAside /\ \A p \in Procs : Apart(p)

(* Every step of a command that is neither.                                  *)
LEMMA AdvanceApart ==
  ASSUME NoUp, Inv, Inv', Sane, Sane', NEW p \in Procs, Solo(p),
         BakAside, Apart(p), Advance(p)
  PROVE  BakAside' /\ Apart(p)'
<1> USE NoneAssumption
<1>1. CASE InspectPrimary(p)
  BY <1>1, InspectPrimaryEffect
  DEF InspectPrimaryHas, Unmoved, Ends, Turned, BakAside, Apart, UpOnly, Sane
<1>2. CASE InspectBackup(p)
  BY <1>2, InspectBackupEffect
  DEF InspectBackupHas, Unmoved, Onward, Ends, Turned, BakAside, Apart, UpOnly, Sane
<1>3. CASE TriageRemove(p)
  BY <1>3, TriageRemoveEffect
  DEF TriageRemoveHas, Unmoved, Deleted, Onward, Ends, Turned, BakAside, Apart,
      UpOnly, Sane
<1>4. CASE HealConnect(p)
  BY <1>4, HealConnectEffect
  DEF HealConnectHas, Unmoved, Attached, Others, Onward, Ends, Turned, BakAside,
      Apart, UpOnly, Sane
<1>5. CASE HealStart(p)
  BY <1>5, HealStartEffect
  DEF HealStartHas, Unmoved, Started, Others, Onward, Ends, Turned, BakAside, Apart,
      UpOnly, Sane
<1>6. CASE HealRename(p)
  BY <1>6, HealRenameEffect
  DEF HealRenameHas, Unmoved, PutBack, Anew, Ends, Turned, BakAside, Apart, UpOnly,
      Sane
<1>7. CASE Preflight(p)
  BY <1>7, PreflightEffect
  DEF PreflightHas, Unmoved, Onward, Ends, Turned, BakAside, Apart, UpOnly, Sane
<1>8. CASE StopOld(p)
  BY <1>8, StopOldEffect
  DEF StopOldHas, Unmoved, Stopped, Others, Onward, Ends, Turned, BakAside, Apart,
      UpOnly, Sane
<1>9. CASE RenameOld(p)
  BY <1>9, RenameOldEffect
  DEF RenameOldHas, Unmoved, SetAside, Onward, Turned, BakAside, Apart, UpOnly, Sane
<1>10. CASE DisconnectOld(p)
  BY <1>10, DisconnectOldEffect
  DEF DisconnectOldHas, Unmoved, Detached, Others, Onward, Turned, BakAside, Apart,
      UpOnly, Sane
<1>11. CASE UndoRename(p)
  BY <1>11, UndoRenameEffect
  DEF UndoRenameHas, Unmoved, PutBack, Onward, Turned, BakAside, Apart, UpOnly, Sane
<1>12. CASE UndoStart(p)
  <2>1. PICK a \in Gots : UndoStartHas(p, a)
    BY <1>12, UndoStartEffect
  <2>2. BakAside'
    BY <2>1
    DEF UndoStartHas, Unmoved, Started, Others, BakAside, Sane, Solo, OldHalted,
        Halted, Apart
  <2>3. Apart(p)'
    BY <2>1
    DEF UndoStartHas, Unmoved, Started, Others, Ends, Turned, Apart, UpOnly
  <2> QED
    BY <2>2, <2>3
<1>13. CASE Create(p)
  <2>1. PICK a \in Gots, c \in Ctr \ docker.made : CreateHas(p, a, c)
    BY <1>13, CreateEffect
  <2>2. BakAside'
    BY <2>1
    DEF CreateHas, Unmoved, Created, BakAside, Sane, Solo, OldHalted, Halted, Apart
  <2>3. Apart(p)'
    BY <2>1
    DEF CreateHas, Unmoved, Created, Goes, Undoes, Ends, Turned, Apart, UpOnly
  <2> QED
    BY <2>2, <2>3
<1>14. CASE StartNew(p)
  <2>1. PICK a \in Gots : StartNewHas(p, a)
    BY <1>14, StartNewEffect
  <2>2. BakAside'
    BY <2>1
    DEF StartNewHas, Unmoved, Started, Others, BakAside, Sane, Solo, OldHalted,
        Halted, Apart
  <2>3. Apart(p)'
    BY <2>1
    DEF StartNewHas, Unmoved, Started, Others, Anew, Undoes, Ends, Turned, Apart,
        UpOnly
  <2> QED
    BY <2>2, <2>3
<1>15. CASE VerifyNew(p)
  BY <1>15, VerifyNewEffect
  DEF VerifyNewHas, Unmoved, Anew, Undoes, Shows, Ends, Turned, BakAside, Apart,
      UpOnly, Sane
<1>16. CASE Commit(p)
  BY <1>16, CommitEffect
  DEF CommitHas, Unmoved, Deleted, Anew, Ends, Turned, BakAside, Apart, UpOnly, Sane
<1>17. CASE RbStop(p)
  BY <1>17, RbStopEffect
  DEF RbStopHas, Unmoved, Stopped, Others, Onward, Turned, BakAside, Apart, UpOnly,
      Sane
<1>18. CASE RbRemove(p)
  BY <1>18, RbRemoveEffect
  DEF RbRemoveHas, Unmoved, Deleted, Ends, Records, Turned, BakAside, Apart, UpOnly,
      Sane
<1>19. CASE RbConnect(p)
  BY <1>19, RbConnectEffect
  DEF RbConnectHas, Unmoved, Attached, Others, Ends, Records, Turned, BakAside,
      Apart, UpOnly, Sane
<1>20. CASE RbStart(p)
  BY <1>20, RbStartEffect
  DEF RbStartHas, Unmoved, Started, Others, Ends, Records, Turned, BakAside, Apart,
      UpOnly, Sane
<1>21. CASE RbRename(p)
  BY <1>21, RbRenameEffect
  DEF RbRenameHas, Unmoved, PutBack, Ends, Turned, BakAside, Apart, UpOnly, Sane
<1>22. CASE RbVerify(p)
  BY <1>22, RbVerifyEffect
  DEF RbVerifyHas, Unmoved, Ends, Shows, Turned, BakAside, Apart, UpOnly, Sane
<1>23. CASE RebuildStatus(p)
  BY <1>23, RebuildStatusEffect
  DEF RebuildStatusHas, Unmoved, Anew, Turned, BakAside, Apart, UpOnly, Sane
<1>24. CASE UpInspect(p)
  BY <1>24, UpInspectEffect
  DEF UpInspectHas, Unmoved, Turned, BakAside, Apart, UpOnly, Sane
<1>25. CASE UpStart(p)
  BY <1>25, UpStartEffect
  DEF UpStartHas, Unmoved, Started, Others, Anew, Ends, Turned, BakAside, Apart,
      UpOnly, Sane
<1>26. CASE DownStop(p)
  <2>1. PICK a \in Gots : DownStopHas(p, a)
    BY <1>26, DownStopEffect
  <2>2. BakAside'
    BY <2>1
    DEF DownStopHas, Unmoved, Stopped, Others, BakAside, Sane, Solo, OldHalted,
        Halted, Apart
  <2>3. Apart(p)'
    BY <2>1
    DEF DownStopHas, Unmoved, Stopped, Others, Anew, Ends, Turned, Apart, UpOnly
  <2> QED
    BY <2>2, <2>3
<1>27. CASE Wait(p)
  BY <1>27, WaitEffect
  DEF WaitHas, Unmoved, Anew, Ends, Shows, Turned, BakAside, Apart, UpOnly, Sane
<1>28. CASE FixRoutes(p)
  BY <1>28, FixRoutesEffect
  DEF FixRoutesHas, Unmoved, Anew, Ends, Turned, BakAside, Apart, UpOnly, Sane
<1>29. CASE Build(p)
  BY <1>29, BuildDoes DEF Inv, BakAside, Apart, UpOnly, Prim, Bak
<1> QED
  BY <1>1, <1>2, <1>3, <1>4, <1>5, <1>6, <1>7, <1>8, <1>9, <1>10, <1>11, <1>12,
     <1>13, <1>14, <1>15, <1>16, <1>17, <1>18, <1>19, <1>20, <1>21, <1>22, <1>23,
     <1>24, <1>25, <1>26, <1>27, <1>28, <1>29
  DEF Advance, Recreate, Rollback, UpDown

(* A command that begins is neither.                                         *)
LEMMA BeginApart ==
  ASSUME NoUp, Inv, NEW p \in Procs, Begin(p), BakAside
  PROVE  BakAside' /\ Apart(p)'
<1>1. PICK op \in Commands[p] :
        cli'[p].op = op /\ cli'[p].pc = FirstLabel(op) /\ docker' = docker
  BY DEF Begin, Inv, TypeOK
<1>2. op \in AllCommands \ {"up", "restart"}
  BY CommandsAssumption DEF NoUp
<1>3. /\ FirstLabel(op) \in {"inspectPrimary", "build", "downStop"}
      /\ FirstLabel(op) = "downStop" => op = "down"
  BY <1>2 DEF FirstLabel, AllCommands, Recreators
<1> QED
  BY <1>1, <1>2, <1>3 DEF BakAside, Apart, UpOnly, Prim, Bak

(* ApartInv is inductive on top of SoloInv.                                  *)
LEMMA ApartNext ==
  Alone /\ NoUp /\ SoloInv /\ SoloInv' /\ ApartInv /\ [Next]_vars => ApartInv'
<1> SUFFICES ASSUME Alone, NoUp, SoloInv, SoloInv', ApartInv, [Next]_vars
             PROVE  ApartInv'
  OBVIOUS
<1>1. CASE UNCHANGED vars
  BY <1>1 DEF vars, ApartInv, BakAside, Apart, Prim, Bak
<1>2. CASE \E p \in Procs : Begin(p) \/ Advance(p) \/ Kill(p)
  <2>1. PICK p \in Procs : Begin(p) \/ Advance(p) \/ Kill(p)
    BY <1>2
  <2>2. CASE Kill(p)
    <3>1. cli'[p].pc = "idle" /\ cli'[p].op = cli[p].op /\ docker' = docker
      BY <2>2 DEF Kill, End, SoloInv, Inv, TypeOK, Process
    <3> QED
      BY <3>1 DEF Alone, ApartInv, BakAside, Apart, UpOnly, Prim, Bak
  <2>3. CASE Begin(p) \/ Advance(p)
    <3>1. BakAside' /\ Apart(p)'
      BY <2>3, BeginApart, AdvanceApart DEF SoloInv, ApartInv
    <3>2. \A q \in Procs : q = p
      BY DEF Alone
    <3> QED
      BY <3>1, <3>2 DEF ApartInv
  <2> QED
    BY <2>1, <2>2, <2>3
<1>3. CASE Surroundings
  <2>1. docker'.name = docker.name /\ docker'.running = docker.running
    BY <1>3 DEF Surroundings, Reboot, DockerReboot, EditInputs, ForeignJoins,
                ForeignLeaves, SoloInv, Inv, TypeOK, World
  <2>2. \A p \in Procs :
          \/ cli'[p] = cli[p]
          \/ cli'[p].pc = "idle" /\ cli'[p].op = cli[p].op
    <3>1. CASE Reboot
      BY <3>1 DEF Reboot, End, SoloInv, Inv, TypeOK, Process
    <3>2. CASE EditInputs \/ ForeignJoins \/ ForeignLeaves
      BY <3>2 DEF EditInputs, ForeignJoins, ForeignLeaves
    <3> QED
      BY <1>3, <3>1, <3>2 DEF Surroundings
  <2> QED
    BY <2>1, <2>2 DEF ApartInv, BakAside, Apart, UpOnly, Prim, Bak
<1> QED
  BY <1>1, <1>2, <1>3 DEF Next

(* There is no backup at first.                                              *)
LEMMA ApartInit == Init => ApartInv
<1> SUFFICES ASSUME Init PROVE ApartInv
  OBVIOUS
<1>1. Bak = None
  <2>1. CASE docker = Fresh
    BY <2>1 DEF Fresh, Bak, Names, Backup
  <2>2. CASE \E c \in Ctr : docker = [Fresh EXCEPT !.name[Primary] = c, !.running = {c},
                                        !.attached = {c}, !.made = {c}]
    BY <2>2 DEF Fresh, Bak, Names, Primary, Backup
  <2> QED
    BY <2>1, <2>2 DEF Init
<1>2. ASSUME NEW p \in Procs PROVE cli[p].op = "down" /\ cli[p].pc = "idle"
  BY DEF Init
<1> QED
  BY <1>1, <1>2 DEF ApartInv, BakAside, Apart, UpOnly

(* Both always hold.                                                         *)
LEMMA ApartAlways ==
  ASSUME Alone, NoUp
  PROVE  Spec => [](SoloInv /\ ApartInv)
BY SoloInit, SoloNext, ApartInit, ApartNext, PTL DEF Spec

-----------------------------------------------------------------------------
(* Where one request is refused at most.                                     *)

(* Where a command has not begun to replace what serves.                     *)
Serves == {"build", "rebuildStatus", "inspectPrimary", "inspectBackup",
           "triageRemove", "preflight", "stop", "healConnect"}

(* What served at the beginning serves up to the stop; the swap that fails   *)
(* after it has used up the one refusal, so what undoes it works.            *)
Alive(p) ==
  LET c == cli[p] IN
  /\ ~c.dead
  /\ (c.op \in Recreators /\ c.served /\ spent.foreign = 0) =>
       /\ c.pc \in Serves => Holders(docker) # {}
       /\ c.pc \in {"preflight", "create", "startNew"} => c.swap
       /\ c.pc \notin {"healStart", "healRename"}
       /\ c.pc \in {"rename", "disconnect", "undoRename", "undoStart"}
            => c.old \in docker.attached
       /\ c.pc \in {"undoRename", "undoStart"} => spent.faults >= MaxFaults
       /\ c.pc = "undoStart" => Prim = c.old /\ Bak = None
       /\ (c.pc = "idle" /\ c.out \in {"failed", "leftRunning", "restored", "rolledBack"})
            => Holders(docker) # {}

AliveInv ==
  /\ spent.foreign = 0 => ~docker.foreign
  /\ \A p \in Procs : Alive(p)

Refusing == FaultModes \subseteq {"refused"} /\ MaxFaults \in {0, 1}

(* A request answered by an error has used up the one refusal.               *)
Spends(p, a) ==
  /\ ~a.dead
  /\ a.reply = "error" => /\ Unmoved
                          /\ ~(spent.faults >= MaxFaults) /\ spent'.faults >= MaxFaults
  /\ a.reply # "error" => spent'.faults = spent.faults

(* Every request is such.                                                    *)
LEMMA RefusedSpends ==
  ASSUME TypeOK, Refusing, NEW p \in Procs, ~cli[p].dead, NEW a, Costs(p, a)
  PROVE  Spends(p, a)
BY DEF TypeOK, Refusing, Costs, Spends, Unmoved, Prim, Bak

(* What holds the IP has one of the names.                                   *)
LEMMA HoldersNamed ==
  ASSUME Inv, Sane
  PROVE  /\ None \notin docker.running
         /\ Holders(docker) # {} => Prim \in Holders(docker) \/ Bak \in Holders(docker)
<1>1. docker.running \subseteq Ctr
  BY DEF Inv, TypeOK, World
<1> QED
  BY <1>1, NoneAssumption DEF Sane, Holders

(* Every step of a command.                                                  *)
LEMMA AdvanceAlive ==
  ASSUME Refusing, Inv, Sane, NEW p \in Procs, Solo(p), BakAside, Apart(p),
         spent.foreign = 0 => ~docker.foreign, Alive(p), Advance(p)
  PROVE  (spent'.foreign = 0 => ~docker'.foreign) /\ Alive(p)'
<1> USE NoneAssumption
<1>1. CASE InspectPrimary(p)
  <2>1. PICK a \in Gots : InspectPrimaryHas(p, a)
    BY <1>1, InspectPrimaryEffect
  <2>2. Spends(p, a)
    BY <2>1, RefusedSpends DEF Inv, Alive, InspectPrimaryHas
  <2>3. docker'.foreign = docker.foreign /\ spent'.foreign = spent.foreign
    BY <2>1
    DEF InspectPrimaryHas, Unmoved, Costs
  <2> QED
    BY <2>1, <2>2, <2>3
    DEF InspectPrimaryHas, Unmoved, Ends, Turned, Spends, Alive, Serves, Holders
<1>2. CASE InspectBackup(p)
  <2>1. PICK a \in Gots : InspectBackupHas(p, a)
    BY <1>2, InspectBackupEffect
  <2>2. Spends(p, a)
    BY <2>1, RefusedSpends DEF Inv, Alive, InspectBackupHas
  <2>3. docker'.foreign = docker.foreign /\ spent'.foreign = spent.foreign
    BY <2>1
    DEF InspectBackupHas, Unmoved, Costs
  <2>4. Holders(docker) # {} => Prim # None \/ Bak # None
    BY HoldersNamed DEF Holders
  <2> QED
    BY <2>1, <2>2, <2>3, <2>4
    DEF InspectBackupHas, Unmoved, Onward, Ends, Turned, Spends, Alive, Serves,
        Holders, Sane
<1>3. CASE TriageRemove(p)
  <2>1. PICK a \in Gots : TriageRemoveHas(p, a)
    BY <1>3, TriageRemoveEffect
  <2>2. Spends(p, a)
    BY <2>1, RefusedSpends DEF Inv, Alive, TriageRemoveHas
  <2>3. docker'.foreign = docker.foreign /\ spent'.foreign = spent.foreign
    BY <2>1
    DEF TriageRemoveHas, Unmoved, Deleted, Costs
  <2>4. Holders(docker') = Holders(docker)
    BY <2>1, HoldersNamed
    DEF TriageRemoveHas, Unmoved, Deleted, BakAside, Holders
  <2> QED
    BY <2>1, <2>2, <2>3, <2>4
    DEF TriageRemoveHas, Unmoved, Deleted, Onward, Ends, Turned, Spends, Alive,
        Serves, Holders, BakAside, Sane
<1>4. CASE HealConnect(p)
  <2>1. PICK a \in Gots : HealConnectHas(p, a)
    BY <1>4, HealConnectEffect
  <2>2. Spends(p, a)
    BY <2>1, RefusedSpends DEF Inv, Alive, HealConnectHas
  <2>3. docker'.foreign = docker.foreign /\ spent'.foreign = spent.foreign
    BY <2>1
    DEF HealConnectHas, Unmoved, Attached, Others, Costs
  <2>4. Holders(docker) # {} => Unmoved /\ a.reply # "ok"
    BY <2>1, HoldersNamed DEF HealConnectHas, Holders
  <2> QED
    BY <2>1, <2>2, <2>3, <2>4
    DEF HealConnectHas, Unmoved, Attached, Others, Onward, Ends, Turned, Spends,
        Alive, Serves, Holders, Sane
<1>5. CASE HealStart(p)
  <2>1. PICK a \in Gots : HealStartHas(p, a)
    BY <1>5, HealStartEffect
  <2>2. Spends(p, a)
    BY <2>1, RefusedSpends DEF Inv, Alive, HealStartHas
  <2>3. docker'.foreign = docker.foreign /\ spent'.foreign = spent.foreign
    BY <2>1
    DEF HealStartHas, Unmoved, Started, Others, Costs
  <2> QED
    BY <2>1, <2>2, <2>3
    DEF HealStartHas, Unmoved, Started, Others, Onward, Ends, Turned, Spends, Alive,
        Serves, Holders
<1>6. CASE HealRename(p)
  <2>1. PICK a \in Gots : HealRenameHas(p, a)
    BY <1>6, HealRenameEffect
  <2>2. Spends(p, a)
    BY <2>1, RefusedSpends DEF Inv, Alive, HealRenameHas
  <2>3. docker'.foreign = docker.foreign /\ spent'.foreign = spent.foreign
    BY <2>1
    DEF HealRenameHas, Unmoved, PutBack, Costs
  <2> QED
    BY <2>1, <2>2, <2>3
    DEF HealRenameHas, Unmoved, PutBack, Anew, Ends, Turned, Spends, Alive, Serves,
        Holders
<1>7. CASE Preflight(p)
  <2>1. PICK a \in Gots : PreflightHas(p, a)
    BY <1>7, PreflightEffect
  <2>2. Spends(p, a)
    BY <2>1, RefusedSpends DEF Inv, Alive, PreflightHas
  <2>3. docker'.foreign = docker.foreign /\ spent'.foreign = spent.foreign
    BY <2>1
    DEF PreflightHas, Unmoved, Costs
  <2> QED
    BY <2>1, <2>2, <2>3
    DEF PreflightHas, Unmoved, Onward, Ends, Turned, Spends, Alive, Serves, Holders
<1>8. CASE StopOld(p)
  <2>1. PICK a \in Gots : StopOldHas(p, a)
    BY <1>8, StopOldEffect
  <2>2. Spends(p, a)
    BY <2>1, RefusedSpends DEF Inv, Alive, StopOldHas
  <2>3. docker'.foreign = docker.foreign /\ spent'.foreign = spent.foreign
    BY <2>1
    DEF StopOldHas, Unmoved, Stopped, Others, Costs
  <2>4. /\ Holders(docker) # {} => cli[p].old \in docker'.attached
        /\ a.reply = "error" \/ a.reply \in Gone
    BY <2>1, HoldersNamed DEF StopOldHas, Unmoved, Stopped, Holders
  <2> QED
    BY <2>1, <2>2, <2>3, <2>4
    DEF StopOldHas, Unmoved, Stopped, Others, Onward, Ends, Turned, Spends, Alive,
        Serves, Holders, Sane, Gone
<1>9. CASE RenameOld(p)
  <2>1. PICK a \in Gots : RenameOldHas(p, a)
    BY <1>9, RenameOldEffect
  <2>2. Spends(p, a)
    BY <2>1, RefusedSpends DEF Inv, Alive, RenameOldHas
  <2>3. docker'.foreign = docker.foreign /\ spent'.foreign = spent.foreign
    BY <2>1
    DEF RenameOldHas, Unmoved, SetAside, Costs
  <2> QED
    BY <2>1, <2>2, <2>3
    DEF RenameOldHas, Unmoved, SetAside, Onward, Turned, Spends, Alive, Serves,
        Holders
<1>10. CASE DisconnectOld(p)
  <2>1. PICK a \in Gots : DisconnectOldHas(p, a)
    BY <1>10, DisconnectOldEffect
  <2>2. Spends(p, a)
    BY <2>1, RefusedSpends DEF Inv, Alive, DisconnectOldHas
  <2>3. docker'.foreign = docker.foreign /\ spent'.foreign = spent.foreign
    BY <2>1
    DEF DisconnectOldHas, Unmoved, Detached, Others, Costs
  <2> QED
    BY <2>1, <2>2, <2>3
    DEF DisconnectOldHas, Unmoved, Detached, Others, Onward, Turned, Spends, Alive,
        Serves, Holders
<1>11. CASE UndoRename(p)
  <2>1. PICK a \in Gots : UndoRenameHas(p, a)
    BY <1>11, UndoRenameEffect
  <2>2. Spends(p, a)
    BY <2>1, RefusedSpends DEF Inv, Alive, UndoRenameHas
  <2>3. docker'.foreign = docker.foreign /\ spent'.foreign = spent.foreign
    BY <2>1
    DEF UndoRenameHas, Unmoved, PutBack, Costs
  <2> QED
    BY <2>1, <2>2, <2>3
    DEF UndoRenameHas, Unmoved, PutBack, Onward, Turned, Spends, Alive, Serves,
        Holders
<1>12. CASE UndoStart(p)
  <2>1. PICK a \in Gots : UndoStartHas(p, a)
    BY <1>12, UndoStartEffect
  <2>2. Spends(p, a)
    BY <2>1, RefusedSpends DEF Inv, Alive, UndoStartHas
  <2>3. docker'.foreign = docker.foreign /\ spent'.foreign = spent.foreign
    BY <2>1
    DEF UndoStartHas, Unmoved, Started, Others, Costs
  <2>4. Prim = cli[p].old /\ cli[p].old \in docker.attached /\ Started(Prim)
          => Holders(docker') # {}
    BY <2>1 DEF Started, Holders
  <2> QED
    BY <2>1, <2>2, <2>3, <2>4
    DEF UndoStartHas, Unmoved, Started, Others, Ends, Turned, Spends, Alive, Serves,
        Holders, Sane
<1>13. CASE Create(p)
  <2>1. PICK a \in Gots, c \in Ctr \ docker.made : CreateHas(p, a, c)
    BY <1>13, CreateEffect
  <2>2. Spends(p, a)
    BY <2>1, RefusedSpends DEF Inv, Alive, CreateHas
  <2>3. docker'.foreign = docker.foreign /\ spent'.foreign = spent.foreign
    BY <2>1
    DEF CreateHas, Unmoved, Created, Costs
  <2> QED
    BY <2>1, <2>2, <2>3
    DEF CreateHas, Unmoved, Created, Goes, Undoes, Ends, Turned, Spends, Alive,
        Serves, Holders
<1>14. CASE StartNew(p)
  <2>1. PICK a \in Gots : StartNewHas(p, a)
    BY <1>14, StartNewEffect
  <2>2. Spends(p, a)
    BY <2>1, RefusedSpends DEF Inv, Alive, StartNewHas
  <2>3. docker'.foreign = docker.foreign /\ spent'.foreign = spent.foreign
    BY <2>1
    DEF StartNewHas, Unmoved, Started, Others, Costs
  <2> QED
    BY <2>1, <2>2, <2>3
    DEF StartNewHas, Unmoved, Started, Others, Anew, Undoes, Ends, Turned, Spends,
        Alive, Serves, Holders
<1>15. CASE VerifyNew(p)
  <2>1. PICK a \in Gots : VerifyNewHas(p, a)
    BY <1>15, VerifyNewEffect
  <2>2. Spends(p, a)
    BY <2>1, RefusedSpends DEF Inv, Alive, VerifyNewHas
  <2>3. docker'.foreign = docker.foreign /\ spent'.foreign = spent.foreign
    BY <2>1
    DEF VerifyNewHas, Unmoved, Costs
  <2> QED
    BY <2>1, <2>2, <2>3
    DEF VerifyNewHas, Unmoved, Anew, Undoes, Ends, Turned, Spends, Alive, Serves,
        Holders
<1>16. CASE Commit(p)
  <2>1. PICK a \in Gots : CommitHas(p, a)
    BY <1>16, CommitEffect
  <2>2. Spends(p, a)
    BY <2>1, RefusedSpends DEF Inv, Alive, CommitHas
  <2>3. docker'.foreign = docker.foreign /\ spent'.foreign = spent.foreign
    BY <2>1
    DEF CommitHas, Unmoved, Deleted, Costs
  <2> QED
    BY <2>1, <2>2, <2>3
    DEF CommitHas, Unmoved, Deleted, Anew, Ends, Turned, Spends, Alive, Serves,
        Holders
<1>17. CASE RbStop(p)
  <2>1. PICK a \in Gots : RbStopHas(p, a)
    BY <1>17, RbStopEffect
  <2>2. Spends(p, a)
    BY <2>1, RefusedSpends DEF Inv, Alive, RbStopHas
  <2>3. docker'.foreign = docker.foreign /\ spent'.foreign = spent.foreign
    BY <2>1
    DEF RbStopHas, Unmoved, Stopped, Others, Costs
  <2> QED
    BY <2>1, <2>2, <2>3
    DEF RbStopHas, Unmoved, Stopped, Others, Onward, Turned, Spends, Alive, Serves,
        Holders
<1>18. CASE RbRemove(p)
  <2>1. PICK a \in Gots : RbRemoveHas(p, a)
    BY <1>18, RbRemoveEffect
  <2>2. Spends(p, a)
    BY <2>1, RefusedSpends DEF Inv, Alive, RbRemoveHas
  <2>3. docker'.foreign = docker.foreign /\ spent'.foreign = spent.foreign
    BY <2>1
    DEF RbRemoveHas, Unmoved, Deleted, Costs
  <2> QED
    BY <2>1, <2>2, <2>3
    DEF RbRemoveHas, Unmoved, Deleted, Ends, Records, Turned, Spends, Alive, Serves,
        Holders
<1>19. CASE RbConnect(p)
  <2>1. PICK a \in Gots : RbConnectHas(p, a)
    BY <1>19, RbConnectEffect
  <2>2. Spends(p, a)
    BY <2>1, RefusedSpends DEF Inv, Alive, RbConnectHas
  <2>3. docker'.foreign = docker.foreign /\ spent'.foreign = spent.foreign
    BY <2>1
    DEF RbConnectHas, Unmoved, Attached, Others, Costs
  <2> QED
    BY <2>1, <2>2, <2>3
    DEF RbConnectHas, Unmoved, Attached, Others, Ends, Records, Turned, Spends,
        Alive, Serves, Holders
<1>20. CASE RbStart(p)
  <2>1. PICK a \in Gots : RbStartHas(p, a)
    BY <1>20, RbStartEffect
  <2>2. Spends(p, a)
    BY <2>1, RefusedSpends DEF Inv, Alive, RbStartHas
  <2>3. docker'.foreign = docker.foreign /\ spent'.foreign = spent.foreign
    BY <2>1
    DEF RbStartHas, Unmoved, Started, Others, Costs
  <2> QED
    BY <2>1, <2>2, <2>3
    DEF RbStartHas, Unmoved, Started, Others, Ends, Records, Turned, Spends, Alive,
        Serves, Holders
<1>21. CASE RbRename(p)
  <2>1. PICK a \in Gots : RbRenameHas(p, a)
    BY <1>21, RbRenameEffect
  <2>2. Spends(p, a)
    BY <2>1, RefusedSpends DEF Inv, Alive, RbRenameHas
  <2>3. docker'.foreign = docker.foreign /\ spent'.foreign = spent.foreign
    BY <2>1
    DEF RbRenameHas, Unmoved, PutBack, Costs
  <2> QED
    BY <2>1, <2>2, <2>3
    DEF RbRenameHas, Unmoved, PutBack, Ends, Turned, Spends, Alive, Serves, Holders
<1>22. CASE RbVerify(p)
  <2>1. PICK a \in Gots : RbVerifyHas(p, a)
    BY <1>22, RbVerifyEffect
  <2>2. Spends(p, a)
    BY <2>1, RefusedSpends DEF Inv, Alive, RbVerifyHas
  <2>3. docker'.foreign = docker.foreign /\ spent'.foreign = spent.foreign
    BY <2>1
    DEF RbVerifyHas, Unmoved, Costs
  <2> QED
    BY <2>1, <2>2, <2>3
    DEF RbVerifyHas, Unmoved, Ends, Turned, Spends, Alive, Serves, Holders, Passes
<1>23. CASE RebuildStatus(p)
  <2>1. PICK a \in Gots : RebuildStatusHas(p, a)
    BY <1>23, RebuildStatusEffect
  <2>2. Spends(p, a)
    BY <2>1, RefusedSpends DEF Inv, Alive, RebuildStatusHas
  <2>3. docker'.foreign = docker.foreign /\ spent'.foreign = spent.foreign
    BY <2>1
    DEF RebuildStatusHas, Unmoved, Costs
  <2> QED
    BY <2>1, <2>2, <2>3
    DEF RebuildStatusHas, Unmoved, Anew, Turned, Spends, Alive, Serves, Holders
<1>24. CASE UpInspect(p)
  <2>1. PICK a \in Gots : UpInspectHas(p, a)
    BY <1>24, UpInspectEffect
  <2>2. Spends(p, a)
    BY <2>1, RefusedSpends DEF Inv, Alive, UpInspectHas
  <2>3. docker'.foreign = docker.foreign /\ spent'.foreign = spent.foreign
    BY <2>1
    DEF UpInspectHas, Unmoved, Costs
  <2> QED
    BY <2>1, <2>2, <2>3
    DEF UpInspectHas, Unmoved, Turned, Spends, Alive, Serves, Holders, Apart, UpOnly
<1>25. CASE UpStart(p)
  <2>1. PICK a \in Gots : UpStartHas(p, a)
    BY <1>25, UpStartEffect
  <2>2. Spends(p, a)
    BY <2>1, RefusedSpends DEF Inv, Alive, UpStartHas
  <2>3. docker'.foreign = docker.foreign /\ spent'.foreign = spent.foreign
    BY <2>1
    DEF UpStartHas, Unmoved, Started, Others, Costs
  <2> QED
    BY <2>1, <2>2, <2>3
    DEF UpStartHas, Unmoved, Started, Others, Anew, Ends, Turned, Spends, Alive,
        Serves, Holders, Apart, UpOnly
<1>26. CASE DownStop(p)
  <2>1. PICK a \in Gots : DownStopHas(p, a)
    BY <1>26, DownStopEffect
  <2>2. Spends(p, a)
    BY <2>1, RefusedSpends DEF Inv, Alive, DownStopHas
  <2>3. docker'.foreign = docker.foreign /\ spent'.foreign = spent.foreign
    BY <2>1
    DEF DownStopHas, Unmoved, Stopped, Others, Costs
  <2> QED
    BY <2>1, <2>2, <2>3
    DEF DownStopHas, Unmoved, Stopped, Others, Anew, Ends, Turned, Spends, Alive,
        Serves, Holders, Apart, Recreators
<1>27. CASE Wait(p)
  <2>1. PICK a \in Gots : WaitHas(p, a)
    BY <1>27, WaitEffect
  <2>2. Spends(p, a)
    BY <2>1, RefusedSpends DEF Inv, Alive, WaitHas
  <2>3. docker'.foreign = docker.foreign /\ spent'.foreign = spent.foreign
    BY <2>1
    DEF WaitHas, Unmoved, Costs
  <2> QED
    BY <2>1, <2>2, <2>3
    DEF WaitHas, Unmoved, Anew, Ends, Turned, Spends, Alive, Serves, Holders
<1>28. CASE FixRoutes(p)
  <2>1. PICK a \in Gots : FixRoutesHas(p, a)
    BY <1>28, FixRoutesEffect
  <2>2. Spends(p, a)
    BY <2>1, RefusedSpends DEF Inv, Alive, FixRoutesHas
  <2>3. docker'.foreign = docker.foreign /\ spent'.foreign = spent.foreign
    BY <2>1
    DEF FixRoutesHas, Unmoved, Costs
  <2> QED
    BY <2>1, <2>2, <2>3
    DEF FixRoutesHas, Unmoved, Anew, Ends, Turned, Spends, Alive, Serves, Holders,
        Apart, UpOnly
<1>29. CASE Build(p)
  BY <1>29, BuildDoes DEF Inv, Alive, Serves, Holders
<1> QED
  BY <1>1, <1>2, <1>3, <1>4, <1>5, <1>6, <1>7, <1>8, <1>9, <1>10, <1>11, <1>12,
     <1>13, <1>14, <1>15, <1>16, <1>17, <1>18, <1>19, <1>20, <1>21, <1>22, <1>23,
     <1>24, <1>25, <1>26, <1>27, <1>28, <1>29
  DEF Advance, Recreate, Rollback, UpDown

(* A command that begins while a proxy serves begins with one that runs.     *)
LEMMA BeginAlive ==
  ASSUME Inv, NEW p \in Procs, Begin(p), spent.foreign = 0 => ~docker.foreign
  PROVE  (spent'.foreign = 0 => ~docker'.foreign) /\ Alive(p)'
<1>1. PICK op \in Commands[p] :
        /\ cli'[p].op = op /\ cli'[p].pc = FirstLabel(op) /\ ~cli'[p].dead
        /\ cli'[p].served = (\E c \in Ctr : Serving(docker, c))
  BY DEF Begin, Inv, TypeOK
<1>2. docker' = docker /\ spent' = spent
  BY DEF Begin
<1>3. op \in AllCommands
  BY CommandsAssumption
<1>4. /\ FirstLabel(op) \in {"inspectPrimary", "build", "upInspect", "downStop"}
      /\ op \in Recreators => FirstLabel(op) \in {"inspectPrimary", "build"}
  BY <1>3 DEF FirstLabel, AllCommands, Recreators
<1>5. (\E c \in Ctr : Serving(docker, c)) => Holders(docker) # {}
  BY DEF Serving
<1> QED
  BY <1>1, <1>2, <1>4, <1>5 DEF Alive, Serves

(* A reboot ends the command; what joins the network does so once counted.   *)
LEMMA SurroundingsAlive ==
  ASSUME Inv, Surroundings, AliveInv
  PROVE  AliveInv'
<1>1. CASE Reboot
  <2>1. /\ docker'.foreign = docker.foreign /\ spent'.foreign = spent.foreign
        /\ \A p \in Procs : /\ cli'[p].pc = "idle" /\ cli'[p].out = "killed"
                            /\ ~cli'[p].dead
    BY <1>1 DEF Reboot, DockerReboot, Spend, End, Inv, TypeOK, Process, World
  <2> QED
    BY <2>1 DEF AliveInv, Alive, Serves
<1>2. CASE EditInputs
  <2>1. docker' = docker /\ cli' = cli /\ spent'.foreign = spent.foreign
        /\ spent'.faults = spent.faults
    BY <1>2 DEF EditInputs, Spend, Inv, TypeOK
  <2> QED
    BY <2>1 DEF AliveInv, Alive, Prim, Bak
<1>3. CASE ForeignJoins
  <2>1. cli' = cli /\ spent'.foreign # 0
    BY <1>3 DEF ForeignJoins, Spend, Inv, TypeOK
  <2> QED
    BY <2>1 DEF AliveInv, Alive
<1>4. CASE ForeignLeaves
  <2>1. /\ docker'.name = docker.name /\ docker'.running = docker.running
        /\ docker'.attached = docker.attached /\ ~docker'.foreign
        /\ cli' = cli /\ spent' = spent
    BY <1>4 DEF ForeignLeaves, Inv, TypeOK, World
  <2> QED
    BY <2>1 DEF AliveInv, Alive, Prim, Bak, Holders
<1> QED
  BY <1>1, <1>2, <1>3, <1>4 DEF Surroundings

(* AliveInv is inductive on top of the two.                                  *)
LEMMA AliveNext ==
  Alone /\ Refusing /\ SoloInv /\ ApartInv /\ AliveInv /\ [Next]_vars => AliveInv'
<1> SUFFICES ASSUME Alone, Refusing, SoloInv, ApartInv, AliveInv, [Next]_vars
             PROVE  AliveInv'
  OBVIOUS
<1>1. CASE UNCHANGED vars
  BY <1>1 DEF vars, AliveInv, Alive, Prim, Bak, Holders
<1>2. CASE \E p \in Procs : Begin(p) \/ Advance(p) \/ Kill(p)
  <2>1. PICK p \in Procs : Begin(p) \/ Advance(p) \/ Kill(p)
    BY <1>2
  <2>2. (spent'.foreign = 0 => ~docker'.foreign) /\ Alive(p)'
    <3>1. CASE Begin(p)
      BY <3>1, BeginAlive DEF SoloInv, AliveInv
    <3>2. CASE Advance(p)
      BY <3>2, AdvanceAlive DEF SoloInv, ApartInv, AliveInv
    <3>3. CASE Kill(p)
      <4>1. /\ cli'[p].pc = "idle" /\ cli'[p].out = "killed" /\ ~cli'[p].dead
            /\ docker' = docker /\ spent'.foreign = spent.foreign
        BY <3>3 DEF Kill, End, Spend, SoloInv, Inv, TypeOK, Process
      <4> QED
        BY <4>1 DEF AliveInv, Alive, Serves
    <3> QED
      BY <2>1, <3>1, <3>2, <3>3
  <2>3. \A q \in Procs : q = p
    BY DEF Alone
  <2> QED
    BY <2>2, <2>3 DEF AliveInv
<1>3. CASE Surroundings
  BY <1>3, SurroundingsAlive DEF SoloInv
<1> QED
  BY <1>1, <1>2, <1>3 DEF Next

(* No command has run at first.                                              *)
LEMMA AliveInit == Init => AliveInv
<1> SUFFICES ASSUME Init PROVE AliveInv
  OBVIOUS
<1>1. ~docker.foreign
  <2>1. CASE docker = Fresh
    BY <2>1 DEF Fresh
  <2>2. CASE \E c \in Ctr : docker = [Fresh EXCEPT !.name[Primary] = c, !.running = {c},
                                        !.attached = {c}, !.made = {c}]
    BY <2>2 DEF Fresh
  <2> QED
    BY <2>1, <2>2 DEF Init
<1>2. ASSUME NEW p \in Procs
      PROVE  cli[p].pc = "idle" /\ cli[p].out = "none" /\ ~cli[p].dead
  BY DEF Init
<1> QED
  BY <1>1, <1>2 DEF AliveInv, Alive, Serves

(* A recreate that begins with a serving proxy leaves one on the IP, unless  *)
(* it says CRITICAL or that both containers are unhealthy: whichever request *)
(* is refused, wherever the commands before it were killed.  Of a second     *)
(* refusal it can be the start that undoes a swap, whose error is dropped.   *)
THEOREM RecreateNeverLeavesADeadProxy ==
  ASSUME Alone, NoUp, Refusing
  PROVE  Spec => []NeverDead
<1>1. AliveInv => NeverDead
  BY DEF AliveInv, Alive, NeverDead, Ended
<1> QED
  BY <1>1, ApartAlways, AliveInit, AliveNext, PTL DEF Spec

-----------------------------------------------------------------------------
(* While no request failed and nothing was killed.                           *)

Both == {"startNew", "verify", "commit", "rbStop", "rbRemove"}

(* Both names are taken only while a swap holds them, and what last passed   *)
(* its check is the backup until the new container passes its own.           *)
Calm(p) ==
  LET c == cli[p] IN
  /\ ~c.dead
  /\ (Prim # None /\ Bak # None) => c.swap /\ c.pc \in Both
  /\ (c.pc \in Both \ {"commit"} /\ c.swap /\ proven # None) => proven = Bak
  /\ c.pc = "commit" => proven = Prim

CalmInv ==
  (spent.faults = 0 /\ spent.crashes = 0) =>
    /\ proven # None => proven \in {Prim, Bak}
    /\ \A p \in Procs : Calm(p)

Proven == proven # None => proven \in {Prim, Bak}

CalmBefore ==
  /\ spent.faults = 0 /\ spent.crashes = 0 /\ Proven
  /\ \A p \in Procs : Calm(p)

(* A calm request follows calm ones, and its answer is the daemon's own.     *)
LEMMA CalmSpends ==
  ASSUME TypeOK, NEW p \in Procs, NEW a \in Gots, Received(p, a), Costs(p, a),
         CalmInv, spent'.faults = 0, spent'.crashes = 0
  PROVE  CalmBefore /\ a.reply # "error" /\ ~a.dead
<1>1. spent.faults = 0 /\ spent.crashes = 0
  BY DEF TypeOK, Gots, Received
<1>2. ~cli[p].dead
  BY <1>1 DEF CalmInv, Calm
<1> QED
  BY <1>1, <1>2 DEF Costs, CalmInv, CalmBefore, Proven

(* Every step of a command.                                                  *)
LEMMA AdvanceCalm ==
  ASSUME Inv, Sane, NEW p \in Procs, Solo(p), Apart(p), CalmInv, Advance(p),
         spent'.faults = 0, spent'.crashes = 0
  PROVE  Proven' /\ Calm(p)'
<1> USE NoneAssumption
<1>1. CASE InspectPrimary(p)
  <2>1. PICK a \in Gots : InspectPrimaryHas(p, a)
    BY <1>1, InspectPrimaryEffect
  <2>2. CalmBefore /\ a.reply # "error" /\ ~a.dead
    BY <2>1, CalmSpends DEF Inv, InspectPrimaryHas, Request
  <2> QED
    BY <2>1, <2>2
    DEF InspectPrimaryHas, Unmoved, Ends, Turned, CalmBefore, Calm, Both, Proven
<1>2. CASE InspectBackup(p)
  <2>1. PICK a \in Gots : InspectBackupHas(p, a)
    BY <1>2, InspectBackupEffect
  <2>2. CalmBefore /\ a.reply # "error" /\ ~a.dead
    BY <2>1, CalmSpends DEF Inv, InspectBackupHas, Request
  <2> QED
    BY <2>1, <2>2
    DEF InspectBackupHas, Unmoved, Onward, Ends, Turned, CalmBefore, Calm, Both,
        Proven
<1>3. CASE TriageRemove(p)
  <2>1. PICK a \in Gots : TriageRemoveHas(p, a)
    BY <1>3, TriageRemoveEffect
  <2>2. CalmBefore /\ a.reply # "error" /\ ~a.dead
    BY <2>1, CalmSpends DEF Inv, TriageRemoveHas, Request
  <2> QED
    BY <2>1, <2>2
    DEF TriageRemoveHas, Unmoved, Deleted, Onward, Ends, Turned, CalmBefore, Calm,
        Both, Proven
<1>4. CASE HealConnect(p)
  <2>1. PICK a \in Gots : HealConnectHas(p, a)
    BY <1>4, HealConnectEffect
  <2>2. CalmBefore /\ a.reply # "error" /\ ~a.dead
    BY <2>1, CalmSpends DEF Inv, HealConnectHas, Request
  <2> QED
    BY <2>1, <2>2
    DEF HealConnectHas, Unmoved, Attached, Others, Onward, Ends, Turned, CalmBefore,
        Calm, Both, Proven
<1>5. CASE HealStart(p)
  <2>1. PICK a \in Gots : HealStartHas(p, a)
    BY <1>5, HealStartEffect
  <2>2. CalmBefore /\ a.reply # "error" /\ ~a.dead
    BY <2>1, CalmSpends DEF Inv, HealStartHas, Request
  <2> QED
    BY <2>1, <2>2
    DEF HealStartHas, Unmoved, Started, Others, Onward, Ends, Turned, CalmBefore,
        Calm, Both, Proven
<1>6. CASE HealRename(p)
  <2>1. PICK a \in Gots : HealRenameHas(p, a)
    BY <1>6, HealRenameEffect
  <2>2. CalmBefore /\ a.reply # "error" /\ ~a.dead
    BY <2>1, CalmSpends DEF Inv, HealRenameHas, Request
  <2> QED
    BY <2>1, <2>2
    DEF HealRenameHas, Unmoved, PutBack, Anew, Ends, Turned, CalmBefore, Calm, Both,
        Proven
<1>7. CASE Preflight(p)
  <2>1. PICK a \in Gots : PreflightHas(p, a)
    BY <1>7, PreflightEffect
  <2>2. CalmBefore /\ a.reply # "error" /\ ~a.dead
    BY <2>1, CalmSpends DEF Inv, PreflightHas
  <2> QED
    BY <2>1, <2>2
    DEF PreflightHas, Unmoved, Onward, Ends, Turned, CalmBefore, Calm, Both, Proven
<1>8. CASE StopOld(p)
  <2>1. PICK a \in Gots : StopOldHas(p, a)
    BY <1>8, StopOldEffect
  <2>2. CalmBefore /\ a.reply # "error" /\ ~a.dead
    BY <2>1, CalmSpends DEF Inv, StopOldHas, Request
  <2> QED
    BY <2>1, <2>2
    DEF StopOldHas, Unmoved, Stopped, Others, Onward, Ends, Turned, CalmBefore,
        Calm, Both, Proven
<1>9. CASE RenameOld(p)
  <2>1. PICK a \in Gots : RenameOldHas(p, a)
    BY <1>9, RenameOldEffect
  <2>2. CalmBefore /\ a.reply # "error" /\ ~a.dead
    BY <2>1, CalmSpends DEF Inv, RenameOldHas, Request
  <2> QED
    BY <2>1, <2>2
    DEF RenameOldHas, Unmoved, SetAside, Onward, Turned, CalmBefore, Calm, Both,
        Proven
<1>10. CASE DisconnectOld(p)
  <2>1. PICK a \in Gots : DisconnectOldHas(p, a)
    BY <1>10, DisconnectOldEffect
  <2>2. CalmBefore /\ a.reply # "error" /\ ~a.dead
    BY <2>1, CalmSpends DEF Inv, DisconnectOldHas, Request
  <2> QED
    BY <2>1, <2>2
    DEF DisconnectOldHas, Unmoved, Detached, Others, Onward, Turned, CalmBefore,
        Calm, Both, Proven
<1>11. CASE UndoRename(p)
  <2>1. PICK a \in Gots : UndoRenameHas(p, a)
    BY <1>11, UndoRenameEffect
  <2>2. CalmBefore /\ a.reply # "error" /\ ~a.dead
    BY <2>1, CalmSpends DEF Inv, UndoRenameHas, Request
  <2> QED
    BY <2>1, <2>2
    DEF UndoRenameHas, Unmoved, PutBack, Onward, Turned, CalmBefore, Calm, Both,
        Proven
<1>12. CASE UndoStart(p)
  <2>1. PICK a \in Gots : UndoStartHas(p, a)
    BY <1>12, UndoStartEffect
  <2>2. CalmBefore /\ a.reply # "error" /\ ~a.dead
    BY <2>1, CalmSpends DEF Inv, UndoStartHas, Request
  <2> QED
    BY <2>1, <2>2
    DEF UndoStartHas, Unmoved, Started, Others, Ends, Turned, CalmBefore, Calm,
        Both, Proven
<1>13. CASE Create(p)
  <2>1. PICK a \in Gots, c \in Ctr \ docker.made : CreateHas(p, a, c)
    BY <1>13, CreateEffect
  <2>2. CalmBefore /\ a.reply # "error" /\ ~a.dead
    BY <2>1, CalmSpends DEF Inv, CreateHas
  <2> QED
    BY <2>1, <2>2
    DEF CreateHas, Unmoved, Created, Goes, Undoes, Ends, Turned, CalmBefore, Calm,
        Both, Proven, Apart
<1>14. CASE StartNew(p)
  <2>1. PICK a \in Gots : StartNewHas(p, a)
    BY <1>14, StartNewEffect
  <2>2. CalmBefore /\ a.reply # "error" /\ ~a.dead
    BY <2>1, CalmSpends DEF Inv, StartNewHas, Request
  <2> QED
    BY <2>1, <2>2
    DEF StartNewHas, Unmoved, Started, Others, Anew, Undoes, Ends, Turned,
        CalmBefore, Calm, Both, Proven, Apart
<1>15. CASE VerifyNew(p)
  <2>1. PICK a \in Gots : VerifyNewHas(p, a)
    BY <1>15, VerifyNewEffect
  <2>2. CalmBefore /\ a.reply # "error" /\ ~a.dead
    BY <2>1, CalmSpends DEF Inv, VerifyNewHas, Request
  <2> QED
    BY <2>1, <2>2
    DEF VerifyNewHas, Unmoved, Anew, Undoes, Shows, Ends, Turned, CalmBefore, Calm,
        Both, Proven, Prim
<1>16. CASE Commit(p)
  <2>1. PICK a \in Gots : CommitHas(p, a)
    BY <1>16, CommitEffect
  <2>2. CalmBefore /\ a.reply # "error" /\ ~a.dead
    BY <2>1, CalmSpends DEF Inv, CommitHas, Request
  <2> QED
    BY <2>1, <2>2
    DEF CommitHas, Unmoved, Deleted, Anew, Ends, Turned, CalmBefore, Calm, Both,
        Proven, Sane
<1>17. CASE RbStop(p)
  <2>1. PICK a \in Gots : RbStopHas(p, a)
    BY <1>17, RbStopEffect
  <2>2. CalmBefore /\ a.reply # "error" /\ ~a.dead
    BY <2>1, CalmSpends DEF Inv, RbStopHas, Request
  <2> QED
    BY <2>1, <2>2
    DEF RbStopHas, Unmoved, Stopped, Others, Onward, Turned, CalmBefore, Calm, Both,
        Proven
<1>18. CASE RbRemove(p)
  <2>1. PICK a \in Gots : RbRemoveHas(p, a)
    BY <1>18, RbRemoveEffect
  <2>2. CalmBefore /\ a.reply # "error" /\ ~a.dead
    BY <2>1, CalmSpends DEF Inv, RbRemoveHas, Request
  <2> QED
    BY <2>1, <2>2
    DEF RbRemoveHas, Unmoved, Deleted, Ends, Records, Turned, CalmBefore, Calm,
        Both, Proven
<1>19. CASE RbConnect(p)
  <2>1. PICK a \in Gots : RbConnectHas(p, a)
    BY <1>19, RbConnectEffect
  <2>2. CalmBefore /\ a.reply # "error" /\ ~a.dead
    BY <2>1, CalmSpends DEF Inv, RbConnectHas, Request
  <2> QED
    BY <2>1, <2>2
    DEF RbConnectHas, Unmoved, Attached, Others, Ends, Records, Turned, CalmBefore,
        Calm, Both, Proven
<1>20. CASE RbStart(p)
  <2>1. PICK a \in Gots : RbStartHas(p, a)
    BY <1>20, RbStartEffect
  <2>2. CalmBefore /\ a.reply # "error" /\ ~a.dead
    BY <2>1, CalmSpends DEF Inv, RbStartHas, Request
  <2> QED
    BY <2>1, <2>2
    DEF RbStartHas, Unmoved, Started, Others, Ends, Records, Turned, CalmBefore,
        Calm, Both, Proven
<1>21. CASE RbRename(p)
  <2>1. PICK a \in Gots : RbRenameHas(p, a)
    BY <1>21, RbRenameEffect
  <2>2. CalmBefore /\ a.reply # "error" /\ ~a.dead
    BY <2>1, CalmSpends DEF Inv, RbRenameHas, Request
  <2> QED
    BY <2>1, <2>2
    DEF RbRenameHas, Unmoved, PutBack, Ends, Turned, CalmBefore, Calm, Both, Proven
<1>22. CASE RbVerify(p)
  <2>1. PICK a \in Gots : RbVerifyHas(p, a)
    BY <1>22, RbVerifyEffect
  <2>2. CalmBefore /\ a.reply # "error" /\ ~a.dead
    BY <2>1, CalmSpends DEF Inv, RbVerifyHas, Request
  <2> QED
    BY <2>1, <2>2
    DEF RbVerifyHas, Unmoved, Ends, Shows, Turned, CalmBefore, Calm, Both, Proven,
        Prim
<1>23. CASE RebuildStatus(p)
  <2>1. PICK a \in Gots : RebuildStatusHas(p, a)
    BY <1>23, RebuildStatusEffect
  <2>2. CalmBefore /\ a.reply # "error" /\ ~a.dead
    BY <2>1, CalmSpends DEF Inv, RebuildStatusHas, Request
  <2> QED
    BY <2>1, <2>2
    DEF RebuildStatusHas, Unmoved, Anew, Turned, CalmBefore, Calm, Both, Proven
<1>24. CASE UpInspect(p)
  <2>1. PICK a \in Gots : UpInspectHas(p, a)
    BY <1>24, UpInspectEffect
  <2>2. CalmBefore /\ a.reply # "error" /\ ~a.dead
    BY <2>1, CalmSpends DEF Inv, UpInspectHas, Request
  <2> QED
    BY <2>1, <2>2
    DEF UpInspectHas, Unmoved, Turned, CalmBefore, Calm, Both, Proven
<1>25. CASE UpStart(p)
  <2>1. PICK a \in Gots : UpStartHas(p, a)
    BY <1>25, UpStartEffect
  <2>2. CalmBefore /\ a.reply # "error" /\ ~a.dead
    BY <2>1, CalmSpends DEF Inv, UpStartHas, Request
  <2> QED
    BY <2>1, <2>2
    DEF UpStartHas, Unmoved, Started, Others, Anew, Ends, Turned, CalmBefore, Calm,
        Both, Proven
<1>26. CASE DownStop(p)
  <2>1. PICK a \in Gots : DownStopHas(p, a)
    BY <1>26, DownStopEffect
  <2>2. CalmBefore /\ a.reply # "error" /\ ~a.dead
    BY <2>1, CalmSpends DEF Inv, DownStopHas, Request
  <2> QED
    BY <2>1, <2>2
    DEF DownStopHas, Unmoved, Stopped, Others, Anew, Ends, Turned, CalmBefore, Calm,
        Both, Proven
<1>27. CASE Wait(p)
  <2>1. PICK a \in Gots : WaitHas(p, a)
    BY <1>27, WaitEffect
  <2>2. CalmBefore /\ a.reply # "error" /\ ~a.dead
    BY <2>1, CalmSpends DEF Inv, WaitHas, Request
  <2> QED
    BY <2>1, <2>2
    DEF WaitHas, Unmoved, Anew, Ends, Shows, Turned, CalmBefore, Calm, Both, Proven,
        Prim
<1>28. CASE FixRoutes(p)
  <2>1. PICK a \in Gots : FixRoutesHas(p, a)
    BY <1>28, FixRoutesEffect
  <2>2. CalmBefore /\ a.reply # "error" /\ ~a.dead
    BY <2>1, CalmSpends DEF Inv, FixRoutesHas, Request
  <2> QED
    BY <2>1, <2>2
    DEF FixRoutesHas, Unmoved, Anew, Ends, Turned, CalmBefore, Calm, Both, Proven
<1>29. CASE Build(p)
  BY <1>29, BuildDoes DEF Inv, CalmInv, Calm, Both, Proven, Prim, Bak
<1> QED
  BY <1>1, <1>2, <1>3, <1>4, <1>5, <1>6, <1>7, <1>8, <1>9, <1>10, <1>11, <1>12,
     <1>13, <1>14, <1>15, <1>16, <1>17, <1>18, <1>19, <1>20, <1>21, <1>22, <1>23,
     <1>24, <1>25, <1>26, <1>27, <1>28, <1>29
  DEF Advance, Recreate, Rollback, UpDown

(* A command that begins finds no two names taken.                           *)
LEMMA BeginCalm ==
  ASSUME Inv, NEW p \in Procs, CalmInv, Begin(p), spent'.faults = 0, spent'.crashes = 0
  PROVE  Proven' /\ Calm(p)'
<1>1. PICK op \in Commands[p] :
        cli'[p].op = op /\ cli'[p].pc = FirstLabel(op) /\ ~cli'[p].dead
  BY DEF Begin, Inv, TypeOK
<1>2. docker' = docker /\ spent' = spent /\ proven' = proven /\ cli[p].pc = "idle"
  BY DEF Begin
<1>3. op \in AllCommands
  BY CommandsAssumption
<1>4. FirstLabel(op) \in {"inspectPrimary", "build", "upInspect", "downStop"}
  BY <1>3 DEF FirstLabel, AllCommands, Recreators
<1> QED
  BY <1>1, <1>2, <1>4 DEF CalmInv, Calm, Both, Proven, Prim, Bak

(* A reboot is not calm, and the rest touches no container.                  *)
LEMMA SurroundingsCalm ==
  ASSUME Inv, Surroundings, CalmInv
  PROVE  CalmInv'
<1>1. CASE Reboot
  <2>1. spent'.crashes # 0
    BY <1>1 DEF Reboot, Spend, Inv, TypeOK
  <2> QED
    BY <2>1 DEF CalmInv
<1>2. CASE EditInputs \/ ForeignJoins \/ ForeignLeaves
  <2>1. /\ docker'.name = docker.name /\ cli' = cli /\ proven' = proven
        /\ spent'.faults = spent.faults /\ spent'.crashes = spent.crashes
    BY <1>2 DEF EditInputs, ForeignJoins, ForeignLeaves, Spend, Inv, TypeOK, World
  <2> QED
    BY <2>1 DEF CalmInv, Calm, Prim, Bak
<1> QED
  BY <1>1, <1>2 DEF Surroundings

(* CalmInv is inductive on top of the two.                                   *)
LEMMA CalmNext ==
  Alone /\ SoloInv /\ ApartInv /\ CalmInv /\ [Next]_vars => CalmInv'
<1> SUFFICES ASSUME Alone, SoloInv, ApartInv, CalmInv, [Next]_vars
             PROVE  CalmInv'
  OBVIOUS
<1>1. CASE UNCHANGED vars
  BY <1>1 DEF vars, CalmInv, Calm, Prim, Bak
<1>2. CASE \E p \in Procs : Begin(p) \/ Advance(p) \/ Kill(p)
  <2>1. PICK p \in Procs : Begin(p) \/ Advance(p) \/ Kill(p)
    BY <1>2
  <2>2. SUFFICES ASSUME spent'.faults = 0, spent'.crashes = 0
                 PROVE  Proven' /\ Calm(p)'
    <3>1. \A q \in Procs : q = p
      BY DEF Alone
    <3> QED
      BY <2>2, <3>1 DEF CalmInv, Proven
  <2>3. CASE Begin(p)
    BY <2>2, <2>3, BeginCalm DEF SoloInv
  <2>4. CASE Advance(p)
    BY <2>2, <2>4, AdvanceCalm DEF SoloInv, ApartInv
  <2>5. CASE Kill(p)
    BY <2>2, <2>5 DEF Kill, Spend, SoloInv, Inv, TypeOK
  <2> QED
    BY <2>1, <2>3, <2>4, <2>5
<1>3. CASE Surroundings
  BY <1>3, SurroundingsCalm DEF SoloInv
<1> QED
  BY <1>1, <1>2, <1>3 DEF Next

(* What runs at first has the primary's name.                                *)
LEMMA CalmInit == Init => CalmInv
<1> SUFFICES ASSUME Init PROVE CalmInv
  OBVIOUS
<1>1. Bak = None /\ (proven # None => proven = Prim)
  <2>1. CASE docker = Fresh /\ proven = None
    BY <2>1 DEF Fresh, Bak, Names, Backup
  <2>2. ASSUME NEW c \in Ctr, proven = c,
               docker = [Fresh EXCEPT !.name[Primary] = c, !.running = {c},
                                      !.attached = {c}, !.made = {c}]
        PROVE  Bak = None /\ proven = Prim
    BY <2>2 DEF Fresh, Prim, Bak, Names, Primary, Backup
  <2> QED
    BY <2>1, <2>2 DEF Init
<1>2. ASSUME NEW p \in Procs PROVE cli[p].pc = "idle" /\ ~cli[p].dead
  BY DEF Init
<1> QED
  BY <1>1, <1>2 DEF CalmInv, Calm, Both

(* While no request fails and nothing is killed, a container that last       *)
(* passed a health check is there, over any sequence of these commands, with *)
(* images and configurations that do not serve, and the IP taken by others.  *)
THEOREM KnownGoodAlwaysKept ==
  ASSUME Alone, NoUp
  PROVE  Spec => []CalmKnownGoodKept
<1>1. CalmInv => CalmKnownGoodKept
  BY DEF CalmInv, CalmKnownGoodKept, KnownGoodKept, Existing, Names, Prim, Bak
<1> QED
  BY <1>1, ApartAlways, CalmInit, CalmNext, PTL DEF Spec

=============================================================================
