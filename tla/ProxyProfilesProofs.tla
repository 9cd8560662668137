------------------------- MODULE ProxyProfilesProofs -------------------------
(***************************************************************************)
(* Proofs about ProxyProfiles, for every set of names, nodes and processes,  *)
(* every set of commands, every first layout and every bound.                *)
(***************************************************************************)
EXTENDS ProxyProfiles, TLAPS

(***************************************************************************)
(* The labels at which a process carries the content it is to write; an       *)
(* upgrade writes to a profile.                                              *)
(***************************************************************************)
Carrying == {"addReady", "addBlind", "addStage", "addTest", "addCommit",
             "regWrite", "upWrite", "dbgWrite"}

CarriesContent(p) ==
  /\ cli[p].pc \in Carrying => cli[p].data \in Content
  /\ cli[p].pc = "upWrite" => cli[p].path \in Names

WellFormed == TypeOK /\ \A p \in Procs : CarriesContent(p)

(* What TypeOK says of the directory, of the processes, and of the rest.      *)
Directory ==
  /\ config \in Files \cup {None}
  /\ files \in [Files -> Content \cup {None, Broken}]
  /\ (config = Regular) <=> (files[Regular] # None)

Processes == cli \in [Procs -> Process] /\ \A p \in Procs : CarriesContent(p)

Others ==
  /\ stages \subseteq [name : Names, by : Procs]
  /\ container \in [made : BOOLEAN, running : BOOLEAN, wholeDir : BOOLEAN,
                    loaded : Content \cup {None, Broken}]
  /\ owed \subseteq Nodes
  /\ ungated \subseteq [node : Nodes, live : BOOLEAN]
  /\ stale \in BOOLEAN
  /\ overlap \in BOOLEAN
  /\ spent \in [commands : 0..MaxCommands, faults : 0..MaxFaults,
                edits : 0..MaxEdits]

(* Well-formed: the directory, the processes and the rest are.               *)
LEMMA Parts == WellFormed <=> Directory /\ Processes /\ Others
BY DEF WellFormed, TypeOK, Directory, Processes, Others

(* The same of the next state.                                               *)
LEMMA PartsAfter == WellFormed' <=> Directory' /\ Processes' /\ Others'
BY DEF WellFormed, TypeOK, Directory, Processes, Others

-----------------------------------------------------------------------------
(* Well-formed states.                                                       *)

(* An idle process is a process.                                             *)
LEMMA IdleType == Idle \in Process /\ Idle.pc = "idle"
<1>1. Idle.node \in Nodes
  BY NodesAssumption DEF Idle
<1>2. Idle.path \in Files
  BY DEF Idle, Files
<1> QED
  BY <1>1, <1>2, NamesAssumption DEF Idle, Process, AllOps, ProfileOps, Labels

(* A process becomes c, and the others stay.                                 *)
LEMMA Becomes ==
  ASSUME Processes, NEW p \in Procs, NEW c \in Process,
         cli' = [cli EXCEPT ![p] = c],
         c.pc \in Carrying => c.data \in Content,
         c.pc = "upWrite" => c.path \in Names
  PROVE  Processes'
<1>1. cli' \in [Procs -> Process]
  BY DEF Processes
<1>2. ASSUME NEW q \in Procs PROVE CarriesContent(q)'
  <2>1. CASE q = p
    BY <2>1 DEF Processes, CarriesContent
  <2>2. CASE q # p
    BY <2>2 DEF Processes, CarriesContent
  <2> QED
    BY <2>1, <2>2
<1> QED
  BY <1>1, <1>2 DEF Processes

(* A process that ends leaves every process well typed.                      *)
LEMMA Ends ==
  ASSUME Processes, NEW p \in Procs, End(p)
  PROVE  Processes'
BY Becomes, IdleType DEF End, Carrying

(* So does one that goes on to a label and carries what it carried.          *)
LEMMA Goes ==
  ASSUME Processes, NEW p \in Procs, NEW l \in Labels \ {"upWrite"}, Goto(p, l),
         l \in Carrying => cli[p].pc \in Carrying
  PROVE  Processes'
<1> DEFINE c == [cli[p] EXCEPT !.pc = l]
<1>1. cli[p] \in Process /\ CarriesContent(p)
  BY DEF Processes
<1>2. c \in Process /\ c.pc = l /\ c.data = cli[p].data
  BY <1>1 DEF Process
<1>3. cli' = [cli EXCEPT ![p] = c]
  BY DEF Goto, Processes
<1>4. c.pc \in Carrying => c.data \in Content
  BY <1>1, <1>2 DEF CarriesContent
<1> HIDE DEF c
<1> QED
  BY <1>2, <1>3, <1>4, Becomes

(* So does a step that leaves the processes alone.                           *)
LEMMA Stays == Processes /\ cli' = cli => Processes'
BY DEF Processes, CarriesContent

(* A read changes neither the directory nor the rest.                        *)
LEMMA ReadKeeps == Directory /\ Others /\ Read => Directory' /\ Others'
BY DEF Directory, Others, Read, disk, ghosts, Files

(* A write of a configuration to a file keeps the directory well typed.      *)
LEMMA WriteKeeps ==
  ASSUME Directory, NEW f \in Files, NEW c \in Content, WriteFile(f, c)
  PROVE  Directory'
<1>1. Regular \in Files /\ c # None /\ None # Regular
  BY NodesAssumption, NamesAssumption DEF Files
<1> QED
  BY <1>1 DEF Directory, WriteFile

(* So does a symlink to a profile.                                           *)
LEMMA LinkKeeps ==
  ASSUME Directory, NEW n \in Names, AtomicSymlink(n)
  PROVE  Directory'
<1>1. Regular \in Files /\ n # Regular /\ n \in Files
  BY NamesAssumption DEF Files
<1> QED
  BY <1>1 DEF Directory, AtomicSymlink

(* A fault that is left to spend can be spent.                               *)
LEMMA SpendsFault ==
  ASSUME Others, spent.faults < MaxFaults,
         spent' = [spent EXCEPT !.faults = @ + 1]
  PROVE  spent' \in [commands : 0..MaxCommands, faults : 0..MaxFaults,
                     edits : 0..MaxEdits]
BY BoundsAssumption DEF Others

(* What config.json leads to is a configuration, broken, or nothing.         *)
LEMMA LiveType == Directory => /\ Live \in Content \cup {None, Broken}
                               /\ Live \in Content => config \in Files
BY NodesAssumption DEF Directory, Live

(* A configuration written for a node is one.                                *)
LEMMA FreshType ==
  ASSUME NEW n \in Nodes, NEW t \in BOOLEAN
  PROVE  Fresh(n, t) \in Content
BY DEF Fresh, Content

(* Every first state is well formed.                                         *)
LEMMA InitWellFormed == Init => WellFormed
<1> SUFFICES ASSUME Init PROVE WellFormed
  OBVIOUS
<1>1. Processes
  <2>1. cli = [p \in Procs |-> Idle]
    BY DEF Init
  <2> QED
    BY <2>1, IdleType DEF Processes, CarriesContent, Carrying
<1>2. Directory /\ Others
  <2> DEFINE start(s) == CASE s = "fresh" -> None
                          [] s = "legacy" -> Regular
                          [] s = "migrated" -> Primary
  <2>0. PICK s \in Starts, n \in Nodes \ BadNodes, w \in BOOLEAN :
          /\ config = start(s)
          /\ files = [f \in Files |->
                        IF f = start(s) THEN Fresh(n, s = "migrated") ELSE None]
          /\ container = [made |-> start(s) # None, running |-> start(s) # None,
                          wholeDir |-> w,
                          loaded |-> IF start(s) = None THEN None
                                     ELSE files[start(s)]]
          /\ owed = IF start(s) = None THEN {} ELSE {n}
    BY Zenon DEF Init
  <2> DEFINE at == start(s)
  <2>1. at \in {None, Regular, Primary}
    BY StartsAssumption
  <2> HIDE DEF at, start
  <2>2. Fresh(n, s = "migrated") \in Content /\ n \in Nodes
    BY <2>0, FreshType
  <2>3. at \in Files \cup {None} /\ Regular \in Files
    BY <2>1, NamesAssumption DEF Files
  <2>4. files \in [Files -> Content \cup {None, Broken}]
    BY <2>0, <2>2 DEF at
  <2>5. Directory
    <3>1. config = at /\ \A f \in Files : files[f] # None <=> f = at
      BY <2>0, <2>2, NodesAssumption DEF at
    <3> QED
      BY <3>1, <2>1, <2>3, <2>4, NamesAssumption DEF Directory
  <2>6. container \in [made : BOOLEAN, running : BOOLEAN, wholeDir : BOOLEAN,
                       loaded : Content \cup {None, Broken}]
    BY <2>0, <2>3, <2>4 DEF at
  <2>7. owed \subseteq Nodes
    BY <2>0, <2>2
  <2>8. /\ stages = {} /\ ungated = {} /\ stale = FALSE /\ overlap = FALSE
        /\ spent = [commands |-> 0, faults |-> 0, edits |-> 0]
    BY DEF Init
  <2>9. spent \in [commands : 0..MaxCommands, faults : 0..MaxFaults,
                   edits : 0..MaxEdits]
    BY <2>8, BoundsAssumption
  <2> QED
    BY <2>5, <2>6, <2>7, <2>8, <2>9 DEF Others
<1> QED
  BY <1>1, <1>2, Parts

(* What the steps of a process do, one lemma per command.                    *)

(* The migration keeps every state well formed.                              *)
LEMMA MigrateWellFormed ==
  ASSUME WellFormed, NEW p \in Procs, Migrate(p)
  PROVE  WellFormed'
<1>1. Directory /\ Processes /\ Others
  BY Parts
<1>2. ASSUME Migrated(p) PROVE Processes'
  <2>1. CASE NextLabel(p) = "idle"
    BY <1>1, <1>2, <2>1, Ends DEF Migrated
  <2>2. CASE NextLabel(p) # "idle"
    <3>1. NextLabel(p) \in Labels \ ({"upWrite"} \cup Carrying)
      BY DEF NextLabel, Labels, Carrying
    <3> QED
      BY <1>1, <1>2, <2>2, <3>1, Goes DEF Migrated
  <2> QED
    BY <2>1, <2>2
<1>3. CASE MigLook(p)
  <2>1. Processes'
    BY <1>1, <1>2, <1>3, Goes DEF MigLook, Labels, Carrying
  <2> QED
    BY <1>1, <1>3, <2>1, ReadKeeps, PartsAfter DEF MigLook
<1>4. CASE MigPrimary(p)
  <2>1. Processes'
    BY <1>1, <1>4, Goes, Ends DEF MigPrimary, Labels, Carrying
  <2> QED
    BY <1>1, <1>4, <2>1, ReadKeeps, PartsAfter DEF MigPrimary
<1>5. CASE MigMove(p)
  <2>1. CASE Live \notin Content
    BY <1>1, <1>5, <2>1, Ends, ReadKeeps, PartsAfter DEF MigMove
  <2>2. CASE Live \in Content
    <3>1. Processes'
      BY <1>1, <1>5, <2>2, Goes DEF MigMove, Labels, Carrying
    <3>2. Primary \in Files /\ Regular \in Files /\ Primary # Regular
      BY NamesAssumption DEF Files
    <3>3. Directory'
      BY <1>1, <1>5, <2>2, <3>2, NamesAssumption DEF MigMove, Directory
    <3>4. Others'
      BY <1>1, <1>5, <2>2 DEF MigMove, Others
    <3> QED
      BY <3>1, <3>3, <3>4, PartsAfter
  <2> QED
    BY <2>1, <2>2
<1>6. CASE MigLink(p)
  <2>1. Directory'
    BY <1>1, <1>6, NamesAssumption, LinkKeeps DEF MigLink
  <2>2. Others'
    BY <1>1, <1>6 DEF MigLink, Others
  <2> QED
    BY <1>2, <1>6, <2>1, <2>2, PartsAfter DEF MigLink
<1> QED
  BY <1>3, <1>4, <1>5, <1>6 DEF Migrate

(* What an add or a regenerate writes is content, and goes to a profile.     *)
LEMMA WritesProfile ==
  ASSUME Directory, Processes, NEW p \in Procs, cli[p].pc \in Carrying
  PROVE  /\ cli[p].name \in Names
         /\ cli[p].path \in Files
         /\ cli[p].data \in Content
         /\ WriteFile(cli[p].name, cli[p].data) => Directory'
         /\ WriteFile(cli[p].path, cli[p].data) => Directory'
<1>1. cli[p].name \in Names /\ cli[p].path \in Files /\ cli[p].data \in Content
  BY DEF Processes, Process, CarriesContent
<1> QED
  BY <1>1, WriteKeeps DEF Files

(* So does `profile add`.                                                    *)
LEMMA AddWellFormed ==
  ASSUME WellFormed, NEW p \in Procs, Add(p)
  PROVE  WellFormed'
<1>1. Directory /\ Processes /\ Others
  BY Parts
<1>2. cli[p] \in Process
  BY <1>1 DEF Processes
<1>3. ASSUME AddWrite(p), cli[p].pc \in Carrying
      PROVE  /\ Directory' /\ Processes'
             /\ owed' \subseteq Nodes /\ stale' \in BOOLEAN
  <2>1. Directory' /\ Processes'
    BY <1>1, <1>3, WritesProfile, Ends DEF AddWrite
  <2>2. owed' \subseteq Nodes
    BY <1>1, <1>2, <1>3 DEF AddWrite, Others, Process
  <2> QED
    BY <1>1, <1>3, <2>1, <2>2 DEF AddWrite, Others
<1>4. Stage(p) \in [name : Names, by : Procs]
  BY <1>2 DEF Stage, Process
<1>5. CASE AddLook(p)
  <2>1. CASE files[cli[p].name] \in Content /\ ~cli[p].flag
    BY <1>1, <1>5, <2>1, Ends, ReadKeeps, PartsAfter DEF AddLook
  <2>2. CASE ~(files[cli[p].name] \in Content /\ ~cli[p].flag)
    <3> DEFINE routing == IF config \in Names /\ Live \in Content
                          THEN Live.routing ELSE "default"
               d == [Fresh(cli[p].node, TRUE) EXCEPT !.routing = routing]
               c == [cli[p] EXCEPT !.pc = "addReady", !.data = d]
    <3>1. Fresh(cli[p].node, TRUE) \in Content
      BY <1>2, FreshType DEF Process
    <3>2. routing \in {"default", "custom"}
      BY DEF Content
    <3>3. d \in Content
      BY <3>1, <3>2 DEF Content
    <3>4. cli' = [cli EXCEPT ![p] = c]
      BY <1>1, <1>5, <2>2 DEF AddLook, Processes
    <3> HIDE DEF d
    <3>5. c \in Process /\ c.pc = "addReady" /\ c.data = d
      BY <1>2, <3>3 DEF Process, Labels
    <3> HIDE DEF c
    <3>6. Processes'
      BY <1>1, <3>3, <3>4, <3>5, Becomes
    <3> QED
      BY <1>1, <1>5, <3>6, ReadKeeps, PartsAfter DEF AddLook
  <2> QED
    BY <2>1, <2>2
<1>6. CASE AddReady(p)
  <2>1. \E l \in {"addStage", "addBlind"} : Goto(p, l)
    BY <1>6 DEF AddReady
  <2>2. Processes'
    BY <1>1, <1>6, <2>1, Goes DEF AddReady, At, Labels, Carrying
  <2>3. Directory'
    BY <1>1, <1>6 DEF AddReady, disk, Directory
  <2>4. spent' \in [commands : 0..MaxCommands, faults : 0..MaxFaults,
                    edits : 0..MaxEdits]
    BY <1>1, <1>6, SpendsFault DEF AddReady, Others
  <2>5. Others'
    BY <1>1, <1>6, <2>4 DEF AddReady, disk, ghosts, Others
  <2> QED
    BY <2>2, <2>3, <2>5, PartsAfter
<1>7. CASE AddBlind(p)
  <2>1. cli[p].pc \in Carrying
    BY <1>7 DEF AddBlind, At, Carrying
  <2>2. ungated' \subseteq [node : Nodes, live : BOOLEAN]
    <3> DEFINE live == cli[p].name = config
    <3>1. live \in BOOLEAN /\ cli[p].node \in Nodes
      BY <1>2 DEF Process
    <3>2. ungated' = ungated \cup {[node |-> cli[p].node, live |-> live]}
      BY <1>7 DEF AddBlind
    <3> HIDE DEF live
    <3> QED
      BY <1>1, <3>1, <3>2 DEF Others
  <2>3. Others'
    BY <1>1, <1>3, <1>7, <2>1, <2>2 DEF AddBlind, Others
  <2> QED
    BY <1>3, <1>7, <2>1, <2>3, PartsAfter DEF AddBlind
<1>8. CASE AddStage(p)
  <2>1. Processes'
    BY <1>1, <1>8, Goes DEF AddStage, At, Labels, Carrying
  <2>2. Directory'
    BY <1>1, <1>8 DEF AddStage, Directory
  <2>3. stages' \subseteq [name : Names, by : Procs]
    BY <1>1, <1>4, <1>8 DEF AddStage, Others, Stage
  <2>4. Others'
    BY <1>1, <1>8, <2>3 DEF AddStage, ghosts, Others
  <2> QED
    BY <2>1, <2>2, <2>4, PartsAfter
<1>9. CASE AddTest(p)
  <2>1. Goto(p, "addCommit") \/ End(p)
    BY <1>9 DEF AddTest
  <2>2. Processes'
    BY <1>1, <1>9, <2>1, Goes, Ends DEF AddTest, At, Labels, Carrying
  <2>3. Directory'
    BY <1>1, <1>9 DEF AddTest, Directory
  <2>4. stages' \subseteq stages
    BY <1>9 DEF AddTest
  <2>5. Others'
    BY <1>1, <1>9, <2>4 DEF AddTest, ghosts, Others
  <2> QED
    BY <2>2, <2>3, <2>5, PartsAfter
<1>10. CASE AddCommit(p)
  <2>1. cli[p].pc \in Carrying
    BY <1>10 DEF AddCommit, At, Carrying
  <2>2. /\ Directory' /\ Processes'
        /\ owed' \subseteq Nodes /\ stale' \in BOOLEAN
    <3>1. CASE Stage(p) \in stages
      BY <1>3, <1>10, <2>1, <3>1 DEF AddCommit
    <3>2. CASE Stage(p) \notin stages
      BY <1>1, <1>10, <3>2, Ends DEF AddCommit, Directory, Others
    <3> QED
      BY <3>1, <3>2
  <2>3. Others'
    BY <1>1, <1>10, <2>2 DEF AddCommit, Others
  <2> QED
    BY <2>2, <2>3, PartsAfter
<1> QED
  BY <1>5, <1>6, <1>7, <1>8, <1>9, <1>10 DEF Add

(* So does `profile use`.                                                    *)
LEMMA UseWellFormed ==
  ASSUME WellFormed, NEW p \in Procs, Use(p)
  PROVE  WellFormed'
<1>1. Directory /\ Processes /\ Others
  BY Parts
<1>2. cli[p].name \in Names
  BY <1>1 DEF Processes, Process
<1>3. CASE UseLook(p)
  <2>1. Processes'
    BY <1>1, <1>3, Goes, Ends DEF UseLook, Labels, Carrying
  <2> QED
    BY <1>1, <1>3, <2>1, ReadKeeps, PartsAfter DEF UseLook
<1>4. CASE UseTest(p)
  <2>1. Goto(p, "useSwap") \/ End(p)
    BY <1>4 DEF UseTest
  <2>2. Processes'
    BY <1>1, <2>1, Goes, Ends DEF Labels, Carrying
  <2> QED
    BY <1>1, <1>4, <2>2, ReadKeeps, PartsAfter DEF UseTest
<1>5. CASE UseSwap(p)
  <2>1. Processes'
    BY <1>1, <1>5, Goes, Ends DEF UseSwap, Labels, Carrying
  <2>2. Directory'
    BY <1>1, <1>2, <1>5, LinkKeeps DEF UseSwap
  <2>3. stale' \in BOOLEAN
    BY <1>5 DEF UseSwap
  <2>4. Others'
    BY <1>1, <1>5, <2>3 DEF UseSwap, Others
  <2> QED
    BY <2>1, <2>2, <2>4, PartsAfter
<1> QED
  BY <1>3, <1>4, <1>5 DEF Use

(* So does each half of a restart.                                           *)
LEMMA RestartWellFormed ==
  ASSUME WellFormed, NEW p \in Procs, Stop(p) \/ Start(p)
  PROVE  WellFormed'
<1>1. Directory /\ Processes /\ Others
  BY Parts
<1>2. Directory'
  BY <1>1 DEF Stop, Start, disk, Directory
<1>3. Processes'
  BY <1>1, Goes, Ends DEF Stop, Start, Labels, Carrying
<1>4. Others'
  <2>1. container' \in [made : BOOLEAN, running : BOOLEAN, wholeDir : BOOLEAN,
                        loaded : Content \cup {None, Broken}]
    BY <1>1, LiveType DEF Stop, Start, Others
  <2> QED
    BY <1>1, <2>1 DEF Stop, Start, disk, ghosts, Others
<1> QED
  BY <1>2, <1>3, <1>4, PartsAfter

(* So does `profile rm`.                                                     *)
LEMMA RmWellFormed ==
  ASSUME WellFormed, NEW p \in Procs, Rm(p)
  PROVE  WellFormed'
<1>1. Directory /\ Processes /\ Others
  BY Parts
<1>2. CASE RmCheck(p) \/ RmAgain(p)
  <2>1. Goto(p, "rmAgain") \/ Goto(p, "rmRemove") \/ End(p)
    BY <1>2 DEF RmCheck, RmAgain
  <2>2. Processes'
    BY <1>1, <2>1, Goes, Ends DEF Labels, Carrying
  <2> QED
    BY <1>1, <1>2, <2>2, ReadKeeps, PartsAfter DEF RmCheck, RmAgain
<1>3. CASE RmRemove(p)
  <2>1. Processes'
    BY <1>1, <1>3, Ends DEF RmRemove
  <2>2. cli[p].name \in Names /\ cli[p].name # Regular /\ Regular \in Files
    BY <1>1, NamesAssumption DEF Processes, Process, Files
  <2>3. Directory'
    BY <1>1, <1>3, <2>2 DEF RmRemove, Directory
  <2>4. stale' \in BOOLEAN
    BY <1>3 DEF RmRemove
  <2>5. Others'
    BY <1>1, <1>3, <2>4 DEF RmRemove, Others
  <2> QED
    BY <2>1, <2>3, <2>5, PartsAfter
<1> QED
  BY <1>2, <1>3 DEF Rm

(* So does `profile regenerate`.                                             *)
LEMMA RegenerateWellFormed ==
  ASSUME WellFormed, NEW p \in Procs, Regenerate(p)
  PROVE  WellFormed'
<1>1. Directory /\ Processes /\ Others
  BY Parts
<1>2. cli[p] \in Process
  BY <1>1 DEF Processes
<1>3. CASE RegRead(p)
  <2> DEFINE d == [files[cli[p].name] EXCEPT !.routing = Live.routing]
             c == [cli[p] EXCEPT !.pc = "regWrite", !.data = d]
  <2>1. CASE ~End(p)
    <3>1. /\ cli' = [cli EXCEPT ![p] = c]
          /\ Live \in Content /\ files[cli[p].name] \in Content
      BY <1>1, <1>3, <2>1 DEF RegRead, Processes
    <3>2. d \in Content
      BY <3>1 DEF Content
    <3> HIDE DEF d
    <3>3. c \in Process /\ c.pc = "regWrite" /\ c.data = d
      BY <1>2, <3>2 DEF Process, Labels
    <3> HIDE DEF c
    <3>4. Processes'
      BY <1>1, <3>1, <3>2, <3>3, Becomes
    <3> QED
      BY <1>1, <1>3, <3>4, ReadKeeps, PartsAfter DEF RegRead
  <2> HIDE DEF c, d
  <2>2. CASE End(p)
    BY <1>1, <1>3, <2>2, Ends, ReadKeeps, PartsAfter DEF RegRead
  <2> QED
    BY <2>1, <2>2
<1>4. CASE RegWrite(p)
  <2>1. cli[p].pc \in Carrying
    BY <1>4 DEF RegWrite, At, Carrying
  <2>2. Directory' /\ Processes'
    BY <1>1, <1>4, <2>1, WritesProfile, Ends DEF RegWrite
  <2>3. stale' \in BOOLEAN
    BY <1>4 DEF RegWrite
  <2>4. Others'
    BY <1>1, <1>4, <2>3 DEF RegWrite, Others
  <2> QED
    BY <2>2, <2>4, PartsAfter
<1> QED
  BY <1>3, <1>4 DEF Regenerate

(* So does `upgrade-config`.                                                 *)
LEMMA UpgradeWellFormed ==
  ASSUME WellFormed, NEW p \in Procs, Upgrade(p)
  PROVE  WellFormed'
<1>1. Directory /\ Processes /\ Others
  BY Parts
<1>2. cli[p] \in Process /\ CarriesContent(p)
  BY <1>1 DEF Processes
<1>3. CASE UpList(p)
  <2> DEFINE c == [cli[p] EXCEPT !.pc = "upRead",
                                 !.todo = {n \in Names : files[n] # None}]
  <2>1. cli' = [cli EXCEPT ![p] = c]
    BY <1>1, <1>3 DEF UpList, Processes
  <2>2. c \in Process /\ c.pc = "upRead"
    BY <1>2 DEF Process, Labels
  <2> HIDE DEF c
  <2>3. Processes'
    BY <1>1, <2>1, <2>2, Becomes DEF Carrying
  <2> QED
    BY <1>1, <1>3, <2>3, ReadKeeps, PartsAfter DEF UpList
<1>4. CASE UpRead(p)
  <2>1. Processes'
    <3>1. CASE End(p)
      BY <1>1, <3>1, Ends
    <3>2. CASE ~End(p)
      <4>1. PICK n \in cli[p].todo :
              /\ files[n] \in Content
              /\ cli' = [cli EXCEPT ![p] =
                           IF files[n].tproxy
                           THEN [cli[p] EXCEPT !.todo = @ \ {n}]
                           ELSE [[cli[p] EXCEPT !.todo = @ \ {n}] EXCEPT
                                   !.pc = "upWrite", !.path = n,
                                   !.data = [files[n] EXCEPT !.tproxy = TRUE]]]
        BY <1>4, <3>2 DEF UpRead
      <4>2. n \in Names /\ n \in Files
        BY <1>2 DEF Process, Files
      <4> DEFINE c == [cli[p] EXCEPT !.todo = @ \ {n}]
                 d == [files[n] EXCEPT !.tproxy = TRUE]
                 e == [c EXCEPT !.pc = "upWrite", !.path = n, !.data = d]
      <4>3. c \in Process /\ c.pc = "upRead"
        BY <1>2, <1>4 DEF Process, UpRead, At
      <4>4. d \in Content
        BY <4>1 DEF Content
      <4>5. cli' = [cli EXCEPT ![p] = IF files[n].tproxy THEN c ELSE e]
        BY <4>1
      <4> HIDE DEF c, d
      <4>6. e \in Process /\ e.pc = "upWrite" /\ e.path = n /\ e.data = d
        BY <4>2, <4>3, <4>4 DEF Process, Labels
      <4> HIDE DEF e
      <4>7. CASE files[n].tproxy
        BY <1>1, <4>3, <4>5, <4>7, Becomes DEF Carrying
      <4>8. CASE ~files[n].tproxy
        BY <1>1, <4>2, <4>4, <4>5, <4>6, <4>8, Becomes
      <4> QED
        BY <4>7, <4>8
    <3> QED
      BY <3>1, <3>2
  <2> QED
    BY <1>1, <1>4, <2>1, ReadKeeps, PartsAfter DEF UpRead
<1>5. CASE UpWrite(p)
  <2>1. cli[p].pc \in Carrying
    BY <1>5 DEF UpWrite, At, Carrying
  <2>2. Directory'
    BY <1>1, <1>5, <2>1, WritesProfile DEF UpWrite
  <2> DEFINE c == [cli[p] EXCEPT !.pc = "upRead", !.path = Idle.path,
                                 !.data = None]
  <2>3. cli' = [cli EXCEPT ![p] = c]
    BY <1>1, <1>5 DEF UpWrite, Processes
  <2>4. c \in Process /\ c.pc = "upRead"
    BY <1>2, IdleType DEF Process, Labels
  <2> HIDE DEF c
  <2>5. Processes'
    BY <1>1, <2>3, <2>4, Becomes DEF Carrying
  <2>6. stale' \in BOOLEAN
    BY <1>5 DEF UpWrite
  <2>7. Others'
    BY <1>1, <1>5, <2>6 DEF UpWrite, Others
  <2> QED
    BY <2>2, <2>5, <2>7, PartsAfter
<1> QED
  BY <1>3, <1>4, <1>5 DEF Upgrade

(* So does `debug`.                                                          *)
LEMMA DebugWellFormed ==
  ASSUME WellFormed, NEW p \in Procs, Debug(p)
  PROVE  WellFormed'
<1>1. Directory /\ Processes /\ Others
  BY Parts
<1>2. cli[p] \in Process
  BY <1>1 DEF Processes
<1>3. CASE DbgRead(p)
  <2>1. CASE Live \notin Content
    BY <1>1, <1>3, <2>1, Ends, ReadKeeps, PartsAfter DEF DbgRead
  <2>2. CASE Live \in Content
    <3> DEFINE level == IF cli[p].flag THEN "debug" ELSE "warning"
               d == [Live EXCEPT !.log = level]
               c == [cli[p] EXCEPT !.pc = "dbgWrite", !.path = config, !.data = d]
    <3>1. cli' = [cli EXCEPT ![p] = c]
      BY <1>1, <1>3, <2>2 DEF DbgRead, Processes
    <3>2. d \in Content
      BY <2>2 DEF Content
    <3>3. config \in Files
      BY <1>1, <2>2, LiveType
    <3> HIDE DEF d
    <3>4. c \in Process /\ c.pc = "dbgWrite" /\ c.data = d
      BY <1>2, <3>2, <3>3 DEF Process, Labels
    <3> HIDE DEF c
    <3>5. Processes'
      BY <1>1, <3>1, <3>2, <3>4, Becomes
    <3> QED
      BY <1>1, <1>3, <3>5, ReadKeeps, PartsAfter DEF DbgRead
  <2> QED
    BY <2>1, <2>2
<1>4. CASE DbgWrite(p)
  <2>1. cli[p].pc \in Carrying
    BY <1>4 DEF DbgWrite, At, Carrying
  <2>2. Directory'
    BY <1>1, <1>4, <2>1, WritesProfile DEF DbgWrite
  <2>3. Processes'
    BY <1>1, <1>4, Goes DEF DbgWrite, Labels, Carrying
  <2>4. Others'
    BY <1>1, <1>4 DEF DbgWrite, ghosts, Others
  <2> QED
    BY <2>2, <2>3, <2>4, PartsAfter
<1>5. CASE DbgStatus(p)
  <2>1. Goto(p, "stop") \/ End(p)
    BY <1>5 DEF DbgStatus
  <2>2. Processes'
    BY <1>1, <2>1, Goes, Ends DEF Labels, Carrying
  <2>3. Directory'
    BY <1>1, <1>5 DEF DbgStatus, disk, Directory
  <2>4. spent' \in [commands : 0..MaxCommands, faults : 0..MaxFaults,
                    edits : 0..MaxEdits]
    BY <1>1, <1>5, SpendsFault DEF DbgStatus, Others
  <2>5. Others'
    BY <1>1, <1>5, <2>4 DEF DbgStatus, disk, Others
  <2> QED
    BY <2>2, <2>3, <2>5, PartsAfter
<1> QED
  BY <1>3, <1>4, <1>5 DEF Debug

(* So does `init`.                                                           *)
LEMMA InitCmdWellFormed ==
  ASSUME WellFormed, NEW p \in Procs, InitCmd(p)
  PROVE  WellFormed'
<1>1. Directory /\ Processes /\ Others
  BY Parts
<1>2. cli[p] \in Process
  BY <1>1 DEF Processes
<1>3. CASE InitResolve(p)
  <2>1. CASE config \in Names /\ Live \notin Content
    BY <1>1, <1>3, <2>1, Ends, ReadKeeps, PartsAfter DEF InitResolve
  <2>2. CASE ~(config \in Names /\ Live \notin Content)
    <3> DEFINE f == IF config = None THEN Regular ELSE config
               c == [cli[p] EXCEPT !.pc = "initWrite", !.path = f]
    <3>1. cli' = [cli EXCEPT ![p] = c]
      BY <1>1, <1>3, <2>2 DEF InitResolve, Processes
    <3>2. f \in Files
      BY <1>1 DEF Directory, Files
    <3> HIDE DEF f
    <3>3. c \in Process /\ c.pc = "initWrite"
      BY <1>2, <3>2 DEF Process, Labels
    <3> HIDE DEF c
    <3>4. Processes'
      BY <1>1, <3>1, <3>3, Becomes DEF Carrying
    <3> QED
      BY <1>1, <1>3, <3>4, ReadKeeps, PartsAfter DEF InitResolve
  <2> QED
    BY <2>1, <2>2
<1>4. CASE InitWrite(p)
  <2>1. /\ cli[p].path \in Files /\ cli[p].node \in Nodes
        /\ Fresh(cli[p].node, TRUE) \in Content
    BY <1>2, FreshType DEF Process
  <2>2. Directory' /\ Processes'
    BY <1>1, <1>4, <2>1, WriteKeeps, Ends DEF InitWrite
  <2>3. owed' \subseteq Nodes /\ stale' \in BOOLEAN
    BY <1>1, <1>4, <2>1 DEF InitWrite, Others
  <2>4. ungated' \subseteq [node : Nodes, live : BOOLEAN]
    <3> DEFINE live == cli[p].path = config'
    <3>1. live \in BOOLEAN
      OBVIOUS
    <3>2. ungated' = ungated \cup {[node |-> cli[p].node, live |-> live]}
      BY <1>4 DEF InitWrite
    <3> HIDE DEF live
    <3> QED
      BY <1>1, <2>1, <3>1, <3>2 DEF Others
  <2>5. Others'
    BY <1>1, <1>4, <2>3, <2>4 DEF InitWrite, Others
  <2> QED
    BY <2>2, <2>5, PartsAfter
<1> QED
  BY <1>3, <1>4 DEF InitCmd

(* So does the start of a command.                                           *)
LEMMA BeginWellFormed ==
  ASSUME WellFormed, NEW p \in Procs, Begin(p)
  PROVE  WellFormed'
<1>1. Directory /\ Processes /\ Others
  BY Parts
<1>2. PICK op \in Ops, name \in Names, node \in Nodes, flag \in BOOLEAN :
        /\ Takes(op, name, node, flag)
        /\ cli' = [cli EXCEPT ![p] = [Idle EXCEPT !.op = op, !.name = name,
                                      !.pc = FirstLabel(op), !.node = node,
                                      !.flag = flag]]
  BY Zenon DEF Begin
<1>3. op \in AllOps
  BY OpsAssumption
<1>4. FirstLabel(op) \in Labels \ ({"upWrite"} \cup Carrying)
  BY <1>3 DEF FirstLabel, AllOps, ProfileOps, Labels, Carrying
<1> DEFINE l == FirstLabel(op)
<1> DEFINE c == [Idle EXCEPT !.op = op, !.name = name, !.pc = l, !.node = node,
                             !.flag = flag]
<1>5. cli' = [cli EXCEPT ![p] = c]
  BY <1>2
<1> HIDE DEF l
<1>6. c \in Process /\ c.pc = l
  BY <1>3, <1>4, IdleType DEF Process, l
<1> HIDE DEF c
<1>7. Processes'
  BY <1>1, <1>4, <1>5, <1>6, Becomes DEF l
<1>8. Directory'
  BY <1>1 DEF Begin, disk, Directory
<1>9. spent' \in [commands : 0..MaxCommands, faults : 0..MaxFaults,
                  edits : 0..MaxEdits]
  BY <1>1, BoundsAssumption DEF Begin, Others
<1>10. overlap' \in BOOLEAN
  BY DEF Begin
<1>11. Others'
  BY <1>1, <1>9, <1>10 DEF Begin, disk, ghosts, Others
<1> QED
  BY <1>7, <1>8, <1>11, PartsAfter

(* So does the death of a process.                                           *)
LEMMA DieWellFormed ==
  ASSUME WellFormed, NEW p \in Procs, Die(p)
  PROVE  WellFormed'
<1>1. Directory /\ Processes /\ Others
  BY Parts
<1>2. Directory' /\ Processes'
  BY <1>1, Ends DEF Die, disk, Directory
<1>3. spent' \in [commands : 0..MaxCommands, faults : 0..MaxFaults,
                  edits : 0..MaxEdits]
  BY <1>1, SpendsFault DEF Die
<1>4. stale' \in BOOLEAN
  BY DEF Die
<1>5. Others'
  BY <1>1, <1>3, <1>4 DEF Die, disk, Others
<1> QED
  BY <1>2, <1>5, PartsAfter

(* So does what is around the processes.                                     *)
LEMMA SurroundingsWellFormed ==
  ASSUME WellFormed, Respawn \/ EditRouting \/ Finished
  PROVE  WellFormed'
<1>1. Directory /\ Processes /\ Others
  BY Parts
<1>2. CASE Respawn
  <2>1. Directory' /\ Processes'
    BY <1>1, <1>2, Stays DEF Respawn, disk, Directory
  <2>2. Others'
    BY <1>1, <1>2, LiveType DEF Respawn, disk, ghosts, Others
  <2> QED
    BY <2>1, <2>2, PartsAfter
<1>3. CASE EditRouting
  <2>1. PICK f \in Files :
          /\ files[f] \in Content
          /\ files' = [files EXCEPT ![f].routing = "custom"]
          /\ stale' = (stale \/ f \in Leads)
    BY <1>3 DEF EditRouting
  <2> DEFINE c == [files[f] EXCEPT !.routing = "custom"]
  <2>2. c \in Content
    BY <2>1 DEF Content
  <2>3. files' = [files EXCEPT ![f] = c]
    BY <1>1, <2>1 DEF Directory
  <2> HIDE DEF c
  <2>4. c # None /\ files[f] # None /\ Regular \in Files
    BY <2>1, <2>2, NodesAssumption DEF Files
  <2>5. Directory'
    BY <1>1, <1>3, <2>2, <2>3, <2>4 DEF EditRouting, Directory
  <2>6. Processes'
    BY <1>1, <1>3, Stays DEF EditRouting
  <2>7. spent' \in [commands : 0..MaxCommands, faults : 0..MaxFaults,
                    edits : 0..MaxEdits]
    BY <1>1, <1>3, BoundsAssumption DEF EditRouting, Others
  <2>8. stale' \in BOOLEAN
    BY <2>1
  <2>9. Others'
    BY <1>1, <1>3, <2>7, <2>8 DEF EditRouting, Others
  <2> QED
    BY <2>5, <2>6, <2>9, PartsAfter
<1>4. CASE Finished
  BY <1>1, <1>4, Stays, PartsAfter DEF Finished, vars, Directory, Others
<1> QED
  BY <1>2, <1>3, <1>4

(* So does every step.                                                       *)
LEMMA NextWellFormed == WellFormed /\ [Next]_vars => WellFormed'
<1> SUFFICES ASSUME WellFormed, [Next]_vars PROVE WellFormed'
  OBVIOUS
<1>1. CASE UNCHANGED vars
  BY <1>1, Parts, PartsAfter, Stays DEF vars, Directory, Others
<1>2. ASSUME NEW p \in Procs,
             \/ Begin(p) \/ Migrate(p) \/ Add(p) \/ Use(p) \/ Rm(p)
             \/ Regenerate(p) \/ Upgrade(p) \/ Debug(p) \/ InitCmd(p)
             \/ Stop(p) \/ Start(p) \/ Die(p)
      PROVE  WellFormed'
  BY <1>2, BeginWellFormed, MigrateWellFormed, AddWellFormed, UseWellFormed,
     RmWellFormed, RegenerateWellFormed, UpgradeWellFormed, DebugWellFormed,
     InitCmdWellFormed, RestartWellFormed, DieWellFormed
<1> QED
  BY <1>1, <1>2, SurroundingsWellFormed DEF Next

(***************************************************************************)
(* Every reachable state of the directory, the container and the processes   *)
(* is well typed: config.json is a file of its own exactly if there is one,   *)
(* and what a command writes is a configuration.                             *)
(***************************************************************************)
THEOREM AlwaysWellFormed == Spec => []WellFormed
<1> QED
  BY InitWellFormed, NextWellFormed, PTL DEF Spec

(* Every reachable state satisfies the type invariant of ProxyProfiles.      *)
THEOREM ProfilesTypeCorrect == Spec => []TypeOK
<1>1. WellFormed => TypeOK
  BY DEF WellFormed
<1> QED
  BY <1>1, AlwaysWellFormed, PTL

-----------------------------------------------------------------------------
(* A switch ends on the active profile.                                      *)

(* A process that is still to restart the container.                         *)
Restarting(p) == cli[p].pc \in {"stop", "dbgStatus"}

(* A migration between its rename and its symlink.                           *)
Moving == /\ config = None
          /\ container.loaded = files[Primary]
          /\ \E p \in Procs : At(p, "migLink")

(***************************************************************************)
(* If a healthy container has not loaded what config.json leads to, that is   *)
(* admitted (stale), about to be mended by a restart, or config.json is       *)
(* about to lead there again.                                                *)
(***************************************************************************)
Mended ==
  (container.running /\ Accepted(container.loaded) /\ ~stale)
    => \/ container.loaded = Live
       \/ \E p \in Procs : Restarting(p)
       \/ Moving

(* With every process idle, nothing is left to mend.                         *)
LEMMA MendedImpliesConverged == Mended => Converged
BY DEF Mended, Converged, Restarting, Moving, At

(* What a step of process p is, but for the start of a command.              *)
Steps(p) == \/ Migrate(p) \/ Add(p) \/ Use(p) \/ Rm(p) \/ Regenerate(p)
            \/ Upgrade(p) \/ Debug(p) \/ InitCmd(p) \/ Stop(p) \/ Start(p)
            \/ Die(p)

(* No step of a process changes another one.                                 *)
LEMMA OthersStay ==
  ASSUME Processes, NEW p \in Procs, Steps(p) \/ Begin(p),
         NEW q \in Procs \ {p}
  PROVE  cli'[q] = cli[q]
<1>1. cli \in [Procs -> Process]
  BY DEF Processes
<1>2. ASSUME End(p) \/ \E l : Goto(p, l) PROVE cli'[q] = cli[q]
  BY <1>1, <1>2 DEF End, Goto
<1>3. ASSUME NEW c, cli' = [cli EXCEPT ![p] = c] PROVE cli'[q] = cli[q]
  BY <1>1, <1>3
<1>4. CASE Migrate(p)
  BY <1>2, <1>4 DEF Migrate, MigLook, MigPrimary, MigMove, MigLink, Migrated
<1>5. CASE Add(p)
  <2>1. CASE AddLook(p)
    BY <1>1, <2>1 DEF AddLook, End
  <2>2. CASE AddReady(p) \/ AddBlind(p) \/ AddStage(p) \/ AddTest(p) \/ AddCommit(p)
    BY <1>2, <2>2 DEF AddReady, AddBlind, AddStage, AddTest, AddCommit, AddWrite
  <2> QED
    BY <1>5, <2>1, <2>2 DEF Add
<1>6. CASE Use(p) \/ Rm(p) \/ Stop(p) \/ Start(p) \/ Die(p)
  BY <1>2, <1>6 DEF Use, UseLook, UseTest, UseSwap, Rm, RmCheck, RmAgain,
                    RmRemove, Stop, Start, Die
<1>7. CASE Regenerate(p)
  BY <1>1, <1>7 DEF Regenerate, RegRead, RegWrite, End
<1>8. CASE Upgrade(p)
  BY <1>1, <1>8 DEF Upgrade, UpList, UpRead, UpWrite, End
<1>9. CASE Debug(p)
  BY <1>1, <1>9 DEF Debug, DbgRead, DbgWrite, DbgStatus, Goto, End
<1>10. CASE InitCmd(p)
  BY <1>1, <1>10 DEF InitCmd, InitResolve, InitWrite, End
<1>11. CASE Begin(p)
  BY <1>1, <1>11 DEF Begin
<1> QED
  BY <1>4, <1>5, <1>6, <1>7, <1>8, <1>9, <1>10, <1>11 DEF Steps

(* The processes that a state with an unread configuration may wait for.     *)
Pending(q) == Restarting(q) \/ At(q, "migLink")

(* A step that leaves those alone, and what config.json leads to.            *)
Same == /\ config' = config /\ container' = container /\ stale' = stale
        /\ config = None => files'[Primary] = files[Primary]
        /\ Live' = Live

(* A step that disturbs nothing awaited leaves the container mended.         *)
LEMMA MendedStays ==
  ASSUME Mended, stale' \/ Same,
         \A q \in Procs : Pending(q) => cli'[q] = cli[q]
  PROVE  Mended'
BY DEF Mended, Same, Pending, Restarting, Moving, At

(* The same of a step of a process that nobody waits for.                    *)
LEMMA MendedAside ==
  ASSUME Mended, Processes, NEW p \in Procs, Steps(p) \/ Begin(p),
         ~Pending(p), stale' \/ Same
  PROVE  Mended'
BY MendedStays, OthersStay

(* A read is such a step.                                                    *)
LEMMA SameByReading == Read => Same
BY DEF Read, disk, ghosts, Same, Live

(* A write to a file config.json does not lead to.                           *)
LEMMA SameElsewhere ==
  ASSUME Directory, NEW f \in Names, f \notin Leads, NEW c,
         files' = [files EXCEPT ![f] = c], config' = config,
         container' = container, stale' = stale
  PROVE  Same
<1>1. config # None /\ config # f
  BY DEF Leads, Files
<1> QED
  BY <1>1 DEF Same, Live, Directory

(* A process that is about to restart, or that follows one, is enough.       *)
LEMMA MendedByRestart ==
  ASSUME NEW p \in Procs, Restarting(p)'
  PROVE  Mended'
BY DEF Mended

(* A process that goes to a label is at it.                                  *)
LEMMA GoesTo ==
  ASSUME Processes, NEW p \in Procs, NEW l, Goto(p, l)
  PROVE  cli'[p].pc = l
BY DEF Processes, Process, Goto

(* The migration leaves the container mended.                                *)
LEMMA MendedMigrate ==
  ASSUME WellFormed, Mended, NEW p \in Procs, Migrate(p)
  PROVE  Mended'
<1>1. Directory /\ Processes /\ Others
  BY Parts
<1>2. CASE MigLook(p) \/ MigPrimary(p)
  BY <1>1, <1>2, MendedAside, SameByReading
     DEF MigLook, MigPrimary, Pending, Restarting, At, Steps
<1>3. CASE MigMove(p)
  <2>1. CASE Live \notin Content
    BY <1>1, <1>3, <2>1, MendedAside, SameByReading
       DEF MigMove, Pending, Restarting, At, Steps
  <2>2. CASE Live \in Content /\ config # Regular
    BY <1>3, <2>2 DEF MigMove, Mended
  <2>3. CASE Live \in Content /\ config = Regular
    <3>1. At(p, "migLink")'
      BY <1>1, <1>3, <2>3, GoesTo DEF MigMove, At
    <3>2. /\ config' = None /\ container' = container /\ stale' = stale
          /\ files'[Primary] = Live
      <4>1. Primary \in Files /\ Primary # Regular
        BY NamesAssumption DEF Files
      <4> QED
        BY <1>1, <1>3, <2>3, <4>1 DEF MigMove, Directory, Others
    <3>3. ~Moving /\ ~Restarting(p)
      BY <1>3, <2>3, NamesAssumption DEF Moving, MigMove, At, Restarting
    <3>4. \A q \in Procs : Restarting(q) => Restarting(q)'
      BY <1>1, <1>3, <3>3, OthersStay DEF Restarting, Steps, Migrate
    <3> QED
      BY <3>1, <3>2, <3>3, <3>4 DEF Mended, Moving
  <2> QED
    BY <2>1, <2>2, <2>3
<1>4. CASE MigLink(p)
  <2>1. CASE Live # None
    BY <1>4, <2>1 DEF MigLink, Mended
  <2>2. CASE Live = None
    <3>1. /\ config' = Primary /\ files'[Primary] = files[Primary]
          /\ container' = container /\ stale' = stale
      <4>1. Primary \in Files /\ Primary # Regular
        BY NamesAssumption DEF Files
      <4> QED
        BY <1>1, <1>4, <2>2, <4>1 DEF MigLink, AtomicSymlink, Directory, Others
    <3>2. Live' = files[Primary]
      BY <3>1, NamesAssumption DEF Live
    <3>3. ~Restarting(p)
      BY <1>4 DEF MigLink, At, Restarting
    <3>4. \A q \in Procs : Restarting(q) => Restarting(q)'
      BY <1>1, <1>4, <3>3, OthersStay DEF Restarting, Steps, Migrate
    <3>5. Accepted(container.loaded) => container.loaded # Live
      BY <2>2, NodesAssumption DEF Accepted
    <3> QED
      BY <3>1, <3>2, <3>4, <3>5 DEF Mended, Moving
  <2> QED
    BY <2>1, <2>2
<1> QED
  BY <1>2, <1>3, <1>4 DEF Migrate

(* A write to a profile that says so if config.json leads to it.             *)
LEMMA SameOrStale ==
  ASSUME Directory, Others, NEW f \in Names, NEW c, WriteFile(f, c),
         container' = container, stale' = (stale \/ f \in Leads)
  PROVE  stale' \/ Same
<1>1. f # Regular
  BY NamesAssumption
<1>2. CASE f \in Leads
  BY <1>2
<1>3. CASE f \notin Leads
  <2>1. /\ files' = [files EXCEPT ![f] = c]
        /\ config' = config /\ stale' = stale
    BY <1>1, <1>3 DEF WriteFile, Others
  <2> QED
    BY <1>3, <2>1, SameElsewhere
<1> QED
  BY <1>2, <1>3

(* So does `profile add`.                                                    *)
LEMMA MendedAdd ==
  ASSUME WellFormed, Mended, NEW p \in Procs, Add(p)
  PROVE  Mended'
<1>1. Directory /\ Processes /\ Others
  BY Parts
<1>2. ~Pending(p) /\ Steps(p)
  BY DEF Add, AddLook, AddReady, AddBlind, AddStage, AddTest, AddCommit,
         Pending, Restarting, At, Steps
<1>3. ASSUME AddWrite(p), container' = container, cli[p].pc \in Carrying
      PROVE  stale' \/ Same
  <2>1. cli[p].name \in Names
    BY <1>1 DEF Processes, Process
  <2> QED
    BY <1>1, <1>3, <2>1, SameOrStale DEF AddWrite
<1>4. CASE AddLook(p) \/ AddReady(p) \/ AddStage(p) \/ AddTest(p)
  <2>1. Same
    BY <1>4, SameByReading
       DEF AddLook, AddReady, AddStage, AddTest, disk, ghosts, Same, Live
  <2> QED
    BY <1>1, <1>2, <2>1, MendedAside
<1>5. CASE AddBlind(p)
  <2>1. stale' \/ Same
    BY <1>3, <1>5 DEF AddBlind, At, Carrying
  <2> QED
    BY <1>1, <1>2, <2>1, MendedAside
<1>6. CASE AddCommit(p)
  <2>1. stale' \/ Same
    <3>1. CASE Stage(p) \in stages
      BY <1>3, <1>6, <3>1 DEF AddCommit, At, Carrying
    <3>2. CASE Stage(p) \notin stages
      BY <1>6, <3>2 DEF AddCommit, Same, Live
    <3> QED
      BY <3>1, <3>2
  <2> QED
    BY <1>1, <1>2, <2>1, MendedAside
<1> QED
  BY <1>4, <1>5, <1>6 DEF Add

(* So does `profile use`: a restart follows, or the change is admitted.      *)
LEMMA MendedUse ==
  ASSUME WellFormed, Mended, NEW p \in Procs, Use(p)
  PROVE  Mended'
<1>1. Directory /\ Processes /\ Others
  BY Parts
<1>2. CASE UseLook(p) \/ UseTest(p)
  BY <1>1, <1>2, MendedAside, SameByReading
     DEF UseLook, UseTest, Pending, Restarting, At, Steps, Use
<1>3. CASE UseSwap(p)
  <2>1. CASE cli[p].flag
    BY <1>3, <2>1 DEF UseSwap, Mended
  <2>2. CASE ~cli[p].flag
    <3>1. Restarting(p)'
      BY <1>1, <1>3, <2>2, GoesTo DEF UseSwap, Restarting
    <3> QED
      BY <3>1, MendedByRestart
  <2> QED
    BY <2>1, <2>2
<1> QED
  BY <1>2, <1>3 DEF Use

(* So does each half of a restart: the start loads what is live.             *)
LEMMA MendedRestart ==
  ASSUME WellFormed, Mended, NEW p \in Procs, Stop(p) \/ Start(p)
  PROVE  Mended'
<1>1. Directory /\ Processes /\ Others
  BY Parts
<1>2. CASE Stop(p)
  <2>1. container'.running = FALSE
    BY <1>1, <1>2 DEF Stop, Others
  <2> QED
    BY <2>1 DEF Mended
<1>3. CASE Start(p)
  <2>1. CASE container.running \/ (~container.made /\ Live \notin Content)
    <3>1. Same
      BY <1>3, <2>1 DEF Start, disk, Same, Live
    <3> QED
      BY <1>1, <1>3, <3>1, MendedAside DEF Start, Pending, Restarting, At, Steps
  <2>2. CASE ~(container.running \/ (~container.made /\ Live \notin Content))
    <3>1. container'.loaded = Live
      BY <1>1, <1>3, <2>2 DEF Start, Others
    <3>2. Live' = Live
      BY <1>3 DEF Start, disk, Live
    <3> QED
      BY <3>1, <3>2 DEF Mended
  <2> QED
    BY <2>1, <2>2
<1> QED
  BY <1>2, <1>3

(* So does `profile rm`.                                                     *)
LEMMA MendedRm ==
  ASSUME WellFormed, Mended, NEW p \in Procs, Rm(p)
  PROVE  Mended'
<1>1. Directory /\ Processes /\ Others
  BY Parts
<1>2. ~Pending(p) /\ Steps(p)
  BY DEF Rm, RmCheck, RmAgain, RmRemove, Pending, Restarting, At, Steps
<1>3. CASE RmCheck(p) \/ RmAgain(p)
  BY <1>1, <1>2, <1>3, MendedAside, SameByReading DEF RmCheck, RmAgain
<1>4. CASE RmRemove(p)
  <2>1. cli[p].name \in Names
    BY <1>1 DEF Processes, Process
  <2>2. CASE cli[p].name \in Leads
    BY <1>4, <2>2 DEF RmRemove, Mended
  <2>3. CASE cli[p].name \notin Leads
    <3>1. /\ files' = [files EXCEPT ![cli[p].name] = None]
          /\ config' = config /\ stale' = stale /\ container' = container
      BY <1>1, <1>4, <2>3 DEF RmRemove, Others
    <3> QED
      BY <1>1, <1>2, <2>1, <2>3, <3>1, SameElsewhere, MendedAside
  <2> QED
    BY <2>2, <2>3
<1> QED
  BY <1>3, <1>4 DEF Rm

(* So does `profile regenerate`.                                             *)
LEMMA MendedRegenerate ==
  ASSUME WellFormed, Mended, NEW p \in Procs, Regenerate(p)
  PROVE  Mended'
<1>1. Directory /\ Processes /\ Others
  BY Parts
<1>2. ~Pending(p) /\ Steps(p)
  BY DEF Regenerate, RegRead, RegWrite, Pending, Restarting, At, Steps
<1>3. CASE RegRead(p)
  BY <1>1, <1>2, <1>3, MendedAside, SameByReading DEF RegRead
<1>4. CASE RegWrite(p)
  <2>1. cli[p].name \in Names
    BY <1>1 DEF Processes, Process
  <2>2. stale' \/ Same
    BY <1>1, <1>4, <2>1, SameOrStale DEF RegWrite
  <2> QED
    BY <1>1, <1>2, <2>2, MendedAside
<1> QED
  BY <1>3, <1>4 DEF Regenerate

(* So does `upgrade-config`.                                                 *)
LEMMA MendedUpgrade ==
  ASSUME WellFormed, Mended, NEW p \in Procs, Upgrade(p)
  PROVE  Mended'
<1>1. Directory /\ Processes /\ Others
  BY Parts
<1>2. ~Pending(p) /\ Steps(p)
  BY DEF Upgrade, UpList, UpRead, UpWrite, Pending, Restarting, At, Steps
<1>3. CASE UpList(p) \/ UpRead(p)
  BY <1>1, <1>2, <1>3, MendedAside, SameByReading DEF UpList, UpRead
<1>4. CASE UpWrite(p)
  <2>1. cli[p].path \in Names
    BY <1>1, <1>4 DEF Processes, CarriesContent, UpWrite, At
  <2>2. stale' \/ Same
    BY <1>1, <1>4, <2>1, SameOrStale DEF UpWrite
  <2> QED
    BY <1>1, <1>2, <2>2, MendedAside
<1> QED
  BY <1>3, <1>4 DEF Upgrade

(* So does `debug`: a restart follows, or the change is admitted.            *)
LEMMA MendedDebug ==
  ASSUME WellFormed, Mended, NEW p \in Procs, Debug(p)
  PROVE  Mended'
<1>1. Directory /\ Processes /\ Others
  BY Parts
<1>2. CASE DbgRead(p)
  BY <1>1, <1>2, MendedAside, SameByReading
     DEF DbgRead, Pending, Restarting, At, Steps, Debug
<1>3. CASE DbgWrite(p)
  <2>1. Restarting(p)'
    BY <1>1, <1>3, GoesTo DEF DbgWrite, Restarting
  <2> QED
    BY <2>1, MendedByRestart
<1>4. CASE DbgStatus(p)
  <2>1. CASE container.running /\ Goto(p, "stop")
    <3>1. Restarting(p)'
      BY <1>1, <2>1, GoesTo DEF Restarting
    <3> QED
      BY <3>1, MendedByRestart
  <2>2. CASE ~container.running \/ stale'
    BY <1>4, <2>2 DEF DbgStatus, Mended
  <2> QED
    BY <1>4, <2>1, <2>2 DEF DbgStatus
<1> QED
  BY <1>2, <1>3, <1>4 DEF Debug

(* So does `init`.                                                           *)
LEMMA MendedInit ==
  ASSUME WellFormed, Mended, NEW p \in Procs, InitCmd(p)
  PROVE  Mended'
<1>1. Directory /\ Processes /\ Others
  BY Parts
<1>2. ~Pending(p) /\ Steps(p)
  BY DEF InitCmd, InitResolve, InitWrite, Pending, Restarting, At, Steps
<1>3. CASE InitResolve(p)
  BY <1>1, <1>2, <1>3, MendedAside, SameByReading DEF InitResolve
<1>4. CASE InitWrite(p)
  <2> DEFINE f == cli[p].path
  <2>1. CASE f \in Leads \/ f = config'
    BY <1>4, <2>1 DEF InitWrite, Mended
  <2>2. CASE ~(f \in Leads \/ f = config')
    <3>1. f # Regular
      BY <1>4, <2>2 DEF InitWrite, WriteFile
    <3>2. f \in Names
      BY <1>1, <3>1 DEF Processes, Process, Files
    <3>3. /\ files' = [files EXCEPT ![f] = Fresh(cli[p].node, TRUE)]
          /\ config' = config /\ stale' = stale /\ container' = container
      BY <1>1, <1>4, <2>2, <3>1 DEF InitWrite, WriteFile, Others
    <3> QED
      BY <1>1, <1>2, <2>2, <3>2, <3>3, SameElsewhere, MendedAside
  <2> QED
    BY <2>1, <2>2
<1> QED
  BY <1>3, <1>4 DEF InitCmd

(* So does the start of a command.                                           *)
LEMMA MendedBegin ==
  ASSUME WellFormed, Mended, NEW p \in Procs, Begin(p)
  PROVE  Mended'
<1>1. Processes
  BY Parts
<1>2. Same /\ ~Pending(p)
  BY DEF Begin, disk, ghosts, Same, Live, Pending, Restarting, At
<1> QED
  BY <1>1, <1>2, MendedAside

(* So does a death: one between a change and its restart is admitted.        *)
LEMMA MendedDie ==
  ASSUME WellFormed, Mended, NEW p \in Procs, Die(p)
  PROVE  Mended'
<1>1. Processes /\ Others
  BY Parts
<1>2. CASE Pending(p)
  BY <1>2 DEF Die, Pending, Restarting, At, Mended
<1>3. CASE ~Pending(p)
  <2>1. stale' \/ Same
    BY <1>1 DEF Die, disk, Same, Live, Others
  <2> QED
    BY <1>1, <1>3, <2>1, MendedAside DEF Steps
<1> QED
  BY <1>2, <1>3

(* So does what is around the processes.                                     *)
LEMMA MendedSurroundings ==
  ASSUME WellFormed, Mended, Respawn \/ EditRouting \/ UNCHANGED vars
  PROVE  Mended'
<1>1. Directory /\ Others
  BY Parts
<1>2. CASE Respawn
  <2>1. container'.loaded = Live /\ Live' = Live
    BY <1>1, <1>2 DEF Respawn, Others, disk, Live
  <2> QED
    BY <2>1 DEF Mended
<1>3. CASE EditRouting
  <2>1. PICK f \in Files :
          /\ files[f] \in Content
          /\ files' = [files EXCEPT ![f].routing = "custom"]
          /\ stale' = (stale \/ f \in Leads)
    BY <1>3 DEF EditRouting
  <2>2. CASE f \in Leads
    BY <2>1, <2>2 DEF Mended
  <2>3. CASE f \notin Leads
    <3>1. config # None /\ config # f
      BY <2>3 DEF Leads
    <3>2. Same
      BY <1>1, <1>3, <2>1, <2>3, <3>1 DEF EditRouting, Same, Live, Directory, Others
    <3> QED
      BY <1>3, <3>2, MendedStays DEF EditRouting
  <2> QED
    BY <2>2, <2>3
<1>4. CASE UNCHANGED vars
  BY <1>4, MendedStays DEF vars, Same, Live
<1> QED
  BY <1>2, <1>3, <1>4

(* At first the container has loaded what config.json leads to.              *)
LEMMA InitMended == Init => Mended
<1> SUFFICES ASSUME Init, container.running PROVE container.loaded = Live
  BY DEF Mended
<1> DEFINE start(s) == CASE s = "fresh" -> None
                        [] s = "legacy" -> Regular
                        [] s = "migrated" -> Primary
<1>1. PICK s \in Starts, w \in BOOLEAN :
        /\ config = start(s)
        /\ container = [made |-> start(s) # None, running |-> start(s) # None,
                        wholeDir |-> w,
                        loaded |-> IF start(s) = None THEN None
                                   ELSE files[start(s)]]
  BY Zenon DEF Init
<1> HIDE DEF start
<1> QED
  BY <1>1 DEF Live

(* Every step leaves the container mended.                                   *)
LEMMA NextMended == WellFormed /\ Mended /\ [Next]_vars => Mended'
<1> SUFFICES ASSUME WellFormed, Mended, [Next]_vars PROVE Mended'
  OBVIOUS
<1>1. ASSUME NEW p \in Procs,
             \/ Begin(p) \/ Migrate(p) \/ Add(p) \/ Use(p) \/ Rm(p)
             \/ Regenerate(p) \/ Upgrade(p) \/ Debug(p) \/ InitCmd(p)
             \/ Stop(p) \/ Start(p) \/ Die(p)
      PROVE  Mended'
  BY <1>1, MendedBegin, MendedMigrate, MendedAdd, MendedUse, MendedRm,
     MendedRegenerate, MendedUpgrade, MendedDebug, MendedInit, MendedRestart,
     MendedDie
<1> QED
  BY <1>1, MendedSurroundings DEF Next, Finished

(***************************************************************************)
(* However the commands of any number of processes interleave, and wherever   *)
(* they are killed: once they have all ended, a healthy proxy runs what       *)
(* config.json leads to, unless something that promises no reload changed it *)
(* since the container started.                                             *)
(***************************************************************************)
THEOREM SwitchConverges == Spec => []Converged
<1>1. Init => WellFormed /\ Mended
  BY InitWellFormed, InitMended
<1>2. WellFormed /\ Mended /\ [Next]_vars => (WellFormed /\ Mended)'
  BY NextWellFormed, NextMended
<1> QED
  BY <1>1, <1>2, MendedImpliesConverged, PTL DEF Spec

-----------------------------------------------------------------------------
(* What xray rejects is admitted.                                            *)

Admits(U, c) ==
  (c \in Content /\ c.node \in BadNodes) => \E u \in U : u.node = c.node

(***************************************************************************)
(* The labels at which what a process carries matters: an add carries the     *)
(* node it was given, it commits only what passed xray -test, and the other   *)
(* writers carry a node that was on disk when they read it.                  *)
(***************************************************************************)
Carriers == {"addReady", "addBlind", "addStage", "addTest", "addCommit",
             "regWrite", "upWrite", "dbgWrite"}

CarriesAdmitted(p) ==
  /\ cli[p].pc \in {"regWrite", "upWrite", "dbgWrite"}
       => Admits(ungated, cli[p].data)
  /\ cli[p].pc \in {"addReady", "addBlind"} => cli[p].data.node = cli[p].node
  /\ cli[p].pc = "addCommit" => Accepted(cli[p].data)

AllAdmitted == /\ \A f \in Files : Admits(ungated, files[f])
               /\ \A p \in Procs : CarriesAdmitted(p)

(* What is on disk is admitted if every file is.                             *)
LEMMA AllAdmittedImplies == AllAdmitted => RejectsAdmitted
BY DEF AllAdmitted, Admits, RejectsAdmitted, NodeAt

(* What an add or a rewrite puts on disk is admitted.                        *)
FilesAdmitted ==
  /\ ungated \subseteq ungated'
  /\ \A f \in Files : files'[f] = files[f] \/ Admits(ungated', files'[f])

(* A step is judged by what it writes and what its process then carries.     *)
LEMMA AdmittedStep ==
  ASSUME Processes, AllAdmitted, NEW p \in Procs, Steps(p) \/ Begin(p),
         FilesAdmitted, CarriesAdmitted(p)'
  PROVE  AllAdmitted'
<1>1. \A f \in Files : Admits(ungated, files[f])'
  BY DEF AllAdmitted, FilesAdmitted, Admits
<1>2. ASSUME NEW q \in Procs \ {p} PROVE CarriesAdmitted(q)'
  <2>1. cli'[q] = cli[q]
    BY OthersStay
  <2>2. CarriesAdmitted(q) /\ ungated \subseteq ungated'
    BY DEF AllAdmitted, FilesAdmitted
  <2> QED
    BY <2>1, <2>2 DEF CarriesAdmitted, Admits, Accepted
<1> QED
  BY <1>1, <1>2 DEF AllAdmitted

(* A process at a label of no writer carries nothing.                        *)
LEMMA NothingCarried ==
  ASSUME NEW p \in Procs, cli'[p].pc \notin Carriers
  PROVE  CarriesAdmitted(p)'
BY DEF CarriesAdmitted, Carriers

(* So does one that ended.                                                   *)
LEMMA EndsIdle ==
  ASSUME Processes, NEW p \in Procs, End(p)
  PROVE  CarriesAdmitted(p)'
<1>1. cli'[p].pc = "idle"
  BY IdleType DEF Processes, End
<1> QED
  BY <1>1, NothingCarried DEF Carriers

(* So does one that went to such a label.                                    *)
LEMMA GoesQuietly ==
  ASSUME Processes, NEW p \in Procs, NEW l, Goto(p, l), l \notin Carriers
  PROVE  CarriesAdmitted(p)'
BY GoesTo, NothingCarried

(* A step that touches no file admits all there is.                          *)
LEMMA FilesUntouched ==
  files' = files /\ ungated' = ungated => FilesAdmitted
BY DEF FilesAdmitted

(* A write is admitted if what it writes is.                                 *)
LEMMA FilesWritten ==
  ASSUME Directory, NEW f \in Files, NEW c, files' = [files EXCEPT ![f] = c],
         ungated \subseteq ungated', Admits(ungated', c)
  PROVE  FilesAdmitted
BY DEF FilesAdmitted, Directory

(* No file, or a broken one, needs no admission.                             *)
LEMMA NotContent == \A U : Admits(U, None) /\ Admits(U, Broken)
BY NodesAssumption DEF Admits

(* A part of a configuration is rewritten, and its node stays.               *)
LEMMA SameNode ==
  ASSUME NEW c \in Content, NEW d, d.node = c.node, NEW U, Admits(U, c)
  PROVE  Admits(U, d)
BY DEF Admits

(* What config.json leads to is admitted.                                    *)
LEMMA LiveAdmitted == Directory /\ AllAdmitted => Admits(ungated, Live)
BY NotContent DEF Directory, AllAdmitted, Live

(* The migration moves files, and what is admitted stays so.                 *)
LEMMA AdmittedMigrate ==
  ASSUME WellFormed, AllAdmitted, NEW p \in Procs, Migrate(p)
  PROVE  AllAdmitted'
<1>1. Directory /\ Processes
  BY Parts
<1>2. Steps(p)
  BY DEF Steps
<1>3. ASSUME Migrated(p) PROVE CarriesAdmitted(p)'
  <2>1. NextLabel(p) \notin Carriers
    BY DEF NextLabel, Carriers
  <2> QED
    BY <1>1, <1>3, <2>1, EndsIdle, GoesQuietly DEF Migrated
<1>4. CarriesAdmitted(p)'
  BY <1>1, <1>3, EndsIdle, GoesQuietly
     DEF Migrate, MigLook, MigPrimary, MigMove, MigLink, Carriers
<1>5. FilesAdmitted
  <2>1. CASE MigLook(p) \/ MigPrimary(p)
    BY <2>1, FilesUntouched DEF MigLook, MigPrimary, Read, disk, ghosts
  <2>2. CASE MigMove(p)
    <3>1. CASE Live \notin Content
      BY <2>2, <3>1, FilesUntouched DEF MigMove, Read, disk, ghosts
    <3>2. CASE Live \in Content
      <4>1. ungated' = ungated
            /\ \A f \in Files : files'[f] \in {files[f], Live, Broken, None}
        BY <1>1, <2>2, <3>2 DEF MigMove, Directory
      <4> QED
        BY <1>1, <4>1, LiveAdmitted, NotContent DEF FilesAdmitted
    <3> QED
      BY <3>1, <3>2
  <2>3. CASE MigLink(p)
    <3>1. Regular \in Files
      BY DEF Files
    <3> QED
      BY <1>1, <2>3, <3>1, FilesWritten, NotContent DEF MigLink, AtomicSymlink
  <2> QED
    BY <2>1, <2>2, <2>3 DEF Migrate
<1> QED
  BY <1>1, <1>2, <1>4, <1>5, AdmittedStep

(* An add writes what passed the test, or says that it did not test it.      *)
LEMMA AdmittedAdd ==
  ASSUME WellFormed, AllAdmitted, NEW p \in Procs, Add(p)
  PROVE  AllAdmitted'
<1>1. Directory /\ Processes /\ cli \in [Procs -> Process] /\ CarriesContent(p)
  BY Parts DEF Processes
<1>2. Steps(p) /\ CarriesAdmitted(p)
  BY DEF Steps, AllAdmitted
<1>3. cli[p].name \in Files
  BY <1>1 DEF Process, Files
<1>4. CASE AddLook(p)
  <2>1. CarriesAdmitted(p)'
    <3>1. CASE End(p)
      BY <1>1, <3>1, EndsIdle
    <3>2. CASE ~End(p)
      <4> DEFINE routing == IF config \in Names /\ Live \in Content
                            THEN Live.routing ELSE "default"
                 d == [Fresh(cli[p].node, TRUE) EXCEPT !.routing = routing]
      <4>1. cli' = [cli EXCEPT ![p].pc = "addReady", ![p].data = d]
        BY <1>4, <3>2 DEF AddLook
      <4>2. d.node = cli[p].node
        BY DEF Fresh
      <4> HIDE DEF d
      <4>3. cli'[p].pc = "addReady" /\ cli'[p].data.node = cli'[p].node
        BY <1>1, <4>1, <4>2 DEF Process
      <4> QED
        BY <4>3 DEF CarriesAdmitted
    <3> QED
      BY <3>1, <3>2
  <2>2. FilesAdmitted
    BY <1>4, FilesUntouched DEF AddLook, Read, disk, ghosts
  <2> QED
    BY <1>1, <1>2, <2>1, <2>2, AdmittedStep
<1>5. CASE AddReady(p)
  <2>1. PICK l \in {"addStage", "addBlind"} : Goto(p, l)
    BY <1>5 DEF AddReady
  <2>2. cli[p].data.node = cli[p].node
    BY <1>2, <1>5 DEF AddReady, At, CarriesAdmitted
  <2>3. /\ cli'[p].pc = l
        /\ cli'[p].data = cli[p].data /\ cli'[p].node = cli[p].node
    BY <1>1, <2>1 DEF Goto, Process
  <2>4. CarriesAdmitted(p)'
    BY <2>2, <2>3 DEF CarriesAdmitted
  <2>5. FilesAdmitted
    BY <1>5, FilesUntouched DEF AddReady, disk, ghosts
  <2> QED
    BY <1>1, <1>2, <2>4, <2>5, AdmittedStep
<1>6. CASE AddBlind(p)
  <2>1. CarriesAdmitted(p)'
    BY <1>1, <1>6, EndsIdle DEF AddBlind, AddWrite
  <2>2. FilesAdmitted
    <3> DEFINE u == [node |-> cli[p].node, live |-> cli[p].name = config]
    <3>1. u.node = cli[p].node
      OBVIOUS
    <3>2. /\ ungated' = ungated \cup {u}
          /\ files' = [files EXCEPT ![cli[p].name] = cli[p].data]
      BY <1>6 DEF AddBlind, AddWrite, WriteFile
    <3>3. cli[p].data.node = cli[p].node
      BY <1>2, <1>6 DEF AddBlind, At, CarriesAdmitted
    <3> HIDE DEF u
    <3>4. Admits(ungated', cli[p].data)
      BY <3>1, <3>2, <3>3 DEF Admits
    <3> QED
      BY <1>1, <1>3, <3>2, <3>4, FilesWritten
  <2> QED
    BY <1>1, <1>2, <2>1, <2>2, AdmittedStep
<1>7. CASE AddStage(p)
  <2>1. cli'[p].pc = "addTest"
    BY <1>1, <1>7, GoesTo DEF AddStage
  <2>2. CarriesAdmitted(p)'
    BY <2>1 DEF CarriesAdmitted
  <2>3. FilesAdmitted
    BY <1>7, FilesUntouched DEF AddStage, ghosts
  <2> QED
    BY <1>1, <1>2, <2>2, <2>3, AdmittedStep
<1>8. CASE AddTest(p)
  <2>1. CASE End(p)
    BY <1>1, <2>1, EndsIdle, <1>2, <1>8, FilesUntouched, AdmittedStep
       DEF AddTest, ghosts
  <2>2. CASE ~End(p)
    <3>1. TRUE \in XrayTest(cli[p].data) /\ Goto(p, "addCommit")
      <4>1. PICK ok \in XrayTest(cli[p].data) : ok /\ Goto(p, "addCommit")
        BY <1>8, <2>2 DEF AddTest
      <4>2. XrayTest(cli[p].data) \subseteq BOOLEAN
        BY DEF XrayTest, Accepted
      <4> QED
        BY <4>1, <4>2
    <3>2. Accepted(cli[p].data)
      BY <3>1, Zenon DEF XrayTest
    <3>3. cli'[p].pc = "addCommit" /\ cli'[p].data = cli[p].data
      BY <1>1, <3>1 DEF Goto, Process
    <3>4. CarriesAdmitted(p)'
      BY <3>2, <3>3 DEF CarriesAdmitted, Accepted
    <3> QED
      BY <1>1, <1>2, <1>8, <3>4, FilesUntouched, AdmittedStep DEF AddTest, ghosts
  <2> QED
    BY <2>1, <2>2
<1>9. CASE AddCommit(p)
  <2>1. CarriesAdmitted(p)'
    BY <1>1, <1>9, EndsIdle DEF AddCommit, AddWrite
  <2>2. Admits(ungated', cli[p].data)
    BY <1>2, <1>9 DEF AddCommit, At, CarriesAdmitted, Accepted, Admits
  <2>3. FilesAdmitted
    <3>1. CASE Stage(p) \in stages
      BY <1>1, <1>3, <1>9, <2>2, <3>1, FilesWritten
         DEF AddCommit, AddWrite, WriteFile
    <3>2. CASE Stage(p) \notin stages
      BY <1>9, <3>2, FilesUntouched DEF AddCommit
    <3> QED
      BY <3>1, <3>2
  <2> QED
    BY <1>1, <1>2, <2>1, <2>3, AdmittedStep
<1> QED
  BY <1>4, <1>5, <1>6, <1>7, <1>8, <1>9 DEF Add

(* The steps that write no configuration, and leave none to be written.       *)
LEMMA AdmittedQuiet ==
  ASSUME WellFormed, AllAdmitted, NEW p \in Procs,
         \/ Use(p) \/ Rm(p) \/ Stop(p) \/ Start(p) \/ Die(p) \/ Begin(p)
  PROVE  AllAdmitted'
<1>1. Directory /\ Processes /\ cli \in [Procs -> Process]
  BY Parts DEF Processes
<1>2. Steps(p) \/ Begin(p)
  BY DEF Steps
<1>3. CarriesAdmitted(p)'
  <2>1. CASE Begin(p)
    <3>1. PICK op \in Ops : cli'[p].pc = FirstLabel(op)
      <4>1. PICK op \in Ops, name \in Names, node \in Nodes, flag \in BOOLEAN :
              /\ Takes(op, name, node, flag)
              /\ cli' = [cli EXCEPT ![p] = [Idle EXCEPT !.op = op, !.name = name,
                                            !.pc = FirstLabel(op), !.node = node,
                                            !.flag = flag]]
        BY Zenon, <2>1 DEF Begin
      <4> DEFINE l == FirstLabel(op)
      <4> HIDE DEF l
      <4>2. cli'[p].pc = l
        BY <1>1, <4>1 DEF Idle, l
      <4> QED
        BY <4>2 DEF l
    <3>2. FirstLabel(op) \notin Carriers
      BY OpsAssumption DEF FirstLabel, AllOps, ProfileOps, Carriers
    <3> QED
      BY <3>1, <3>2, NothingCarried
  <2>2. CASE ~Begin(p)
    <3>1. End(p) \/ \E l \in Labels \ Carriers : Goto(p, l)
      BY <2>2 DEF Use, UseLook, UseTest, UseSwap, Rm, RmCheck, RmAgain, RmRemove,
                  Stop, Start, Die, Labels, Carriers
    <3> QED
      BY <1>1, <3>1, EndsIdle, GoesQuietly
  <2> QED
    BY <2>1, <2>2
<1>4. FilesAdmitted
  <2>1. CASE UseSwap(p)
    <3>1. Regular \in Files
      BY DEF Files
    <3> QED
      BY <1>1, <2>1, <3>1, FilesWritten, NotContent DEF UseSwap, AtomicSymlink
  <2>2. CASE RmRemove(p)
    <3>1. cli[p].name \in Files
      BY <1>1 DEF Process, Files
    <3> QED
      BY <1>1, <2>2, <3>1, FilesWritten, NotContent DEF RmRemove
  <2>3. CASE ~UseSwap(p) /\ ~RmRemove(p)
    BY <2>3, FilesUntouched
       DEF Use, UseLook, UseTest, Rm, RmCheck, RmAgain, Stop, Start, Die, Begin,
           Read, disk, ghosts
  <2> QED
    BY <2>1, <2>2, <2>3
<1> QED
  BY <1>1, <1>2, <1>3, <1>4, AdmittedStep

(* A regenerate keeps the node of the profile it rewrites.                   *)
LEMMA AdmittedRegenerate ==
  ASSUME WellFormed, AllAdmitted, NEW p \in Procs, Regenerate(p)
  PROVE  AllAdmitted'
<1>1. /\ Directory /\ Processes /\ cli \in [Procs -> Process]
      /\ cli[p].name \in Files /\ Steps(p) /\ CarriesAdmitted(p)
  BY Parts DEF Processes, Process, Files, Steps, AllAdmitted
<1>2. CASE RegRead(p)
  <2>1. CarriesAdmitted(p)'
    <3>1. CASE End(p)
      BY <1>1, <3>1, EndsIdle
    <3>2. CASE ~End(p)
      <4> DEFINE c == files[cli[p].name]
                 d == [c EXCEPT !.routing = Live.routing]
      <4>1. /\ c \in Content /\ ungated' = ungated
            /\ cli' = [cli EXCEPT ![p].pc = "regWrite", ![p].data = d]
        BY <1>2, <3>2 DEF RegRead, Read, ghosts
      <4>2. Admits(ungated, c)
        BY <1>1 DEF AllAdmitted
      <4>3. d.node = c.node
        BY <4>1 DEF Content
      <4> HIDE DEF d
      <4>4. cli'[p].pc = "regWrite" /\ cli'[p].data = d
        BY <1>1, <4>1 DEF Process
      <4>5. Admits(ungated', d)
        BY <4>1, <4>2, <4>3, SameNode
      <4> QED
        BY <4>4, <4>5 DEF CarriesAdmitted
    <3> QED
      BY <3>1, <3>2
  <2> QED
    BY <1>1, <1>2, <2>1, FilesUntouched, AdmittedStep DEF RegRead, Read, disk, ghosts
<1>3. CASE RegWrite(p)
  <2>1. Admits(ungated, cli[p].data)
    BY <1>1, <1>3 DEF RegWrite, At, CarriesAdmitted
  <2>2. FilesAdmitted
    BY <1>1, <1>3, <2>1, FilesWritten DEF RegWrite, WriteFile
  <2> QED
    BY <1>1, <1>3, <2>2, EndsIdle, AdmittedStep DEF RegWrite
<1> QED
  BY <1>2, <1>3 DEF Regenerate

(* So does an upgrade.                                                       *)
LEMMA AdmittedUpgrade ==
  ASSUME WellFormed, AllAdmitted, NEW p \in Procs, Upgrade(p)
  PROVE  AllAdmitted'
<1>1. /\ Directory /\ Processes /\ cli \in [Procs -> Process]
      /\ cli[p].path \in Files /\ cli[p].todo \subseteq Files
      /\ Steps(p) /\ CarriesAdmitted(p)
  BY Parts DEF Processes, Process, Files, Steps, AllAdmitted
<1>2. CASE UpList(p)
  <2>1. cli'[p].pc = "upRead"
    BY <1>1, <1>2 DEF UpList, Process
  <2>2. CarriesAdmitted(p)'
    BY <2>1, NothingCarried DEF Carriers
  <2> QED
    BY <1>1, <1>2, <2>2, FilesUntouched, AdmittedStep DEF UpList, Read, disk, ghosts
<1>3. CASE UpRead(p)
  <2>1. CarriesAdmitted(p)'
    <3>1. CASE End(p)
      BY <1>1, <3>1, EndsIdle
    <3>2. CASE ~End(p)
      <4>1. PICK n \in cli[p].todo :
              /\ files[n] \in Content
              /\ cli' = [cli EXCEPT ![p] =
                           IF files[n].tproxy
                           THEN [cli[p] EXCEPT !.todo = @ \ {n}]
                           ELSE [[cli[p] EXCEPT !.todo = @ \ {n}] EXCEPT
                                   !.pc = "upWrite", !.path = n,
                                   !.data = [files[n] EXCEPT !.tproxy = TRUE]]]
        BY <1>3, <3>2 DEF UpRead
      <4> DEFINE c == files[n]
                 d == [c EXCEPT !.tproxy = TRUE]
                 t == cli[p].todo \ {n}
                 e == [[cli[p] EXCEPT !.todo = t] EXCEPT
                         !.pc = "upWrite", !.path = n, !.data = d]
      <4>2. Admits(ungated, c) /\ ungated' = ungated
        BY <1>1, <1>3 DEF AllAdmitted, UpRead, Read, ghosts
      <4>3. d.node = c.node
        BY <4>1 DEF Content
      <4>4. CASE files[n].tproxy
        <5>1. cli'[p].pc = cli[p].pc
          BY <1>1, <4>1, <4>4 DEF Process
        <5> QED
          BY <1>3, <5>1, NothingCarried DEF UpRead, At, Carriers
      <4>5. CASE ~files[n].tproxy
        <5>1. cli'[p] = e
          BY <1>1, <4>1, <4>5
        <5> HIDE DEF d
        <5>2. e.pc = "upWrite" /\ e.data = d
          BY <1>1 DEF Process
        <5>3. Admits(ungated', d)
          BY <4>1, <4>2, <4>3, SameNode
        <5> HIDE DEF e
        <5> QED
          BY <5>1, <5>2, <5>3 DEF CarriesAdmitted
      <4> QED
        BY <4>4, <4>5
    <3> QED
      BY <3>1, <3>2
  <2> QED
    BY <1>1, <1>3, <2>1, FilesUntouched, AdmittedStep DEF UpRead, Read, disk, ghosts
<1>4. CASE UpWrite(p)
  <2>1. Admits(ungated, cli[p].data)
    BY <1>1, <1>4 DEF UpWrite, At, CarriesAdmitted
  <2>2. FilesAdmitted
    BY <1>1, <1>4, <2>1, FilesWritten DEF UpWrite, WriteFile
  <2>3. cli'[p].pc = "upRead"
    BY <1>1, <1>4 DEF UpWrite, Process
  <2>4. CarriesAdmitted(p)'
    BY <2>3, NothingCarried DEF Carriers
  <2> QED
    BY <1>1, <2>2, <2>4, AdmittedStep
<1> QED
  BY <1>2, <1>3, <1>4 DEF Upgrade

(* So does `debug`.                                                          *)
LEMMA AdmittedDebug ==
  ASSUME WellFormed, AllAdmitted, NEW p \in Procs, Debug(p)
  PROVE  AllAdmitted'
<1>1. /\ Directory /\ Processes /\ cli \in [Procs -> Process]
      /\ cli[p].path \in Files /\ Steps(p) /\ CarriesAdmitted(p)
  BY Parts DEF Processes, Process, Steps, AllAdmitted
<1>2. CASE DbgRead(p)
  <2>1. CarriesAdmitted(p)'
    <3>1. CASE End(p)
      BY <1>1, <3>1, EndsIdle
    <3>2. CASE ~End(p)
      <4> DEFINE level == IF cli[p].flag THEN "debug" ELSE "warning"
                 d == [Live EXCEPT !.log = level]
      <4>1. /\ Live \in Content /\ ungated' = ungated
            /\ cli' = [cli EXCEPT ![p].pc = "dbgWrite", ![p].path = config,
                                  ![p].data = d]
        BY <1>2, <3>2 DEF DbgRead, Read, ghosts
      <4>2. d.node = Live.node
        BY <4>1 DEF Content
      <4> HIDE DEF d
      <4>3. cli'[p].pc = "dbgWrite" /\ cli'[p].data = d
        BY <1>1, <4>1 DEF Process
      <4>4. Admits(ungated', d)
        BY <1>1, <4>1, <4>2, LiveAdmitted, SameNode
      <4> QED
        BY <4>3, <4>4 DEF CarriesAdmitted
    <3> QED
      BY <3>1, <3>2
  <2> QED
    BY <1>1, <1>2, <2>1, FilesUntouched, AdmittedStep DEF DbgRead, Read, disk, ghosts
<1>3. CASE DbgWrite(p)
  <2>1. Admits(ungated, cli[p].data)
    BY <1>1, <1>3 DEF DbgWrite, At, CarriesAdmitted
  <2>2. FilesAdmitted
    BY <1>1, <1>3, <2>1, FilesWritten DEF DbgWrite, WriteFile, ghosts
  <2>3. CarriesAdmitted(p)'
    BY <1>1, <1>3, GoesQuietly DEF DbgWrite, Carriers
  <2> QED
    BY <1>1, <2>2, <2>3, AdmittedStep
<1>4. CASE DbgStatus(p)
  <2>1. CarriesAdmitted(p)'
    BY <1>1, <1>4, GoesQuietly, EndsIdle DEF DbgStatus, Carriers
  <2> QED
    BY <1>1, <1>4, <2>1, FilesUntouched, AdmittedStep DEF DbgStatus, disk
<1> QED
  BY <1>2, <1>3, <1>4 DEF Debug

(* An init says that it did not test what it wrote.                          *)
LEMMA AdmittedInit ==
  ASSUME WellFormed, AllAdmitted, NEW p \in Procs, InitCmd(p)
  PROVE  AllAdmitted'
<1>1. /\ Directory /\ Processes /\ cli \in [Procs -> Process]
      /\ cli[p].path \in Files /\ Steps(p)
  BY Parts DEF Processes, Process, Steps
<1>2. CASE InitResolve(p)
  <2>1. CarriesAdmitted(p)'
    <3>1. CASE End(p)
      BY <1>1, <3>1, EndsIdle
    <3>2. CASE ~End(p)
      <4>1. cli'[p].pc = "initWrite"
        BY <1>1, <1>2, <3>2 DEF InitResolve, Process
      <4> QED
        BY <4>1, NothingCarried DEF Carriers
    <3> QED
      BY <3>1, <3>2
  <2> QED
    BY <1>1, <1>2, <2>1, FilesUntouched, AdmittedStep
       DEF InitResolve, Read, disk, ghosts
<1>3. CASE InitWrite(p)
  <2> DEFINE n == cli[p].node
             u == [node |-> n, live |-> cli[p].path = config']
  <2>1. u.node = n /\ Fresh(n, TRUE).node = n
    BY DEF Fresh
  <2>2. /\ ungated' = ungated \cup {u}
        /\ files' = [files EXCEPT ![cli[p].path] = Fresh(n, TRUE)]
    BY <1>3 DEF InitWrite, WriteFile
  <2> HIDE DEF u
  <2>3. FilesAdmitted
    BY <1>1, <2>1, <2>2, FilesWritten DEF Admits
  <2> QED
    BY <1>1, <1>3, <2>3, EndsIdle, AdmittedStep DEF InitWrite
<1> QED
  BY <1>2, <1>3 DEF InitCmd

(* An edit by hand keeps the node of the file.                               *)
LEMMA AdmittedSurroundings ==
  ASSUME WellFormed, AllAdmitted, Respawn \/ EditRouting \/ UNCHANGED vars
  PROVE  AllAdmitted'
<1>1. cli' = cli /\ ungated' = ungated
  BY DEF Respawn, EditRouting, vars, ghosts
<1>2. \A f \in Files : Admits(ungated, files'[f])
  <2>1. CASE EditRouting
    <3>1. PICK f \in Files : /\ files[f] \in Content
                             /\ files' = [files EXCEPT ![f].routing = "custom"]
      BY <2>1 DEF EditRouting
    <3> DEFINE d == [files[f] EXCEPT !.routing = "custom"]
    <3>2. files' = [files EXCEPT ![f] = d] /\ d.node = files[f].node
      BY <3>1, Parts DEF Directory, Content
    <3> HIDE DEF d
    <3>3. Admits(ungated, d)
      BY <3>1, <3>2, SameNode DEF AllAdmitted
    <3> QED
      BY <3>2, <3>3, Parts DEF AllAdmitted, Directory
  <2>2. CASE ~EditRouting
    BY <2>2 DEF Respawn, vars, disk, AllAdmitted
  <2> QED
    BY <2>1, <2>2
<1>3. \A p \in Procs : CarriesAdmitted(p)'
  BY <1>1 DEF AllAdmitted, CarriesAdmitted, Accepted, Admits
<1> QED
  BY <1>1, <1>2, <1>3 DEF AllAdmitted

(* At first every file is one that xray accepts.                             *)
LEMMA InitAdmitted == Init => AllAdmitted
<1> SUFFICES ASSUME Init PROVE AllAdmitted
  OBVIOUS
<1>1. \A p \in Procs : CarriesAdmitted(p)
  BY IdleType DEF Init, CarriesAdmitted
<1>2. ASSUME NEW f \in Files PROVE Admits(ungated, files[f])
  <2>1. PICK n \in Nodes \ BadNodes, t \in BOOLEAN :
          files[f] \in {Fresh(n, t), None}
    BY <1>2 DEF Init
  <2>2. Fresh(n, t).node \notin BadNodes
    BY DEF Fresh
  <2> QED
    BY <2>1, <2>2, NotContent DEF Admits
<1> QED
  BY <1>1, <1>2 DEF AllAdmitted

(* Every step leaves everything on disk admitted.                            *)
LEMMA NextAdmitted == WellFormed /\ AllAdmitted /\ [Next]_vars => AllAdmitted'
<1> SUFFICES ASSUME WellFormed, AllAdmitted, [Next]_vars PROVE AllAdmitted'
  OBVIOUS
<1>1. ASSUME NEW p \in Procs,
             \/ Begin(p) \/ Migrate(p) \/ Add(p) \/ Use(p) \/ Rm(p)
             \/ Regenerate(p) \/ Upgrade(p) \/ Debug(p) \/ InitCmd(p)
             \/ Stop(p) \/ Start(p) \/ Die(p)
      PROVE  AllAdmitted'
  BY <1>1, AdmittedQuiet, AdmittedMigrate, AdmittedAdd, AdmittedRegenerate,
     AdmittedUpgrade, AdmittedDebug, AdmittedInit
<1> QED
  BY <1>1, AdmittedSurroundings DEF Next, Finished

(***************************************************************************)
(* A configuration xray rejects is on disk only if a command said that it     *)
(* wrote it unvalidated, whatever is rewritten from it meanwhile.            *)
(***************************************************************************)
THEOREM RejectsAlwaysAdmitted == Spec => []RejectsAdmitted
<1>1. Init => WellFormed /\ AllAdmitted
  BY InitWellFormed, InitAdmitted
<1>2. WellFormed /\ AllAdmitted /\ [Next]_vars => (WellFormed /\ AllAdmitted)'
  BY NextWellFormed, NextAdmitted
<1> QED
  BY <1>1, <1>2, AllAdmittedImplies, PTL DEF Spec

-----------------------------------------------------------------------------
(* One command at a time loses nothing and breaks nothing.                    *)

(* A configuration that passed xray -test or was written live without it.     *)
Tested(U, c) ==
  (c \in Content /\ c.node \in BadNodes) => [node |-> c.node, live |-> TRUE] \in U

(***************************************************************************)
(* What the directory is after every step of a command that works alone: no   *)
(* broken file, config.json leads to a configuration, every node owed is on   *)
(* a file, and what config.json leads to was tested.                         *)
(***************************************************************************)
Shelf ==
  /\ \A f \in Files : files[f] # Broken
  /\ config # None => Live \in Content
  /\ AllKept
  /\ Tested(ungated, Live)

(***************************************************************************)
(* What the process at work knows of the directory from what it has read, by  *)
(* the label it is at.                                                       *)
(***************************************************************************)
Migrating(p) ==
  /\ cli[p].pc \in {"migPrimary", "migMove"} => config = Regular
  /\ At(p, "migMove") => files[Primary] = None
  /\ At(p, "migLink") => /\ config = None
                         /\ files[Primary] \in Content
                         /\ Tested(ungated, files[Primary])

Adding(p) ==
  LET c == cli[p] IN
  /\ c.pc \in {"addReady", "addBlind", "addStage", "addTest", "addCommit"}
       => c.data.node = c.node /\ (c.flag \/ files[c.name] = None)
  /\ At(p, "addCommit") => c.node \notin BadNodes

Using(p) ==
  /\ cli[p].pc \in {"useLook", "useTest", "useSwap"} => config # Regular
  /\ cli[p].pc \in {"useTest", "useSwap"} => files[cli[p].name] \in Content
  /\ At(p, "useSwap") => files[cli[p].name].node \notin BadNodes

Removing(p) ==
  cli[p].pc \in {"rmAgain", "rmRemove"} => config # cli[p].name

(* The file to rewrite is there, with the node that it is to keep.            *)
Rewrites(p, f) == files[f] \in Content /\ cli[p].data.node = files[f].node

Rewriting(p) ==
  /\ At(p, "regWrite") => Rewrites(p, cli[p].name)
  /\ At(p, "upWrite")  => Rewrites(p, cli[p].path)
  /\ At(p, "dbgWrite") => Rewrites(p, cli[p].path) /\ cli[p].path = config
  /\ At(p, "initWrite") =>
       cli[p].path = IF config = None THEN Regular ELSE config

Knows(p) == /\ Migrating(p) /\ Adding(p) /\ Using(p) /\ Removing(p)
            /\ Rewriting(p)

Solo == \A p, q \in Procs : At(p, "idle") \/ At(q, "idle") \/ p = q

Kept == ~overlap => Solo /\ Shelf /\ \A p \in Procs : Knows(p)

(* A process that steps was at work, and two at work are noted at a start.   *)
LEMMA StepsBusy ==
  ASSUME NEW p \in Procs, Steps(p)
  PROVE  ~At(p, "idle") /\ overlap' = overlap
<1>1. CASE Migrate(p)
  BY <1>1 DEF Migrate, MigLook, MigPrimary, MigMove, MigLink, Read, At
<1>2. CASE Add(p)
  BY <1>2 DEF Add, AddLook, AddReady, AddBlind, AddStage, AddTest, AddCommit,
              Read, At
<1>3. CASE Use(p) \/ Rm(p) \/ Regenerate(p)
  BY <1>3 DEF Use, UseLook, UseTest, UseSwap, Rm, RmCheck, RmAgain, RmRemove,
              Regenerate, RegRead, RegWrite, Read, At
<1>4. CASE Upgrade(p) \/ Debug(p) \/ InitCmd(p)
  BY <1>4 DEF Upgrade, UpList, UpRead, UpWrite, Debug, DbgRead, DbgWrite,
              DbgStatus, InitCmd, InitResolve, InitWrite, Read, At
<1>5. CASE Stop(p) \/ Start(p) \/ Die(p)
  BY <1>5 DEF Stop, Start, Die, At
<1> QED
  BY <1>1, <1>2, <1>3, <1>4, <1>5 DEF Steps

(* A process whose step leaves no overlap is alone at work.                   *)
LEMMA Alone ==
  ASSUME Processes, Kept, NEW p \in Procs, Steps(p) \/ Begin(p), ~overlap'
  PROVE  /\ Shelf /\ Knows(p)
         /\ \A q \in Procs \ {p} : At(q, "idle")
<1>1. CASE Steps(p)
  BY <1>1, StepsBusy DEF Kept, Solo
<1>2. CASE Begin(p)
  BY <1>2 DEF Begin, Kept
<1> QED
  BY <1>1, <1>2

(* An idle process has nothing to know.                                      *)
LEMMA IdleKnows ==
  ASSUME NEW p \in Procs, At(p, "idle")'
  PROVE  Knows(p)'
BY DEF At, Knows, Migrating, Adding, Using, Removing, Rewriting

(* So it is enough to look at that process and at the directory.              *)
LEMMA KeptByOne ==
  ASSUME Processes, Kept, NEW p \in Procs, Steps(p) \/ Begin(p),
         ~overlap' => Shelf' /\ Knows(p)'
  PROVE  Kept'
<1> SUFFICES ASSUME ~overlap' PROVE Solo' /\ \A q \in Procs : Knows(q)'
  BY DEF Kept
<1>1. ASSUME NEW q \in Procs \ {p} PROVE At(q, "idle")'
  BY <1>1, Alone, OthersStay DEF At
<1> QED
  BY <1>1, IdleKnows DEF Solo

(* The labels at which a process knows nothing of the directory.              *)
Ignorant == {"idle", "migLook", "addLook", "rmCheck", "regRead", "upList",
             "upRead", "dbgRead", "dbgStatus", "initResolve", "stop", "start"}

(* Nor has one at a label of no such knowledge.                              *)
LEMMA KnowsNothing ==
  ASSUME NEW p \in Procs, cli'[p].pc \in Ignorant
  PROVE  Knows(p)'
BY DEF Ignorant, At, Knows, Migrating, Adding, Using, Removing, Rewriting

(* Nor has one that ended.                                                   *)
LEMMA EndsIgnorant ==
  ASSUME Processes, NEW p \in Procs, End(p)
  PROVE  Knows(p)'
<1>1. cli'[p].pc = "idle"
  BY IdleType DEF Processes, End
<1> QED
  BY <1>1, KnowsNothing DEF Ignorant

(* Nor has one that went to such a label.                                    *)
LEMMA GoesIgnorant ==
  ASSUME Processes, NEW p \in Procs, NEW l \in Ignorant, Goto(p, l)
  PROVE  Knows(p)'
BY GoesTo, KnowsNothing

-----------------------------------------------------------------------------
(* What a step does to the directory.                                        *)

(* A step that touches no file leaves the directory as it should be.         *)
LEMMA ShelfStays ==
  ASSUME Shelf, UNCHANGED <<config, files, owed, ungated>>
  PROVE  Shelf'
BY DEF Shelf, Live, AllKept, NodeAt, Tested

(* A read is such a step.                                                    *)
LEMMA ShelfRead == Shelf /\ Read => Shelf'
BY ShelfStays DEF Read, disk, ghosts

(* A file is rewritten with another configuration of the same node.           *)
LEMMA ShelfRewritten ==
  ASSUME Directory, Shelf, NEW f \in Files, NEW c \in Content,
         files' = [files EXCEPT ![f] = c], config' = config,
         files[f] \in Content, c.node = files[f].node,
         UNCHANGED <<owed, ungated>>
  PROVE  Shelf'
<1>1. c # Broken /\ c # None
  BY NodesAssumption
<1>2. \A g \in Files : NodeAt(g)' = NodeAt(g)
  BY DEF Directory, NodeAt
<1>3. config # None => Live' \in Content /\ Live'.node = Live.node
  BY DEF Directory, Shelf, Live
<1>4. Tested(ungated, Live)'
  <2>1. CASE config = None
    BY <2>1, NodesAssumption DEF Tested, Live
  <2>2. CASE config # None
    BY <1>3, <2>2 DEF Shelf, Tested
  <2> QED
    BY <2>1, <2>2
<1>5. AllKept'
  BY <1>2 DEF Shelf, AllKept
<1>6. \A g \in Files : files'[g] # Broken
  BY <1>1 DEF Directory, Shelf
<1> QED
  BY <1>3, <1>4, <1>5, <1>6 DEF Shelf

(* A new configuration of a node, where there was none or one given up.       *)
LEMMA ShelfWritten ==
  ASSUME Directory, Shelf, NEW f \in Files, NEW c \in Content,
         WriteFile(f, c), f = Regular => config \in {None, Regular},
         owed' \subseteq owed \cup {c.node},
         \A n \in owed' : n = c.node \/ n \notin NodeAt(f),
         ungated \subseteq ungated',
         config' = f => Tested(ungated', c)
  PROVE  Shelf'
<1>1. c # Broken /\ c # None
  BY NodesAssumption
<1>2. files'[f] = c /\ \A g \in Files \ {f} : files'[g] = files[g]
  BY DEF WriteFile, Directory
<1>3. config' # None => Live' \in Content
  <2>1. CASE config' = f
    BY <1>2, <2>1, <1>1, NamesAssumption DEF Live, Directory
  <2>2. CASE config' # f
    BY <1>2, <2>2 DEF Live, Shelf, Directory, WriteFile
  <2> QED
    BY <2>1, <2>2
<1>4. Tested(ungated, Live)'
  <2>1. CASE config' = f
    BY <1>2, <2>1, NodesAssumption DEF Live, Tested
  <2>2. CASE config' # f
    <3>1. config' = config
      BY <2>2 DEF WriteFile
    <3>2. Live' = Live
      BY <1>2, <2>2, <3>1 DEF Live, Directory
    <3> QED
      BY <3>2 DEF Shelf, Tested
  <2> QED
    BY <2>1, <2>2
<1>5. AllKept'
  <2> SUFFICES ASSUME NEW n \in owed' PROVE \E g \in Files : (n \in NodeAt(g))'
    BY DEF AllKept
  <2>1. CASE n = c.node
    BY <1>2, <2>1 DEF NodeAt
  <2>2. CASE n # c.node
    <3>1. PICK g \in Files : n \in NodeAt(g)
      BY <2>2 DEF Shelf, AllKept
    <3>2. g # f
      BY <2>2, <3>1
    <3> QED
      BY <1>2, <3>1, <3>2 DEF NodeAt
  <2> QED
    BY <2>1, <2>2
<1>6. \A g \in Files : files'[g] # Broken
  BY <1>1, <1>2 DEF Shelf
<1> QED
  BY <1>3, <1>4, <1>5, <1>6 DEF Shelf

(* config.json leads to another configuration, and no file goes.              *)
LEMMA ShelfLinked ==
  ASSUME Directory, Shelf, NEW n \in Names, AtomicSymlink(n),
         config # Regular, files[n] \in Content, Tested(ungated, files[n]),
         UNCHANGED <<owed, ungated>>
  PROVE  Shelf'
<1>1. files' = files
  BY DEF Directory, AtomicSymlink
<1>2. config' = n /\ n # None
  BY NamesAssumption DEF AtomicSymlink
<1>3. Live' = files[n]
  BY <1>1, <1>2 DEF Live
<1> QED
  BY <1>1, <1>2, <1>3 DEF Shelf, Tested, AllKept, NodeAt

-----------------------------------------------------------------------------
(* One lemma per command.                                                    *)

(* The migration, cut anywhere, leaves the directory as it should be.        *)
LEMMA KeptMigrate ==
  ASSUME WellFormed, Shelf, NEW p \in Procs, Knows(p), Migrate(p)
  PROVE  Shelf' /\ Knows(p)'
<1>1. Directory /\ Processes
  BY Parts
<1>2. ASSUME Migrated(p), (config # Regular)' PROVE Knows(p)'
  <2>1. CASE NextLabel(p) = "idle"
    BY <1>1, <1>2, <2>1, EndsIgnorant DEF Migrated
  <2>2. CASE NextLabel(p) # "idle"
    <3>1. cli'[p].pc = NextLabel(p)
      BY <1>1, <1>2, <2>2, GoesTo DEF Migrated
    <3>2. CASE NextLabel(p) = "useLook"
      BY <1>2, <3>1, <3>2
         DEF At, Knows, Migrating, Adding, Using, Removing, Rewriting
    <3>3. CASE NextLabel(p) # "useLook"
      BY <3>1, <3>3, KnowsNothing DEF NextLabel, Ignorant
    <3> QED
      BY <3>2, <3>3
  <2> QED
    BY <2>1, <2>2
<1>3. CASE MigLook(p)
  <2>1. CASE config = Regular
    <3>1. cli'[p].pc = "migPrimary" /\ config' = Regular
      BY <1>1, <1>3, <2>1, GoesTo DEF MigLook, Read, disk
    <3>2. Knows(p)'
      BY <3>1 DEF At, Knows, Migrating, Adding, Using, Removing, Rewriting
    <3> QED
      BY <1>3, <3>2, ShelfRead DEF MigLook
  <2>2. CASE config # Regular
    BY <1>2, <1>3, <2>2, ShelfRead DEF MigLook, Read, disk
  <2> QED
    BY <2>1, <2>2
<1>4. CASE MigPrimary(p)
  <2>1. CASE files[Primary] = None
    <3>1. /\ cli'[p].pc = "migMove" /\ config' = Regular
          /\ files'[Primary] = None
      BY <1>1, <1>4, <2>1, GoesTo DEF MigPrimary, Read, disk, Knows, Migrating, At
    <3>2. Knows(p)'
      BY <3>1 DEF At, Knows, Migrating, Adding, Using, Removing, Rewriting
    <3> QED
      BY <1>4, <3>2, ShelfRead DEF MigPrimary
  <2>2. CASE files[Primary] # None
    BY <1>1, <1>4, <2>2, EndsIgnorant, ShelfRead DEF MigPrimary
  <2> QED
    BY <2>1, <2>2
<1>5. CASE MigMove(p)
  <2>1. CASE Live \notin Content
    BY <1>1, <1>5, <2>1, EndsIgnorant, ShelfRead DEF MigMove
  <2>2. CASE Live \in Content
    <3>1. config = Regular /\ files[Primary] = None
      BY <1>5 DEF MigMove, Knows, Migrating, At
    <3>2. Primary \in Files /\ Regular \in Files /\ Primary # Regular
      BY NamesAssumption DEF Files
    <3>3. Live = files[Regular]
      BY <3>1, NamesAssumption DEF Live
    <3>4. /\ config' = None /\ owed' = owed /\ ungated' = ungated
          /\ files'[Primary] = Live /\ files'[Regular] = None
          /\ \A f \in Files \ {Primary, Regular} : files'[f] = files[f]
      BY <1>1, <1>5, <2>2, <3>1, <3>2 DEF MigMove, Directory
    <3>5. Tested(ungated, files[Primary])'
      BY <3>4 DEF Shelf, Tested
    <3>6. Knows(p)'
      <4>1. cli'[p].pc = "migLink"
        BY <1>1, <1>5, <2>2, GoesTo DEF MigMove
      <4> QED
        BY <2>2, <3>4, <3>5, <4>1
           DEF At, Knows, Migrating, Adding, Using, Removing, Rewriting
    <3>7. AllKept'
      <4> SUFFICES ASSUME NEW n \in owed
                   PROVE  \E g \in Files : (n \in NodeAt(g))'
        BY <3>4 DEF AllKept
      <4>1. PICK f \in Files : n \in NodeAt(f)
        BY DEF Shelf, AllKept
      <4>2. CASE f = Regular
        BY <2>2, <3>2, <3>3, <3>4, <4>1, <4>2 DEF NodeAt
      <4>3. CASE f # Regular
        <5>1. f # Primary
          BY <3>1, <4>1, NodesAssumption DEF NodeAt
        <5> QED
          BY <3>4, <4>1, <4>3, <5>1 DEF NodeAt
      <4> QED
        BY <4>2, <4>3
    <3>8. Shelf'
      <4>1. Live' = None
        BY <3>4 DEF Live
      <4>2. Tested(ungated, Live)'
        BY <4>1, NodesAssumption DEF Tested
      <4>3. \A f \in Files : files'[f] # Broken
        BY <2>2, <3>4, NodesAssumption DEF Shelf
      <4> QED
        BY <3>4, <3>7, <4>2, <4>3 DEF Shelf
    <3> QED
      BY <3>6, <3>8
  <2> QED
    BY <2>1, <2>2
<1>6. CASE MigLink(p)
  <2>1. /\ config = None /\ files[Primary] \in Content
        /\ Tested(ungated, files[Primary])
    BY <1>6 DEF MigLink, Knows, Migrating
  <2>2. Shelf'
    BY <1>1, <1>6, <2>1, ShelfLinked, NamesAssumption DEF MigLink
  <2>3. config' # Regular
    BY <1>6, NamesAssumption DEF MigLink, AtomicSymlink
  <2> QED
    BY <1>2, <1>6, <2>2, <2>3 DEF MigLink
<1> QED
  BY <1>3, <1>4, <1>5, <1>6 DEF Migrate

(* An add replaces nothing unless forced to, nor the live one untested.      *)
LEMMA KeptAdd ==
  ASSUME WellFormed, Shelf, NEW p \in Procs, Knows(p), Add(p)
  PROVE  Shelf' /\ Knows(p)'
<1>1. /\ Directory /\ Processes /\ cli \in [Procs -> Process]
      /\ cli[p] \in Process /\ cli[p].name \in Names /\ cli[p].name \in Files
      /\ CarriesContent(p)
  BY Parts DEF Processes, Process, Files
<1> DEFINE c == cli[p]
(* What an add knows it still knows at its next label.                       *)
<1>2. ASSUME NEW l \in {"addBlind", "addStage", "addTest", "addCommit"},
             Goto(p, l), c.data.node = c.node, c.flag \/ files[c.name] = None,
             l = "addCommit" => c.node \notin BadNodes, files' = files
      PROVE  Knows(p)'
  <2>1. /\ cli'[p].pc = l /\ cli'[p].data = c.data /\ cli'[p].node = c.node
        /\ cli'[p].flag = c.flag /\ cli'[p].name = c.name
    BY <1>1, <1>2 DEF Goto, Process
  <2> QED
    BY <1>2, <2>1 DEF At, Knows, Migrating, Adding, Using, Removing, Rewriting
<1>3. ASSUME c.pc \in {"addReady", "addBlind", "addStage", "addTest", "addCommit"}
      PROVE  c.data.node = c.node /\ (c.flag \/ files[c.name] = None)
  BY <1>3 DEF Knows, Adding
<1>4. ASSUME AddWrite(p), ungated \subseteq ungated', c.data \in Content,
             c.data.node = c.node, c.flag \/ files[c.name] = None,
             config = c.name => Tested(ungated', c.data)
      PROVE  Shelf' /\ Knows(p)'
  <2>1. c.name # Regular
    BY <1>1, NamesAssumption
  <2>2. WriteFile(c.name, c.data) /\ config' = config
    BY <1>4, <2>1 DEF AddWrite, WriteFile
  <2>3. /\ owed' \subseteq owed \cup {c.node}
        /\ \A n \in owed' : n = c.node \/ n \notin NodeAt(c.name)
    BY <1>4, NodesAssumption DEF AddWrite, NodeAt
  <2>4. Shelf'
    BY <1>1, <1>4, <2>1, <2>2, <2>3, ShelfWritten
  <2> QED
    BY <1>1, <1>4, <2>4, EndsIgnorant DEF AddWrite
<1>5. CASE AddLook(p)
  <2>1. CASE files[c.name] \in Content /\ ~c.flag
    BY <1>1, <1>5, <2>1, EndsIgnorant, ShelfRead DEF AddLook
  <2>2. CASE ~(files[c.name] \in Content /\ ~c.flag)
    <3> DEFINE routing == IF config \in Names /\ Live \in Content
                          THEN Live.routing ELSE "default"
               d == [Fresh(c.node, TRUE) EXCEPT !.routing = routing]
    <3>1. cli' = [cli EXCEPT ![p].pc = "addReady", ![p].data = d]
      BY <1>5, <2>2 DEF AddLook
    <3>2. d.node = c.node
      BY DEF Fresh
    <3> HIDE DEF d
    <3>3. /\ cli'[p].pc = "addReady" /\ cli'[p].data = d
          /\ cli'[p].node = c.node /\ cli'[p].flag = c.flag
          /\ cli'[p].name = c.name
      BY <1>1, <3>1 DEF Process
    <3>4. files' = files /\ (c.flag \/ files[c.name] = None)
      BY <1>1, <1>5, <2>2 DEF AddLook, Read, disk, Directory, Shelf
    <3>5. Knows(p)'
      BY <3>2, <3>3, <3>4
         DEF At, Knows, Migrating, Adding, Using, Removing, Rewriting
    <3> QED
      BY <1>5, <3>5, ShelfRead DEF AddLook
  <2> QED
    BY <2>1, <2>2
<1>6. CASE AddReady(p)
  <2>1. Goto(p, "addStage") \/ Goto(p, "addBlind")
    BY <1>6 DEF AddReady
  <2>2. UNCHANGED <<config, files, owed, ungated>>
    BY <1>6 DEF AddReady, disk, ghosts
  <2>3. Knows(p)'
    BY <1>2, <1>3, <1>6, <2>1, <2>2 DEF AddReady, At
  <2> QED
    BY <2>2, <2>3, ShelfStays
<1>7. CASE AddBlind(p)
  <2> DEFINE u == [node |-> c.node, live |-> c.name = config]
  <2>1. c.pc = "addBlind" /\ AddWrite(p) /\ ungated' = ungated \cup {u}
    BY <1>7 DEF AddBlind, At
  <2>2. c.data \in Content /\ c.data.node = c.node
    BY <1>1, <1>3, <2>1 DEF CarriesContent, Carrying
  <2>3. config = c.name => Tested(ungated', c.data)
    <3>1. config = c.name => u = [node |-> c.node, live |-> TRUE]
      OBVIOUS
    <3> HIDE DEF u
    <3>2. cli[p].data.node = cli[p].node /\ u \in ungated'
      BY <2>1, <2>2
    <3> SUFFICES ASSUME config = c.name
                 PROVE [node |-> c.data.node, live |-> TRUE] \in ungated'
      BY DEF Tested
    <3> QED
      BY <3>1, <3>2
  <2> HIDE DEF u
  <2> QED
    BY <1>3, <1>4, <2>1, <2>2, <2>3
<1>8. CASE AddStage(p)
  <2>1. UNCHANGED <<config, files, owed, ungated>>
    BY <1>8 DEF AddStage, ghosts
  <2>2. Knows(p)'
    BY <1>2, <1>3, <1>8, <2>1 DEF AddStage, At
  <2> QED
    BY <2>1, <2>2, ShelfStays
<1>9. CASE AddTest(p)
  <2>1. UNCHANGED <<config, files, owed, ungated>>
    BY <1>9 DEF AddTest, ghosts
  <2>2. CASE End(p)
    BY <1>1, <2>1, <2>2, ShelfStays, EndsIgnorant
  <2>3. CASE ~End(p)
    <3>1. PICK ok \in XrayTest(c.data) : ok /\ Goto(p, "addCommit")
      BY <1>9, <2>3 DEF AddTest
    <3>2. XrayTest(c.data) \subseteq BOOLEAN
      BY DEF XrayTest, Accepted
    <3>3. Accepted(c.data)
      BY <3>1, <3>2, Zenon DEF XrayTest
    <3>4. c.data.node = c.node /\ (c.flag \/ files[c.name] = None)
      BY <1>3, <1>9 DEF AddTest, At
    <3>5. c.node \notin BadNodes
      BY <3>3, <3>4 DEF Accepted
    <3>6. Knows(p)'
      BY <1>2, <2>1, <3>1, <3>4, <3>5
    <3> QED
      BY <2>1, <3>6, ShelfStays
  <2> QED
    BY <2>2, <2>3
<1>10. CASE AddCommit(p)
  <2>1. /\ c.data \in Content /\ c.data.node = c.node
        /\ c.flag \/ files[c.name] = None
        /\ c.node \notin BadNodes /\ ungated' = ungated
    BY <1>1, <1>3, <1>10
       DEF AddCommit, At, CarriesContent, Carrying, Knows, Adding
  <2>2. CASE Stage(p) \in stages
    BY <1>4, <1>10, <2>1, <2>2 DEF AddCommit, Tested
  <2>3. CASE Stage(p) \notin stages
    BY <1>1, <1>10, <2>1, <2>3, ShelfStays, EndsIgnorant DEF AddCommit
  <2> QED
    BY <2>2, <2>3
<1> QED
  BY <1>5, <1>6, <1>7, <1>8, <1>9, <1>10 DEF Add

(* A use leads config.json to a profile that is there and passed the test.   *)
LEMMA KeptUse ==
  ASSUME WellFormed, Shelf, NEW p \in Procs, Knows(p), Use(p)
  PROVE  Shelf' /\ Knows(p)'
<1>1. /\ Directory /\ Processes /\ cli \in [Procs -> Process]
      /\ cli[p].name \in Names
  BY Parts DEF Processes, Process
<1> DEFINE n == cli[p].name
<1>2. ASSUME NEW l \in {"useTest", "useSwap"}, Goto(p, l), Read,
             config # Regular, files[n] \in Content,
             l = "useSwap" => files[n].node \notin BadNodes
      PROVE  Shelf' /\ Knows(p)'
  <2>1. /\ cli'[p].pc = l /\ cli'[p].name = n
        /\ config' = config /\ files' = files
    BY <1>1, <1>2 DEF Goto, Process, Read, disk
  <2>2. Knows(p)'
    BY <1>2, <2>1 DEF At, Knows, Migrating, Adding, Using, Removing, Rewriting
  <2> QED
    BY <1>2, <2>2, ShelfRead
<1>3. CASE UseLook(p)
  <2>1. CASE End(p)
    BY <1>1, <1>3, <2>1, EndsIgnorant, ShelfRead DEF UseLook
  <2>2. CASE ~End(p)
    BY <1>2, <1>3, <2>2 DEF UseLook, Knows, Using, At
  <2> QED
    BY <2>1, <2>2
<1>4. CASE UseTest(p)
  <2>1. CASE End(p)
    BY <1>1, <1>4, <2>1, EndsIgnorant, ShelfRead DEF UseTest
  <2>2. CASE ~End(p)
    <3>1. PICK ok \in XrayTest(files[n]) : ok /\ Goto(p, "useSwap")
      BY <1>4, <2>2 DEF UseTest
    <3>2. XrayTest(files[n]) \subseteq BOOLEAN
      BY DEF XrayTest, Accepted
    <3>3. Accepted(files[n])
      BY <3>1, <3>2, Zenon DEF XrayTest
    <3> QED
      BY <1>2, <1>4, <3>1, <3>3 DEF UseTest, Knows, Using, At, Accepted
  <2> QED
    BY <2>1, <2>2
<1>5. CASE UseSwap(p)
  <2>1. /\ config # Regular /\ files[n] \in Content
        /\ files[n].node \notin BadNodes
    BY <1>5 DEF UseSwap, Knows, Using, At
  <2>2. Shelf'
    BY <1>1, <1>5, <2>1, ShelfLinked DEF UseSwap, Tested
  <2> QED
    BY <1>1, <1>5, <2>2, EndsIgnorant, GoesIgnorant DEF UseSwap, Ignorant
<1> QED
  BY <1>3, <1>4, <1>5 DEF Use

(* A rm removes a profile that config.json does not lead to.                 *)
LEMMA KeptRm ==
  ASSUME WellFormed, Shelf, NEW p \in Procs, Knows(p), Rm(p)
  PROVE  Shelf' /\ Knows(p)'
<1>1. /\ Directory /\ Processes /\ cli \in [Procs -> Process]
      /\ cli[p].name \in Names /\ cli[p].name \in Files
  BY Parts DEF Processes, Process, Files
<1> DEFINE n == cli[p].name
<1>2. ASSUME NEW l \in {"rmAgain", "rmRemove"}, Goto(p, l), Read, config # n
      PROVE  Shelf' /\ Knows(p)'
  <2>1. cli'[p].pc = l /\ cli'[p].name = n /\ config' = config
    BY <1>1, <1>2 DEF Goto, Process, Read, disk
  <2>2. Knows(p)'
    BY <1>2, <2>1 DEF At, Knows, Migrating, Adding, Using, Removing, Rewriting
  <2> QED
    BY <1>2, <2>2, ShelfRead
<1>3. CASE RmCheck(p)
  BY <1>1, <1>2, <1>3, EndsIgnorant, ShelfRead DEF RmCheck, Removable
<1>4. CASE RmAgain(p)
  BY <1>1, <1>2, <1>4, EndsIgnorant, ShelfRead DEF RmAgain, Removable
<1>5. CASE RmRemove(p)
  <2>1. config # n
    BY <1>5 DEF RmRemove, Knows, Removing, At
  <2>2. /\ config' = config /\ ungated' = ungated /\ owed' = owed \ NodeAt(n)
        /\ files' = [files EXCEPT ![n] = None]
    BY <1>5 DEF RmRemove
  <2>3. Live' = Live
    BY <1>1, <2>1, <2>2 DEF Live, Directory
  <2>4. AllKept'
    <3> SUFFICES ASSUME NEW m \in owed'
                 PROVE  \E g \in Files : (m \in NodeAt(g))'
      BY DEF AllKept
    <3>1. PICK g \in Files : m \in NodeAt(g)
      BY <2>2 DEF Shelf, AllKept
    <3>2. g # n
      BY <2>2, <3>1
    <3> QED
      BY <1>1, <2>2, <3>1, <3>2 DEF NodeAt, Directory
  <2>5. \A f \in Files : files'[f] # Broken
    BY <1>1, <2>2, NodesAssumption DEF Shelf, Directory
  <2>6. Shelf'
    BY <2>2, <2>3, <2>4, <2>5 DEF Shelf, Tested
  <2> QED
    BY <1>1, <1>5, <2>6, EndsIgnorant DEF RmRemove
<1> QED
  BY <1>3, <1>4, <1>5 DEF Rm

(* A regenerate rewrites the profile it read, with the same node.            *)
LEMMA KeptRegenerate ==
  ASSUME WellFormed, Shelf, NEW p \in Procs, Knows(p), Regenerate(p)
  PROVE  Shelf' /\ Knows(p)'
<1>1. /\ Directory /\ Processes /\ cli \in [Procs -> Process]
      /\ cli[p].name \in Names /\ cli[p].name \in Files /\ CarriesContent(p)
  BY Parts DEF Processes, Process, Files
<1> DEFINE n == cli[p].name
<1>2. CASE RegRead(p)
  <2>1. CASE End(p)
    BY <1>1, <1>2, <2>1, EndsIgnorant, ShelfRead DEF RegRead
  <2>2. CASE ~End(p)
    <3> DEFINE d == [files[n] EXCEPT !.routing = Live.routing]
    <3>1. /\ files[n] \in Content
          /\ cli' = [cli EXCEPT ![p].pc = "regWrite", ![p].data = d]
      BY <1>2, <2>2 DEF RegRead
    <3>2. d.node = files[n].node
      BY <3>1 DEF Content
    <3> HIDE DEF d
    <3>3. /\ cli'[p].pc = "regWrite" /\ cli'[p].data = d /\ cli'[p].name = n
          /\ files' = files
      BY <1>1, <1>2, <3>1 DEF Process, RegRead, Read, disk
    <3>4. Knows(p)'
      BY <3>1, <3>2, <3>3
         DEF At, Knows, Migrating, Adding, Using, Removing, Rewriting, Rewrites
    <3> QED
      BY <1>2, <3>4, ShelfRead DEF RegRead
  <2> QED
    BY <2>1, <2>2
<1>3. CASE RegWrite(p)
  <2>1. Rewrites(p, n) /\ cli[p].data \in Content
    BY <1>1, <1>3 DEF RegWrite, Knows, Rewriting, At, CarriesContent, Carrying
  <2>2. n # Regular
    BY <1>1, NamesAssumption
  <2>3. Shelf'
    BY <1>1, <1>3, <2>1, <2>2, ShelfRewritten DEF RegWrite, WriteFile, Rewrites
  <2> QED
    BY <1>1, <1>3, <2>3, EndsIgnorant DEF RegWrite
<1> QED
  BY <1>2, <1>3 DEF Regenerate

(* So does an upgrade, one profile after the other.                          *)
LEMMA KeptUpgrade ==
  ASSUME WellFormed, Shelf, NEW p \in Procs, Knows(p), Upgrade(p)
  PROVE  Shelf' /\ Knows(p)'
<1>1. /\ Directory /\ Processes /\ cli \in [Procs -> Process]
      /\ cli[p].todo \subseteq Names /\ CarriesContent(p)
  BY Parts DEF Processes, Process
<1>2. CASE UpList(p)
  <2>1. cli'[p].pc = "upRead"
    BY <1>1, <1>2 DEF UpList, Process
  <2> QED
    BY <1>2, <2>1, KnowsNothing, ShelfRead DEF UpList, Ignorant
<1>3. CASE UpRead(p)
  <2>1. CASE End(p)
    BY <1>1, <1>3, <2>1, EndsIgnorant, ShelfRead DEF UpRead
  <2>2. CASE ~End(p)
    <3>1. PICK n \in cli[p].todo :
            /\ files[n] \in Content
            /\ cli' = [cli EXCEPT ![p] =
                         IF files[n].tproxy
                         THEN [cli[p] EXCEPT !.todo = @ \ {n}]
                         ELSE [[cli[p] EXCEPT !.todo = @ \ {n}] EXCEPT
                                 !.pc = "upWrite", !.path = n,
                                 !.data = [files[n] EXCEPT !.tproxy = TRUE]]]
      BY <1>3, <2>2 DEF UpRead
    <3> DEFINE d == [files[n] EXCEPT !.tproxy = TRUE]
               t == cli[p].todo \ {n}
               e == [[cli[p] EXCEPT !.todo = t] EXCEPT
                       !.pc = "upWrite", !.path = n, !.data = d]
    <3>2. d.node = files[n].node
      BY <3>1 DEF Content
    <3>3. CASE files[n].tproxy
      <4>1. cli'[p].pc = cli[p].pc
        BY <1>1, <3>1, <3>3 DEF Process
      <4> QED
        BY <1>3, <4>1, KnowsNothing, ShelfRead DEF UpRead, At, Ignorant
    <3>4. CASE ~files[n].tproxy
      <4>1. cli'[p] = e
        BY <1>1, <3>1, <3>4
      <4> HIDE DEF d
      <4>2. e.pc = "upWrite" /\ e.path = n /\ e.data = d
        BY <1>1 DEF Process
      <4> HIDE DEF e
      <4>3. files' = files
        BY <1>3 DEF UpRead, Read, disk
      <4>4. Knows(p)'
        BY <3>1, <3>2, <4>1, <4>2, <4>3
           DEF At, Knows, Migrating, Adding, Using, Removing, Rewriting, Rewrites
      <4> QED
        BY <1>3, <4>4, ShelfRead DEF UpRead
    <3> QED
      BY <3>3, <3>4
  <2> QED
    BY <2>1, <2>2
<1>4. CASE UpWrite(p)
  <2> DEFINE f == cli[p].path
  <2>1. /\ Rewrites(p, f) /\ cli[p].data \in Content
        /\ f \in Names /\ f \in Files /\ f # Regular
    BY <1>1, <1>4, NamesAssumption
       DEF UpWrite, Knows, Rewriting, At, CarriesContent, Carrying, Files
  <2>2. Shelf'
    BY <1>1, <1>4, <2>1, ShelfRewritten DEF UpWrite, WriteFile, Rewrites
  <2>3. cli'[p].pc = "upRead"
    BY <1>1, <1>4 DEF UpWrite, Process
  <2> QED
    BY <2>2, <2>3, KnowsNothing DEF Ignorant
<1> QED
  BY <1>2, <1>3, <1>4 DEF Upgrade

(* So does `debug`, with the active configuration.                           *)
LEMMA KeptDebug ==
  ASSUME WellFormed, Shelf, NEW p \in Procs, Knows(p), Debug(p)
  PROVE  Shelf' /\ Knows(p)'
<1>1. /\ Directory /\ Processes /\ cli \in [Procs -> Process]
      /\ cli[p].path \in Files /\ CarriesContent(p)
  BY Parts DEF Processes, Process
<1>2. CASE DbgRead(p)
  <2>1. CASE Live \notin Content
    BY <1>1, <1>2, <2>1, EndsIgnorant, ShelfRead DEF DbgRead
  <2>2. CASE Live \in Content
    <3> DEFINE level == IF cli[p].flag THEN "debug" ELSE "warning"
               d == [Live EXCEPT !.log = level]
    <3>1. cli' = [cli EXCEPT ![p].pc = "dbgWrite", ![p].path = config,
                             ![p].data = d]
      BY <1>2, <2>2 DEF DbgRead
    <3>2. d.node = Live.node
      BY <2>2 DEF Content
    <3> HIDE DEF d
    <3>3. Live = files[config]
      BY <2>2, NodesAssumption DEF Live
    <3>4. /\ cli'[p].pc = "dbgWrite" /\ cli'[p].data = d
          /\ cli'[p].path = config /\ files' = files /\ config' = config
      BY <1>1, <1>2, <3>1 DEF Process, DbgRead, Read, disk
    <3>5. Knows(p)'
      BY <2>2, <3>2, <3>3, <3>4
         DEF At, Knows, Migrating, Adding, Using, Removing, Rewriting, Rewrites
    <3> QED
      BY <1>2, <3>5, ShelfRead DEF DbgRead
  <2> QED
    BY <2>1, <2>2
<1>3. CASE DbgWrite(p)
  <2> DEFINE f == cli[p].path
  <2>1. /\ Rewrites(p, f) /\ cli[p].data \in Content /\ f = config
    BY <1>1, <1>3 DEF DbgWrite, Knows, Rewriting, At, CarriesContent, Carrying
  <2>2. /\ files' = [files EXCEPT ![f] = cli[p].data] /\ config' = config
        /\ owed' = owed /\ ungated' = ungated
    BY <1>3, <2>1 DEF DbgWrite, WriteFile, ghosts
  <2>3. Shelf'
    BY <1>1, <2>1, <2>2, ShelfRewritten DEF Rewrites
  <2> QED
    BY <1>1, <1>3, <2>3, GoesIgnorant DEF DbgWrite, Ignorant
<1>4. CASE DbgStatus(p)
  <2>1. UNCHANGED <<config, files, owed, ungated>>
    BY <1>4 DEF DbgStatus, disk
  <2> QED
    BY <1>1, <1>4, <2>1, ShelfStays, EndsIgnorant, GoesIgnorant
       DEF DbgStatus, Ignorant
<1> QED
  BY <1>2, <1>3, <1>4 DEF Debug

(* An init writes where config.json leads, and says so.                      *)
LEMMA KeptInit ==
  ASSUME WellFormed, Shelf, NEW p \in Procs, Knows(p), InitCmd(p)
  PROVE  Shelf' /\ Knows(p)'
<1>1. /\ Directory /\ Processes /\ cli \in [Procs -> Process]
      /\ cli[p].path \in Files /\ cli[p].node \in Nodes
  BY Parts DEF Processes, Process
<1>2. CASE InitResolve(p)
  <2>1. CASE End(p)
    BY <1>1, <1>2, <2>1, EndsIgnorant, ShelfRead DEF InitResolve
  <2>2. CASE ~End(p)
    <3> DEFINE f == IF config = None THEN Regular ELSE config
    <3>1. cli' = [cli EXCEPT ![p].pc = "initWrite", ![p].path = f]
      BY <1>2, <2>2 DEF InitResolve
    <3>2. config' = config
      BY <1>2 DEF InitResolve, Read, disk
    <3>3. f' = f
      BY <3>2
    <3> HIDE DEF f
    <3>4. cli'[p].pc = "initWrite" /\ cli'[p].path = f
      BY <1>1, <3>1 DEF Process
    <3>5. cli'[p].path = IF config' = None THEN Regular ELSE config'
      BY <3>2, <3>4 DEF f
    <3>6. Knows(p)'
      BY <3>4, <3>5 DEF At, Knows, Migrating, Adding, Using, Removing, Rewriting
    <3> QED
      BY <1>2, <3>6, ShelfRead DEF InitResolve
  <2> QED
    BY <2>1, <2>2
<1>3. CASE InitWrite(p)
  <2> DEFINE f == cli[p].path
             n == cli[p].node
             c == Fresh(n, TRUE)
             u == [node |-> n, live |-> f = config']
  <2>1. f = IF config = None THEN Regular ELSE config
    BY <1>3 DEF InitWrite, Knows, Rewriting, At
  <2>2. c \in Content /\ c.node = n
    BY <1>1, FreshType DEF Fresh
  <2>3. /\ WriteFile(f, c) /\ ungated' = ungated \cup {u}
        /\ owed' = (owed \ NodeAt(f)) \cup {n}
    BY <1>3 DEF InitWrite
  <2>4. config' = f => u = [node |-> n, live |-> TRUE]
    OBVIOUS
  <2>5. u \in ungated'
    BY <2>3
  <2> HIDE DEF u, c
  <2>6. config' = f => Tested(ungated', c)
    BY <2>2, <2>4, <2>5 DEF Tested
  <2>7. f = Regular => config \in {None, Regular}
    BY <2>1
  <2>8. Shelf'
    BY <1>1, <2>2, <2>3, <2>6, <2>7, ShelfWritten
  <2> QED
    BY <1>1, <1>3, <2>8, EndsIgnorant DEF InitWrite
<1> QED
  BY <1>2, <1>3 DEF InitCmd

(* A start, the halves of a restart and a death touch no file.               *)
LEMMA KeptOther ==
  ASSUME WellFormed, Shelf, NEW p \in Procs,
         Begin(p) \/ Stop(p) \/ Start(p) \/ Die(p)
  PROVE  Shelf' /\ Knows(p)'
<1>1. Processes /\ cli \in [Procs -> Process]
  BY Parts DEF Processes
<1>2. UNCHANGED <<config, files, owed, ungated>>
  BY DEF Begin, Stop, Start, Die, disk, ghosts
<1>3. CASE Begin(p)
  <2>1. PICK op \in Ops, name \in Names, node \in Nodes, flag \in BOOLEAN :
          /\ Takes(op, name, node, flag)
          /\ cli' = [cli EXCEPT ![p] = [Idle EXCEPT !.op = op, !.name = name,
                                        !.pc = FirstLabel(op), !.node = node,
                                        !.flag = flag]]
    BY Zenon, <1>3 DEF Begin
  <2> DEFINE l == FirstLabel(op)
  <2>2. l \in Ignorant
    BY OpsAssumption DEF FirstLabel, AllOps, ProfileOps, Ignorant
  <2> HIDE DEF l
  <2>3. cli'[p].pc = l
    BY <1>1, <2>1 DEF Idle, l
  <2> QED
    BY <1>2, <2>2, <2>3, KnowsNothing, ShelfStays
<1>4. CASE ~Begin(p)
  BY <1>1, <1>2, <1>4, ShelfStays, EndsIgnorant, GoesIgnorant
     DEF Stop, Start, Die, Ignorant
<1> QED
  BY <1>3, <1>4

-----------------------------------------------------------------------------

(* An edit by hand changes no node, so that what a process knows stays true.  *)
LEMMA KeptSurroundings ==
  ASSUME WellFormed, Kept, Respawn \/ EditRouting \/ UNCHANGED vars
  PROVE  Kept'
<1> SUFFICES ASSUME ~overlap' PROVE Kept'
  BY DEF Kept
<1>1. Directory /\ Processes /\ cli \in [Procs -> Process]
  BY Parts DEF Processes
<1>2. /\ cli' = cli /\ config' = config /\ owed' = owed /\ ungated' = ungated
      /\ overlap' = overlap
  BY DEF Respawn, EditRouting, vars, disk, ghosts
<1>3. Shelf /\ Solo /\ \A p \in Procs : Knows(p)
  BY <1>2 DEF Kept
<1>4. Solo'
  BY <1>2, <1>3 DEF Solo, At
<1>5. CASE EditRouting
  <2>1. PICK f \in Files : /\ files[f] \in Content
                           /\ files' = [files EXCEPT ![f].routing = "custom"]
    BY <1>5 DEF EditRouting
  <2> DEFINE d == [files[f] EXCEPT !.routing = "custom"]
  <2>2. /\ d \in Content /\ d.node = files[f].node
        /\ files' = [files EXCEPT ![f] = d]
    BY <1>1, <2>1 DEF Content, Directory
  <2> HIDE DEF d
  <2>3. Shelf'
    BY <1>1, <1>2, <1>3, <2>1, <2>2, ShelfRewritten
  <2>4. \A g \in Files : /\ files'[g] = None <=> files[g] = None
                         /\ files'[g] \in Content <=> files[g] \in Content
                         /\ files[g] \in Content => files'[g].node = files[g].node
    BY <1>1, <2>1, <2>2, NodesAssumption DEF Directory
  <2>5. ASSUME NEW p \in Procs PROVE Knows(p)'
    <3>1. /\ Primary \in Files /\ cli[p].name \in Files /\ cli[p].path \in Files
      BY <1>1, NamesAssumption DEF Process, Files
    <3>2. Migrating(p)'
      BY <1>2, <1>3, <2>4, <3>1 DEF Knows, Migrating, At, Tested
    <3>3. Adding(p)'
      BY <1>2, <1>3, <2>4, <3>1 DEF Knows, Adding, At
    <3>4. Using(p)' /\ Removing(p)'
      BY <1>2, <1>3, <2>4, <3>1 DEF Knows, Using, Removing, At
    <3>5. Rewriting(p)'
      BY <1>2, <1>3, <2>4, <3>1 DEF Knows, Rewriting, Rewrites, At
    <3> QED
      BY <3>2, <3>3, <3>4, <3>5 DEF Knows
  <2> QED
    BY <1>4, <2>3, <2>5 DEF Kept
<1>6. CASE ~EditRouting
  <2>1. files' = files
    BY <1>6 DEF Respawn, vars, disk
  <2>2. Shelf'
    BY <1>2, <1>3, <2>1, ShelfStays
  <2>3. \A p \in Procs : Knows(p)'
    BY <1>2, <1>3, <2>1
       DEF At, Knows, Migrating, Adding, Using, Removing, Rewriting, Rewrites,
           Tested
  <2> QED
    BY <1>4, <2>2, <2>3 DEF Kept
<1> QED
  BY <1>5, <1>6

(* At first the directory is as it should be.                                *)
LEMMA InitKept == Init => Kept
<1> SUFFICES ASSUME Init PROVE Kept
  OBVIOUS
<1>1. \A p \in Procs : cli[p].pc = "idle"
  BY IdleType DEF Init
<1>2. Solo /\ \A p \in Procs : Knows(p)
  BY <1>1 DEF Solo, At, Knows, Migrating, Adding, Using, Removing, Rewriting
<1>3. Shelf
  <2> DEFINE start(s) == CASE s = "fresh" -> None
                          [] s = "legacy" -> Regular
                          [] s = "migrated" -> Primary
  <2>1. PICK s \in Starts, n \in Nodes \ BadNodes :
          /\ config = start(s)
          /\ files = [f \in Files |->
                        IF f = start(s) THEN Fresh(n, s = "migrated") ELSE None]
          /\ owed = IF start(s) = None THEN {} ELSE {n}
    BY Zenon DEF Init
  <2> DEFINE at == start(s)
             c  == Fresh(n, s = "migrated")
  <2>2. at \in {None, Regular, Primary}
    BY StartsAssumption
  <2>3. c \in Content /\ c.node = n
    BY FreshType DEF Fresh
  <2>4. /\ config = at /\ files = [f \in Files |-> IF f = at THEN c ELSE None]
        /\ owed = IF at = None THEN {} ELSE {n}
    BY <2>1
  <2> HIDE DEF at, c
  <2>5. at # None => at \in Files
    BY <2>2, NamesAssumption DEF Files
  <2>6. Live = IF at = None THEN None ELSE c
    BY <2>4, <2>5 DEF Live
  <2>7. \A f \in Files : files[f] # Broken
    BY <2>3, <2>4, NodesAssumption
  <2>8. AllKept
    BY <2>3, <2>4, <2>5 DEF AllKept, NodeAt
  <2>9. Tested(ungated, Live)
    BY <2>3, <2>6, NodesAssumption DEF Tested
  <2> QED
    BY <2>3, <2>4, <2>6, <2>7, <2>8, <2>9 DEF Shelf
<1> QED
  BY <1>2, <1>3 DEF Kept

(* Every step leaves it so.                                                  *)
LEMMA NextKept == WellFormed /\ Kept /\ [Next]_vars => Kept'
<1> SUFFICES ASSUME WellFormed, Kept, [Next]_vars PROVE Kept'
  OBVIOUS
<1>1. Processes
  BY Parts
<1>2. ASSUME NEW p \in Procs, Steps(p) \/ Begin(p) PROVE Kept'
  <2>1. ASSUME ~overlap' PROVE Shelf' /\ Knows(p)'
    <3>1. Shelf /\ Knows(p)
      BY <1>1, <1>2, <2>1, Alone
    <3> QED
      BY <1>2, <3>1, KeptMigrate, KeptAdd, KeptUse, KeptRm, KeptRegenerate,
         KeptUpgrade, KeptDebug, KeptInit, KeptOther DEF Steps
  <2> QED
    BY <1>1, <1>2, <2>1, KeptByOne
<1> QED
  BY <1>2, KeptSurroundings DEF Next, Finished, Steps

(* So it always is, one command at a time.                                   *)
LEMMA AlwaysKept == Spec => []Kept
<1>1. Init => WellFormed /\ Kept
  BY InitWellFormed, InitKept
<1>2. WellFormed /\ Kept /\ [Next]_vars => (WellFormed /\ Kept)'
  BY NextWellFormed, NextKept
<1> QED
  BY <1>1, <1>2, PTL DEF Spec

(***************************************************************************)
(* config.json never leads nowhere: with one command at a time, wherever it   *)
(* is killed, whatever was edited meanwhile.                                 *)
(***************************************************************************)
THEOREM LinkAlwaysResolves == Spec => []LinkResolves
<1>1. Kept => LinkResolves
  BY NamesAssumption DEF Kept, Shelf, LinkResolves
<1> QED
  BY <1>1, AlwaysKept, PTL

(***************************************************************************)
(* No command but the ones asked to loses the configuration of a node, the    *)
(* migration of an old directory included, wherever it is killed.            *)
(***************************************************************************)
THEOREM NodesNeverLost == Spec => []NothingLost
<1>1. Kept => NothingLost
  BY DEF Kept, Shelf, NothingLost
<1> QED
  BY <1>1, AlwaysKept, PTL

(***************************************************************************)
(* A configuration that xray rejects is live only if a command wrote it over  *)
(* the live one untested: `use` never leads config.json to it.               *)
(***************************************************************************)
THEOREM OnlyTestedAlwaysLive == Spec => []OnlyTestedGoesLive
<1>1. Kept => OnlyTestedGoesLive
  BY DEF Kept, Shelf, Tested, OnlyTestedGoesLive
<1> QED
  BY <1>1, AlwaysKept, PTL

-----------------------------------------------------------------------------
(* Stages do not pile up.                                                    *)

(* Only an add stages a file, and it sweeps the others of its name first.     *)
OnePerName == \A s, t \in stages : s.name = t.name => s = t

(* No step stages a second file of a name.                                   *)
LEMMA NextOnePerName == OnePerName /\ [Next]_vars => OnePerName'
<1> SUFFICES ASSUME OnePerName, [Next]_vars PROVE OnePerName'
  OBVIOUS
<1>1. ASSUME stages' \subseteq stages PROVE OnePerName'
  BY <1>1 DEF OnePerName
<1>2. ASSUME NEW p \in Procs, AddStage(p) PROVE OnePerName'
  BY <1>2 DEF AddStage, OnePerName
<1>3. ASSUME NEW p \in Procs, Add(p), ~AddStage(p) PROVE stages' \subseteq stages
  BY <1>3 DEF Add, AddLook, AddReady, AddBlind, AddTest, AddCommit, Read, disk
<1>4. ASSUME NEW p \in Procs, Steps(p), ~Add(p) PROVE stages' = stages
  BY <1>4 DEF Steps, Migrate, MigLook, MigPrimary, MigMove, MigLink, Use, UseLook,
              UseTest, UseSwap, Rm, RmCheck, RmAgain, RmRemove, Regenerate,
              RegRead, RegWrite, Upgrade, UpList, UpRead, UpWrite, Debug, DbgRead,
              DbgWrite, DbgStatus, InitCmd, InitResolve, InitWrite, Stop, Start,
              Die, Read, disk
<1>5. ASSUME (\E p \in Procs : Begin(p)) \/ Respawn \/ EditRouting \/ UNCHANGED vars
      PROVE  stages' = stages
  BY <1>5 DEF Begin, Respawn, EditRouting, vars, disk
<1> QED
  BY <1>1, <1>2, <1>3, <1>4, <1>5 DEF Next, Finished, Steps

(***************************************************************************)
(* There is at most one staged file of each name, however often an add is     *)
(* killed between staging it and committing it.                              *)
(***************************************************************************)
THEOREM DebrisAlwaysBounded == Spec => []DebrisBounded
<1>1. Init => OnePerName
  BY DEF Init, OnePerName
<1>2. OnePerName => DebrisBounded
  BY DEF OnePerName, DebrisBounded
<1> QED
  BY <1>1, <1>2, NextOnePerName, PTL DEF Spec

=============================================================================
