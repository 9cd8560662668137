---------------------------- MODULE WorkspacesProofs ----------------------------
(***************************************************************************)
(* Proofs about Workspaces, for every set of shells and every number of     *)
(* commands they run.                                                       *)
(***************************************************************************)
EXTENDS Workspaces, TLAPS

(* The state is records and functions: which fields they have.               *)
ShellFields == {"op", "pc", "proxy", "todo"}
PastFields  == {"cmds", "made", "crossed", "debris", "warned", "raced"}

Laid == /\ shell = [p \in WsProcs |-> shell[p]]
        /\ \A p \in WsProcs : shell[p] = [f \in ShellFields |-> shell[p][f]]
        /\ dir = [f \in {"there", "files"} |-> dir[f]]
        /\ dir.files = [f \in Files |-> dir.files[f]]
        /\ past = [f \in PastFields |-> past[f]]

(***************************************************************************)
(* What a shell still has to do: the files a new has left to copy, or the   *)
(* steps of the other commands; only a delete has the directory to remove.  *)
(***************************************************************************)
CopyLeft  == {CopyOrder, <<"Dockerfile", "mise.toml">>, <<"mise.toml">>, <<>>}
StepsLeft == {<<"halt">>, <<"up">>, <<"halt", "up">>, DeleteSteps, <<"remove">>, <<>>}

Plan(p) ==
  /\ shell[p].pc \in {"mkdir", "copy", "patch", "undo"} => shell[p].op = "new"
  /\ shell[p].pc = "mkdir" => shell[p].todo = CopyOrder
  /\ shell[p].pc = "copy" => shell[p].todo \in CopyLeft
  /\ shell[p].pc = "patch" => shell[p].todo = <<>>
  /\ shell[p].pc \in {"check", "list"} => shell[p].todo = <<"up">>
  /\ shell[p].pc = "ask" /\ shell[p].op = "delete" => shell[p].todo = DeleteSteps
  /\ shell[p].pc = "steps" => shell[p].todo \in StepsLeft

Planned == \A p \in WsProcs : Plan(p)

(* The needed files that a new has left behind it are there.                 *)
Behind(p) ==
  /\ shell[p].todo # CopyOrder => dir.files["devcontainer.json"] # "none"
  /\ shell[p].todo \notin {CopyOrder, <<"Dockerfile", "mise.toml">>} =>
       dir.files["Dockerfile"] # "none"

(***************************************************************************)
(* Unless a delete crossed a new: at most one new is making the directory,  *)
(* which is there while it does; once it was reported there is none; and    *)
(* what is done of the copying is done.                                     *)
(***************************************************************************)
Accounted ==
  ~past.crossed =>
    /\ \A p, q \in WsProcs : Making(p) /\ Making(q) => p = q
    /\ \A p \in WsProcs : Making(p) => dir.there /\ ~past.made
    /\ \A p \in WsProcs : Making(p) /\ shell[p].pc # "undo" => Behind(p)

(***************************************************************************)
(* Whoever is about to remove the directory, a delete that has dealt with   *)
(* devpod or a new that may fail, finds no entry, or one that was warned    *)
(* about or raced.                                                          *)
(***************************************************************************)
Excused == past.warned \/ past.raced

Deleting(p) == shell[p].pc = "steps" /\ shell[p].todo = <<"remove">>

Entry == /\ \A p \in WsProcs : (Deleting(p) \/ Making(p)) /\ devpod # "none" => Excused
         /\ OrphanOnlyWarned

-----------------------------------------------------------------------------
(* What is left of a command.                                                *)

(* The next file of a new, and what it leaves.                               *)
LEMMA CopyNext ==
  ASSUME NEW todo \in CopyLeft, todo # <<>>
  PROVE  /\ Head(todo) \in Files /\ Tail(todo) \in CopyLeft /\ Tail(todo) # CopyOrder
         /\ todo = CopyOrder =>
              Head(todo) = "devcontainer.json" /\ Tail(todo) = <<"Dockerfile", "mise.toml">>
         /\ todo = <<"Dockerfile", "mise.toml">> => Head(todo) = "Dockerfile"
         /\ todo \notin {CopyOrder, <<"Dockerfile", "mise.toml">>} => Head(todo) = "mise.toml"
         /\ Tail(todo) \notin {CopyOrder, <<"Dockerfile", "mise.toml">>} => todo # CopyOrder
<1> USE DEF CopyLeft, CopyOrder, Files
<1>1. CASE todo = <<"devcontainer.json", "Dockerfile", "mise.toml">>
  <2>1. Head(todo) = "devcontainer.json" /\ Tail(todo) = <<"Dockerfile", "mise.toml">>
    BY <1>1
  <2>2. Len(Tail(todo)) = 2 /\ Len(todo) = 3
    BY <1>1, <2>1
  <2> QED BY <1>1, <2>1, <2>2
<1>2. CASE todo = <<"Dockerfile", "mise.toml">>
  <2>1. Head(todo) = "Dockerfile" /\ Tail(todo) = <<"mise.toml">>
    BY <1>2
  <2>2. Len(Tail(todo)) = 1 /\ Len(todo) = 2
    BY <1>2, <2>1
  <2> QED BY <1>2, <2>1, <2>2
<1>3. CASE todo = <<"mise.toml">>
  <2>1. Head(todo) = "mise.toml" /\ Tail(todo) = <<>>
    BY <1>3
  <2>2. Len(Tail(todo)) = 0 /\ Len(todo) = 1
    BY <1>3, <2>1
  <2> QED BY <1>3, <2>1, <2>2
<1> QED BY <1>1, <1>2, <1>3

(* No other plan is the one of a delete that has done with devpod.           *)
LEMMA PlansApart ==
  /\ DeleteSteps \in StepsLeft /\ <<"up">> \in StepsLeft /\ <<"halt", "up">> \in StepsLeft
  /\ DeleteSteps # <<"remove">> /\ <<"up">> # <<"remove">> /\ <<"halt", "up">> # <<"remove">>
<1>1. Len(<<"halt", "up">>) = 2 /\ Len(DeleteSteps) = 2 /\ Len(<<"remove">>) = 1
  BY DEF DeleteSteps
<1>2. <<"up">>[1] = "up" /\ <<"remove">>[1] = "remove"
  OBVIOUS
<1>3. <<"up">> # <<"remove">>
  BY <1>2
<1> QED BY <1>1, <1>3 DEF StepsLeft

(* The next step of another command: only devpod's leads to the directory's. *)
LEMMA StepNext ==
  ASSUME NEW todo \in StepsLeft, todo # <<>>
  PROVE  /\ Tail(todo) \in StepsLeft
         /\ Head(todo) = "remove" <=> todo = <<"remove">>
         /\ Tail(todo) = <<"remove">> => Head(todo) = "devpod"
<1> USE DEF StepsLeft, DeleteSteps
<1>1. CASE todo \in {<<"halt">>, <<"up">>, <<"remove">>}
  <2>1. Tail(todo) = <<>>
    <3>1. Tail(<<"halt">>) = <<>> /\ Tail(<<"up">>) = <<>> /\ Tail(<<"remove">>) = <<>>
      OBVIOUS
    <3> QED BY <1>1, <3>1
  <2>2. Head(todo) = "remove" <=> todo = <<"remove">>
    <3>1. todo = <<"halt">> => Head(todo) = "halt" /\ todo # <<"remove">>
      OBVIOUS
    <3>2. todo = <<"up">> => Head(todo) = "up" /\ todo # <<"remove">>
      OBVIOUS
    <3>3. todo = <<"remove">> => Head(todo) = "remove"
      OBVIOUS
    <3> QED BY <1>1, <3>1, <3>2, <3>3
  <2>3. <<>> # <<"remove">>
    OBVIOUS
  <2> QED BY <2>1, <2>2, <2>3
<1>2. CASE todo = <<"halt", "up">>
  <2>1. Head(todo) = "halt" /\ Tail(todo) = <<"up">> /\ Len(todo) = 2
    BY <1>2
  <2> QED BY <2>1
<1>3. CASE todo = <<"devpod", "remove">>
  <2>1. Head(todo) = "devpod" /\ Tail(todo) = <<"remove">> /\ Len(todo) = 2
    BY <1>3
  <2> QED BY <2>1
<1> QED BY <1>1, <1>2, <1>3

(* A step of a shell's command is of no other shell.                         *)
Moves(p) == /\ shell' = [q \in WsProcs |-> shell'[q]]
            /\ shell'[p] = [f \in ShellFields |-> shell'[p][f]]
            /\ \A q \in WsProcs : q # p => shell'[q] = shell[q]

(* A shell that goes on to another place keeps its command and what is left *)
(* of it.                                                                   *)
LEMMA ToMoves ==
  ASSUME Laid, NEW p \in WsProcs, NEW pc, To(p, pc)
  PROVE  /\ Moves(p) /\ shell'[p].pc = pc
         /\ shell'[p].op = shell[p].op /\ shell'[p].todo = shell[p].todo
         /\ shell'[p].proxy = shell[p].proxy
BY DEF Laid, ShellFields, To, Moves

(* A command that ends leaves its shell idle.                               *)
LEMMA QuitMoves ==
  ASSUME Laid, NEW p \in WsProcs, Quit(p)
  PROVE  Moves(p) /\ shell'[p] = Idle
BY DEF Laid, ShellFields, Quit, Moves, Idle

(* A step that is done is taken off the plan of its command.                *)
LEMMA StepDoneMoves ==
  ASSUME Laid, NEW p \in WsProcs, StepDone(p)
  PROVE  /\ Moves(p) /\ shell'[p].pc = shell[p].pc
         /\ shell'[p].op = shell[p].op /\ shell'[p].todo = Tail(shell[p].todo)
BY DEF Laid, ShellFields, StepDone, Moves

(* One that is idle has nothing to do.                                       *)
LEMMA IdlePlan == ASSUME NEW p \in WsProcs, shell'[p] = Idle PROVE Plan(p)'
BY DEF Idle, Plan

(* The plan of every shell is kept by a step that keeps the one of its own.  *)
LEMMA PlannedBy ==
  ASSUME Planned, NEW p \in WsProcs, Moves(p), Plan(p)'
  PROVE  Planned'
<1> SUFFICES ASSUME NEW q \in WsProcs, q # p PROVE Plan(q)'
  BY DEF Planned
<1> QED BY DEF Planned, Plan, Moves

(* Where a command begins.                                                   *)
LEMMA BeginMoves ==
  ASSUME Laid, NEW p \in WsProcs, Begin(p)
  PROVE  /\ Moves(p) /\ Plan(p)' /\ ~Making(p)' /\ ~Deleting(p)'
         /\ UNCHANGED <<dir, profile, devpod>>
         /\ past' = [past EXCEPT !.cmds = @ + 1]
<1> PICK op \in WsOps, proxy \in BOOLEAN :
      shell' = [shell EXCEPT ![p] = [op |-> op, pc |-> FirstPc(op), proxy |-> proxy,
                                     todo |-> Todo(op)]]
  BY DEF Begin
<1>1. Moves(p)
  BY DEF Laid, ShellFields, Moves
<1>2. shell'[p].op = op /\ shell'[p].pc = FirstPc(op) /\ shell'[p].todo = Todo(op)
  BY DEF Laid
<1>3. FirstPc(op) \notin {"copy", "patch", "undo"}
  BY DEF FirstPc
<1>4. Plan(p)' /\ ~Deleting(p)'
  <2>1. CASE op \in {"new", "profile-create", "profile-delete"}
    BY <1>2, <2>1 DEF FirstPc, Todo, Plan, Deleting
  <2>2. CASE op \in {"start", "restart"}
    BY <1>2, <2>2 DEF FirstPc, Todo, Plan, Deleting
  <2>3. CASE op \in {"stop", "code"}
    BY <1>2, <2>3 DEF FirstPc, Todo, Plan, Deleting, StepsLeft
  <2>4. CASE op = "delete"
    BY <1>2, <2>4 DEF FirstPc, Todo, Plan, Deleting
  <2> QED BY <2>1, <2>2, <2>3, <2>4 DEF WsOps
<1> QED BY <1>1, <1>2, <1>3, <1>4 DEF Begin, Making, Runs

-----------------------------------------------------------------------------
(* Every step is a step of one shell, after which its plan is one.           *)

(* The shells, the directory and the history have their shape at first.     *)
LEMMA LaidInit == WsInit => Laid /\ Planned
<1> SUFFICES ASSUME WsInit PROVE Laid /\ Planned
  OBVIOUS
<1>1. shell = [p \in WsProcs |-> Idle]
  BY DEF WsInit
<1>2. dir = [f \in {"there", "files"} |-> dir[f]] /\ dir.files = [f \in Files |-> dir.files[f]]
  BY DEF WsInit, Absent, Whole, NoFiles
<1>3. past = [f \in PastFields |-> past[f]]
  BY DEF WsInit, Clear, PastFields
<1> QED BY <1>1, <1>2, <1>3 DEF Laid, Planned, Plan, Idle, ShellFields

(* What a step of a new does.                                                *)
LEMMA MkdirMoves ==
  ASSUME Laid, Planned, NEW p \in WsProcs, Mkdir(p)
  PROVE  /\ Moves(p) /\ Plan(p)' /\ ~Deleting(p)' /\ UNCHANGED <<devpod, past>>
         /\ \/ ~Making(p)' /\ UNCHANGED dir
            \/ /\ ~dir.there /\ dir'.there /\ dir'.files = dir.files
               /\ Making(p)' /\ shell'[p].todo = CopyOrder
<1> USE DEF Mkdir, Where
<1>1. CASE Taken
  BY <1>1, QuitMoves, IdlePlan DEF Idle, Making, Runs, Deleting
<1>2. CASE ~Taken
  <2>1. Moves(p) /\ shell'[p].pc = "copy" /\ shell'[p].todo = CopyOrder /\ shell'[p].op = "new"
    BY <1>2, ToMoves DEF Planned, Plan
  <2>2. ~dir.there /\ dir'.there /\ dir'.files = dir.files
    BY <1>2 DEF Taken, Laid
  <2> QED BY <2>1, <2>2 DEF Plan, CopyLeft, Deleting, Making, Runs
<1> QED BY <1>1, <1>2

(* A copy that lands adds a file and removes none; one that fails leads to  *)
(* the undo.                                                                *)
LEMMA CopyFileMoves ==
  ASSUME Laid, Planned, NEW p \in WsProcs, CopyFile(p)
  PROVE  /\ Moves(p) /\ Plan(p)' /\ Making(p) /\ Making(p)' /\ UNCHANGED <<devpod, past>>
         /\ dir'.there = dir.there
         /\ shell'[p].pc = "undo" \/ (Behind(p) => Behind(p)')
         /\ dir'.files = [f \in Files |-> dir'.files[f]]
         /\ \A f \in Files : dir.files[f] # "none" => dir'.files[f] # "none"
<1> USE DEF CopyFile, Where
<1>1. shell[p].todo \in CopyLeft /\ shell[p].op = "new"
  BY DEF Planned, Plan
<1> DEFINE f == Head(shell[p].todo)
<1>2. CASE To(p, "undo") /\ UNCHANGED dir
  BY <1>1, <1>2, ToMoves DEF Plan, Making, Runs, Laid
<1>3. CASE /\ dir.there /\ profile.files[f] # "none"
           /\ dir' = [dir EXCEPT !.files[f] = profile.files[f]]
           /\ shell' = [shell EXCEPT ![p].todo = Tail(@)]
  <2>1. Moves(p) /\ shell'[p].pc = "copy" /\ shell'[p].op = "new"
        /\ shell'[p].todo = Tail(shell[p].todo)
    BY <1>1, <1>3, StepDoneMoves DEF StepDone
  <2>2. f \in Files /\ shell'[p].todo \in CopyLeft
    BY <1>1, <2>1, CopyNext
  <2>3. /\ dir'.there = dir.there /\ dir'.files[f] # "none"
        /\ dir'.files = [g \in Files |-> dir'.files[g]]
        /\ \A g \in Files : g # f => dir'.files[g] = dir.files[g]
    BY <1>3, <2>2 DEF Laid
  <2>4. Behind(p) => Behind(p)'
    BY <1>1, <2>1, <2>2, <2>3, CopyNext DEF Behind, Files
  <2> QED BY <1>1, <2>1, <2>2, <2>3, <2>4 DEF Plan, Making, Runs
<1>4. CASE /\ profile.files[f] = "none" /\ f \notin Needed
           /\ shell' = [shell EXCEPT ![p].todo = Tail(@)] /\ UNCHANGED dir
  <2>1. Moves(p) /\ shell'[p].pc = "copy" /\ shell'[p].op = "new"
        /\ shell'[p].todo = Tail(shell[p].todo)
    BY <1>1, <1>4, StepDoneMoves DEF StepDone
  <2>2. shell'[p].todo \in CopyLeft
    BY <1>1, <2>1, CopyNext
  <2>3. Behind(p) => Behind(p)'
    BY <1>1, <1>4, <2>1, CopyNext DEF Behind, Needed
  <2> QED BY <1>1, <1>4, <2>1, <2>2, <2>3 DEF Plan, Making, Runs, Laid
<1> QED BY <1>2, <1>3, <1>4

(* It is over, and its directory is there; or it goes on, or to its undoing. *)
Reports(p) == /\ shell'[p] = Idle /\ dir.there /\ past' = [past EXCEPT !.made = TRUE]
              /\ shell[p].todo = <<>>

(* Where a new reports its directory, which it only does with the directory *)
(* there.                                                                   *)
LEMMA CopiedMoves ==
  ASSUME Laid, Planned, NEW p \in WsProcs, Copied(p) \/ Patch(p)
  PROVE  /\ Moves(p) /\ Plan(p)' /\ Making(p) /\ UNCHANGED <<dir, devpod>>
         /\ shell[p].pc # "undo"
         /\ \/ Reports(p)
            \/ UNCHANGED past /\ Making(p)' /\ shell'[p].todo = <<>>
            \/ UNCHANGED past /\ Making(p)' /\ shell'[p].pc = "undo"
<1> USE DEF Where
<1>1. CASE To(p, "patch") /\ UNCHANGED past /\ Copied(p)
  BY <1>1, ToMoves DEF Copied, Planned, Plan, Making, Runs
<1>2. CASE To(p, "undo") /\ UNCHANGED past
  BY <1>2, ToMoves DEF Copied, Patch, Planned, Plan, Making, Runs
<1>3. CASE Quit(p) /\ dir.there /\ past' = [past EXCEPT !.made = TRUE]
  BY <1>3, QuitMoves, IdlePlan DEF Copied, Patch, Planned, Plan, Making, Runs, Reports
<1> QED BY <1>1, <1>2, <1>3 DEF Copied, Patch, Made

(* A new that failed removes its directory, or leaves debris that it says   *)
(* it left.                                                                 *)
LEMMA UndoMoves ==
  ASSUME Laid, Planned, NEW p \in WsProcs, Undo(p)
  PROVE  /\ Moves(p) /\ Plan(p)' /\ Making(p) /\ ~Making(p)' /\ ~Deleting(p)' /\ UNCHANGED devpod
         /\ \/ dir' = Absent /\ UNCHANGED past
            \/ UNCHANGED dir /\ past' = [past EXCEPT !.debris = TRUE]
BY QuitMoves, IdlePlan DEF Undo, Where, Planned, Plan, Making, Runs, Idle, Deleting

(* A step of another command that leaves the directory and devpod alone.     *)
JustMoves(p) == /\ Moves(p) /\ Plan(p)' /\ ~Making(p)' /\ UNCHANGED <<dir, devpod, past>>
                /\ Deleting(p)' => Deleting(p)

(* Most commands and steps touch neither the directory nor the entry of     *)
(* devpod.                                                                  *)
LEMMA PlainMoves ==
  ASSUME Laid, Planned, NEW p \in WsProcs,
         Consent(p) \/ Check(p) \/ Status(p) \/ Up(p) \/ StepsEnd(p)
  PROVE  JustMoves(p)
<1> USE DEF Where, JustMoves, Planned, Plan, Making, Runs, Deleting
<1>1. CASE Quit(p) /\ UNCHANGED <<dir, devpod, past>>
  BY <1>1, QuitMoves DEF Idle
<1>2. CASE Consent(p)
  <2>1. CASE To(p, "steps") /\ Runs(p, "delete")
    BY <1>2, <2>1, ToMoves, PlansApart DEF Consent
  <2>2. CASE To(p, "premove")
    BY <1>2, <2>2, ToMoves DEF Consent
  <2> QED BY <1>1, <1>2, <2>1, <2>2 DEF Consent
<1>3. CASE Check(p) /\ To(p, "steps")
  BY <1>3, ToMoves, PlansApart DEF Check
<1>4. CASE Status(p)
  <2> PICK running \in {devpod = "running", FALSE} :
        shell' = [shell EXCEPT ![p].pc = "steps",
                               ![p].todo = IF running THEN <<"halt", "up">> ELSE @]
    BY <1>4 DEF Status
  <2>1. Moves(p)
    BY DEF Moves, Laid, ShellFields
  <2>2. shell'[p].pc = "steps" /\ shell'[p].todo \in {<<"halt", "up">>, <<"up">>}
    <3>1. shell[p].todo = <<"up">>
      BY <1>4 DEF Status
    <3>2. /\ shell'[p].pc = "steps"
          /\ shell'[p].todo = IF running THEN <<"halt", "up">> ELSE shell[p].todo
      BY DEF Laid, ShellFields
    <3> QED BY <3>1, <3>2
  <2> QED BY <1>4, <2>1, <2>2, PlansApart DEF Status
<1>5. CASE Up(p) /\ To(p, "provision")
  BY <1>5, ToMoves DEF Up, Next1
<1> QED BY <1>1, <1>2, <1>3, <1>4, <1>5 DEF Check, Up, StepsEnd

(* A halt at most takes the entry of devpod away.                           *)
LEMMA HaltMoves ==
  ASSUME Laid, Planned, NEW p \in WsProcs, Halt(p)
  PROVE  /\ Moves(p) /\ Plan(p)' /\ ~Making(p)' /\ ~Deleting(p)' /\ UNCHANGED <<dir, past>>
         /\ devpod' # "none" => devpod # "none"
<1> USE DEF Where, Planned, Plan, Making, Runs, Deleting, Next1, Halt
<1>1. CASE Quit(p)
  BY <1>1, QuitMoves, IdlePlan DEF Idle
<1>2. CASE StepDone(p)
  BY <1>2, StepDoneMoves, StepNext
<1> QED BY <1>1, <1>2

(* devpod up enters the workspace, or changes nothing.                      *)
LEMMA ProvisionMoves ==
  ASSUME Laid, Planned, NEW p \in WsProcs, Provision(p)
  PROVE  /\ Moves(p) /\ Plan(p)' /\ ~Making(p)' /\ ~Deleting(p)' /\ UNCHANGED dir
         /\ \/ past' = [past EXCEPT !.raced = @ \/ (devpod = "none" /\ Beside(p))]
            \/ UNCHANGED <<devpod, past>>
BY QuitMoves, IdlePlan DEF Provision, Making, Runs, Deleting, Idle

(* A delete takes the entry away, or warns that it could not.               *)
LEMMA DevpodDeleteMoves ==
  ASSUME Laid, Planned, NEW p \in WsProcs, DevpodDelete(p)
  PROVE  /\ Moves(p) /\ Plan(p)' /\ ~Making(p)' /\ UNCHANGED dir
         /\ \/ devpod' = "none" /\ UNCHANGED past
            \/ UNCHANGED devpod /\ past' = [past EXCEPT !.warned = TRUE]
<1>1. Moves(p) /\ shell'[p].pc = "steps" /\ shell'[p].todo \in StepsLeft
  BY StepDoneMoves, StepNext DEF DevpodDelete, Next1, Where, Planned, Plan
<1> QED BY <1>1 DEF DevpodDelete, Plan, Making, Runs

(* A delete removes the directory only where it was, and knows a new it     *)
(* crossed.                                                                 *)
LEMMA RemoveDirMoves ==
  ASSUME Laid, Planned, NEW p \in WsProcs, RemoveDir(p)
  PROVE  /\ Moves(p) /\ Plan(p)' /\ ~Making(p)' /\ ~Deleting(p)' /\ Deleting(p)
         /\ UNCHANGED devpod
         /\ dir' = [f \in {"there", "files"} |-> dir'[f]]
         /\ dir'.files = [f \in Files |-> dir'.files[f]]
         /\ dir'.there => dir.there
         /\ past' = [f \in PastFields |-> past'[f]]
         /\ past'.made = FALSE /\ past'.debris = dir'.there
         /\ past'.warned = past.warned /\ past'.raced = past.raced
         /\ ~past'.crossed => ~past.crossed /\ \A q \in WsProcs : q # p => ~Making(q)
<1> USE DEF RemoveDir
<1>1. Deleting(p)
  BY StepNext DEF Next1, Where, Planned, Plan, Deleting
<1>2. Moves(p) /\ Plan(p)' /\ ~Making(p)' /\ ~Deleting(p)'
  <2>1. CASE Quit(p)
    BY <2>1, QuitMoves, IdlePlan DEF Idle, Making, Runs, Deleting
  <2>2. CASE StepDone(p)
    <3>1. Moves(p) /\ shell'[p].pc = "steps" /\ shell'[p].todo = Tail(<<"remove">>)
      BY <1>1, <2>2, StepDoneMoves DEF Deleting
    <3>2. shell'[p].todo = <<>>
      BY <3>1
    <3> QED BY <3>1, <3>2 DEF Plan, StepsLeft, Making, Runs, Deleting
  <2> QED BY <2>1, <2>2
<1>3. /\ dir' = [f \in {"there", "files"} |-> dir'[f]]
      /\ dir'.files = [f \in Files |-> dir'.files[f]]
      /\ dir'.there => dir.there
  <2>1. CASE dir' = Absent
    BY <2>1 DEF Absent, NoFiles
  <2>2. CASE dir' \in InPart(dir)
    BY <2>2 DEF InPart, Laid
  <2> QED BY <2>1, <2>2
<1>4. /\ past' = [f \in PastFields |-> past'[f]]
      /\ past'.made = FALSE /\ past'.debris = dir'.there
      /\ past'.warned = past.warned /\ past'.raced = past.raced
  BY DEF Laid, PastFields
<1>5. ~past'.crossed => ~past.crossed /\ \A q \in WsProcs : q # p => ~Making(q)
  <2>1. past'.crossed = (past.crossed \/ \E q \in Others(p) : Making(q))
    BY DEF Laid, PastFields
  <2> QED BY <2>1 DEF Others
<1> QED BY <1>1, <1>2, <1>3, <1>4, <1>5

(* The profile's commands leave the workspace alone.                         *)
LEMMA ProfileMoves ==
  ASSUME Laid, Planned, NEW p \in WsProcs,
         ProfileMkdir(p) \/ OpenFile(p) \/ FillFile(p) \/ ProfileRemove(p)
  PROVE  JustMoves(p)
<1> USE DEF Where, JustMoves, Planned, Plan, Making, Runs, Deleting
<1>1. CASE ProfileMkdir(p) \/ ProfileRemove(p)
  BY <1>1, ToMoves, QuitMoves DEF ProfileMkdir, ProfileRemove, Idle
<1>2. CASE OpenFile(p)
  BY <1>2, ToMoves, QuitMoves DEF OpenFile, Idle
<1>3. CASE FillFile(p)
  <2>1. shell' = [shell EXCEPT ![p].pc = "open", ![p].todo = Tail(@)]
    BY <1>3 DEF FillFile
  <2>2. Moves(p) /\ shell'[p].pc = "open"
    BY <2>1 DEF Moves, Laid, ShellFields
  <2> QED BY <1>3, <2>2 DEF FillFile
<1> QED BY <1>1, <1>2, <1>3

(* A shell that is killed inside a new leaves debris.                       *)
LEMMA KillMoves ==
  ASSUME Laid, Planned, NEW p \in WsProcs, Kill(p)
  PROVE  /\ Moves(p) /\ Plan(p)' /\ ~Making(p)' /\ ~Deleting(p)' /\ UNCHANGED <<dir, devpod>>
         /\ past' = [past EXCEPT !.debris = @ \/ Making(p)]
BY QuitMoves, IdlePlan DEF Kill, Making, Runs, Idle, Deleting

(* The other shells are where they were.                                     *)
LEMMA OthersStay ==
  ASSUME NEW p \in WsProcs, Moves(p), NEW q \in WsProcs, q # p
  PROVE  /\ Making(q)' <=> Making(q)
         /\ Deleting(q)' <=> Deleting(q)
         /\ shell'[q] = shell[q]
BY DEF Moves, Making, Deleting, Runs

(* A step of one shell that keeps the shape of the rest keeps the shape of  *)
(* the state.                                                               *)
LEMMA LaidBy ==
  ASSUME Laid, NEW p \in WsProcs, Moves(p),
         dir' = [f \in {"there", "files"} |-> dir'[f]],
         dir'.files = [f \in Files |-> dir'.files[f]],
         past' = [f \in PastFields |-> past'[f]]
  PROVE  Laid'
<1>1. \A q \in WsProcs : shell'[q] = [f \in ShellFields |-> shell'[q][f]]
  BY DEF Laid, Moves
<1> QED BY <1>1 DEF Laid, Moves

(* Every step keeps the shape of the state and the plan of every shell.     *)
LEMMA LaidStep ==
  ASSUME Laid, Planned, [WsNext]_wsVars
  PROVE  Laid' /\ Planned'
<1>1. CASE UNCHANGED wsVars
  BY <1>1 DEF wsVars, Laid, Planned, Plan
<1>2. ASSUME NEW p \in WsProcs, Begin(p) PROVE Laid' /\ Planned'
  BY <1>2, BeginMoves, PlannedBy, LaidBy DEF Laid, PastFields
<1>3. ASSUME NEW p \in WsProcs,
             \/ Consent(p) \/ Check(p) \/ Status(p) \/ Up(p) \/ StepsEnd(p)
             \/ ProfileMkdir(p) \/ OpenFile(p) \/ FillFile(p) \/ ProfileRemove(p)
      PROVE  Laid' /\ Planned'
  <2>1. JustMoves(p)
    BY <1>3, PlainMoves, ProfileMoves
  <2> QED BY <2>1, PlannedBy, LaidBy DEF Laid, JustMoves
<1>4. ASSUME NEW p \in WsProcs, Mkdir(p) PROVE Laid' /\ Planned'
  <2>1. dir' = [f \in {"there", "files"} |-> dir'[f]] /\ dir'.files = [f \in Files |-> dir'.files[f]]
    BY <1>4 DEF Mkdir, Laid
  <2> QED BY <1>4, <2>1, MkdirMoves, PlannedBy, LaidBy DEF Laid
<1>5. ASSUME NEW p \in WsProcs, CopyFile(p) PROVE Laid' /\ Planned'
  <2>1. dir' = [f \in {"there", "files"} |-> dir'[f]]
    BY <1>5 DEF CopyFile, Laid
  <2> QED BY <1>5, <2>1, CopyFileMoves, PlannedBy, LaidBy DEF Laid
<1>6. ASSUME NEW p \in WsProcs, Copied(p) \/ Patch(p) PROVE Laid' /\ Planned'
  <2>1. past' = [f \in PastFields |-> past'[f]]
    BY <1>6, CopiedMoves DEF Laid, PastFields, Reports
  <2> QED BY <1>6, <2>1, CopiedMoves, PlannedBy, LaidBy DEF Laid
<1>7. ASSUME NEW p \in WsProcs, Undo(p) PROVE Laid' /\ Planned'
  <2>1. past' = [f \in PastFields |-> past'[f]]
    BY <1>7, UndoMoves DEF Laid, PastFields
  <2>2. dir' = [f \in {"there", "files"} |-> dir'[f]] /\ dir'.files = [f \in Files |-> dir'.files[f]]
    BY <1>7, UndoMoves DEF Laid, Absent, NoFiles
  <2> QED BY <1>7, <2>1, <2>2, UndoMoves, PlannedBy, LaidBy
<1>8. ASSUME NEW p \in WsProcs, Halt(p) PROVE Laid' /\ Planned'
  BY <1>8, HaltMoves, PlannedBy, LaidBy DEF Laid
<1>9. ASSUME NEW p \in WsProcs, Provision(p) \/ DevpodDelete(p) \/ Kill(p)
      PROVE  Laid' /\ Planned'
  <2>1. past' = [f \in PastFields |-> past'[f]]
    BY <1>9 DEF Provision, DevpodDelete, Kill, Laid, PastFields
  <2> QED BY <1>9, <2>1, ProvisionMoves, DevpodDeleteMoves, KillMoves, PlannedBy, LaidBy DEF Laid
<1>10. ASSUME NEW p \in WsProcs, RemoveDir(p) PROVE Laid' /\ Planned'
  BY <1>10, RemoveDirMoves, PlannedBy, LaidBy
<1> QED BY <1>1, <1>2, <1>3, <1>4, <1>5, <1>6, <1>7, <1>8, <1>9, <1>10 DEF WsNext

-----------------------------------------------------------------------------
(* The directory.                                                            *)

(***************************************************************************)
(* A step after which the directory, its report and who makes it are what   *)
(* they were, but for debris, keeps it accounted for.                       *)
(***************************************************************************)
LEMMA SameDirectory ==
  ASSUME Accounted, DirectoryAccounted, NEW p \in WsProcs, Moves(p),
         UNCHANGED dir, past'.crossed = past.crossed, past'.made = past.made,
         ~Making(p)', past.debris \/ Making(p) => past'.debris
  PROVE  (Accounted /\ DirectoryAccounted)'
<1> SUFFICES ASSUME ~past.crossed PROVE (Accounted /\ DirectoryAccounted)'
  BY DEF Accounted, DirectoryAccounted
<1>1. \A q \in WsProcs : Making(q)' => q # p /\ Making(q) /\ shell'[q] = shell[q]
  BY OthersStay
<1>2. Accounted'
  BY <1>1 DEF Accounted, Behind
<1>3. DirectoryAccounted'
  <2>1. past'.made => dir'.there /\ \A f \in Needed : dir'.files[f] # "none"
    BY DEF DirectoryAccounted
  <2>2. dir'.there => past'.made \/ past'.debris \/ \E q \in WsProcs : Making(q)'
    BY OthersStay DEF DirectoryAccounted
  <2> QED BY <2>1, <2>2 DEF DirectoryAccounted
<1> QED BY <1>2, <1>3

(* Every step keeps the directory accounted for.                            *)
LEMMA DirectoryStep ==
  ASSUME Laid, Planned, Accounted, DirectoryAccounted, [WsNext]_wsVars
  PROVE  (Accounted /\ DirectoryAccounted)'
<1> DEFINE Kept == (Accounted /\ DirectoryAccounted)'
<1>1. CASE UNCHANGED wsVars
  BY <1>1 DEF wsVars, Accounted, DirectoryAccounted, Making, Runs, Behind
<1>2. ASSUME NEW p \in WsProcs, Begin(p) PROVE Kept
  <2>1. ~Making(p)
    BY <1>2 DEF Begin, Where, Making
  <2> QED BY <1>2, <2>1, BeginMoves, SameDirectory DEF Laid, PastFields
<1>3. ASSUME NEW p \in WsProcs,
             \/ Consent(p) \/ Check(p) \/ Status(p) \/ Up(p) \/ StepsEnd(p)
             \/ ProfileMkdir(p) \/ OpenFile(p) \/ FillFile(p) \/ ProfileRemove(p)
      PROVE  Kept
  <2>1. JustMoves(p)
    BY <1>3, PlainMoves, ProfileMoves
  <2>2. ~Making(p)
    BY <1>3 DEF Consent, Check, Status, Up, StepsEnd, Next1, ProfileMkdir, OpenFile, FillFile,
                ProfileRemove, Where, Making
  <2> QED BY <2>1, <2>2, SameDirectory DEF JustMoves
<1>4. ASSUME NEW p \in WsProcs, Mkdir(p) PROVE Kept
  <2>1. ~Making(p)
    BY <1>4 DEF Mkdir, Where, Making
  <2>2. CASE ~Making(p)' /\ UNCHANGED dir
    BY <1>4, <2>1, <2>2, MkdirMoves, SameDirectory
  <2>3. CASE /\ ~dir.there /\ dir'.there /\ dir'.files = dir.files
             /\ Making(p)' /\ shell'[p].todo = CopyOrder
    <3> SUFFICES ASSUME ~past.crossed PROVE Kept
      BY <1>4, MkdirMoves DEF Accounted, DirectoryAccounted
    <3>1. ~past.made /\ \A q \in WsProcs : ~Making(q)
      BY <2>3 DEF Accounted, DirectoryAccounted
    <3>2. \A q \in WsProcs : q # p => ~Making(q)'
      BY <1>4, <3>1, MkdirMoves, OthersStay
    <3>3. UNCHANGED past
      BY <1>4, MkdirMoves
    <3>4. Behind(p)'
      BY <2>3 DEF Behind, CopyOrder
    <3> QED BY <2>3, <3>1, <3>2, <3>3, <3>4 DEF Accounted, DirectoryAccounted
  <2> QED BY <1>4, <2>2, <2>3, MkdirMoves
<1>5. ASSUME NEW p \in WsProcs, CopyFile(p) PROVE Kept
  <2> SUFFICES ASSUME ~past.crossed PROVE Kept
    BY <1>5, CopyFileMoves DEF Accounted, DirectoryAccounted
  <2>1. UNCHANGED past /\ dir.there /\ dir'.there /\ ~past.made /\ Making(p) /\ Making(p)'
    BY <1>5, CopyFileMoves DEF Accounted
  <2>2. \A q \in WsProcs : q # p => ~Making(q)'
    BY <1>5, <2>1, CopyFileMoves, OthersStay DEF Accounted
  <2>3. shell[p].pc # "undo"
    BY <1>5 DEF CopyFile, Where
  <2>4. shell'[p].pc # "undo" => Behind(p)'
    BY <1>5, <2>1, <2>3, CopyFileMoves DEF Accounted
  <2> QED BY <2>1, <2>2, <2>4 DEF Accounted, DirectoryAccounted
<1>6. ASSUME NEW p \in WsProcs, Copied(p) \/ Patch(p) PROVE Kept
  <2>1. past'.crossed = past.crossed
    BY <1>6, CopiedMoves DEF Reports, Laid, PastFields
  <2> SUFFICES ASSUME ~past.crossed PROVE Kept
    BY <2>1 DEF Accounted, DirectoryAccounted
  <2>2. /\ UNCHANGED dir /\ dir.there /\ ~past.made /\ Making(p) /\ Behind(p)
        /\ \A q \in WsProcs : q # p => ~Making(q)'
    BY <1>6, CopiedMoves, OthersStay DEF Accounted
  <2>3. CASE Reports(p)
    <3>1. past'.made /\ ~Making(p)'
      BY <2>3 DEF Reports, Laid, PastFields, Making, Runs, Idle
    <3>2. \A f \in Needed : dir.files[f] # "none"
      <4>1. shell[p].todo # CopyOrder /\ shell[p].todo # <<"Dockerfile", "mise.toml">>
        BY <2>3 DEF Reports, CopyOrder
      <4> QED BY <2>2, <4>1 DEF Behind, Needed
    <3> QED BY <2>2, <3>1, <3>2 DEF Accounted, DirectoryAccounted
  <2>4. CASE UNCHANGED past /\ Making(p)' /\ shell'[p].pc = "undo"
    BY <2>2, <2>4 DEF Accounted, DirectoryAccounted
  <2>5. CASE UNCHANGED past /\ Making(p)' /\ shell'[p].todo = <<>>
    <3>1. shell[p].todo = <<>>
      BY <1>6 DEF Copied, Patch, Where, Planned, Plan
    <3>2. Behind(p)'
      BY <2>2, <2>5, <3>1 DEF Behind
    <3> QED BY <2>2, <2>5, <3>2 DEF Accounted, DirectoryAccounted
  <2> QED BY <1>6, <2>3, <2>4, <2>5, CopiedMoves
<1>7. ASSUME NEW p \in WsProcs, Undo(p) PROVE Kept
  <2>1. past'.crossed = past.crossed /\ past'.made = past.made
    BY <1>7, UndoMoves DEF Laid, PastFields
  <2>2. CASE UNCHANGED dir /\ past' = [past EXCEPT !.debris = TRUE]
    BY <1>7, <2>1, <2>2, UndoMoves, SameDirectory DEF Laid, PastFields
  <2>3. CASE dir' = Absent /\ UNCHANGED past
    <3> SUFFICES ASSUME ~past.crossed PROVE Kept
      BY <2>1 DEF Accounted, DirectoryAccounted
    <3>1. ~past'.made /\ ~dir'.there /\ \A q \in WsProcs : ~Making(q)'
      BY <1>7, <2>1, <2>3, UndoMoves, OthersStay DEF Accounted, Absent
    <3> QED BY <3>1 DEF Accounted, DirectoryAccounted
  <2> QED BY <1>7, <2>2, <2>3, UndoMoves
<1>8. ASSUME NEW p \in WsProcs, Halt(p) PROVE Kept
  <2>1. ~Making(p)
    BY <1>8 DEF Halt, Next1, Where, Making
  <2> QED BY <1>8, <2>1, HaltMoves, SameDirectory
<1>9. ASSUME NEW p \in WsProcs, Provision(p) \/ DevpodDelete(p) PROVE Kept
  <2>1. ~Making(p)
    BY <1>9 DEF Provision, DevpodDelete, Next1, Where, Making
  <2>2. past'.crossed = past.crossed /\ past'.made = past.made /\ past'.debris = past.debris
    BY <1>9 DEF Provision, DevpodDelete, Laid, PastFields
  <2> QED BY <1>9, <2>1, <2>2, ProvisionMoves, DevpodDeleteMoves, SameDirectory
<1>10. ASSUME NEW p \in WsProcs, RemoveDir(p) PROVE Kept
  <2> SUFFICES ASSUME ~past'.crossed PROVE Kept
    BY DEF Accounted, DirectoryAccounted
  <2>1. \A q \in WsProcs : ~Making(q)'
    BY <1>10, RemoveDirMoves, OthersStay
  <2> QED BY <1>10, <2>1, RemoveDirMoves DEF Accounted, DirectoryAccounted
<1>11. ASSUME NEW p \in WsProcs, Kill(p) PROVE Kept
  <2>1. /\ past'.crossed = past.crossed /\ past'.made = past.made
        /\ past.debris \/ Making(p) => past'.debris
    BY <1>11, KillMoves DEF Laid, PastFields
  <2> QED BY <1>11, <2>1, KillMoves, SameDirectory
<1> QED BY <1>1, <1>2, <1>3, <1>4, <1>5, <1>6, <1>7, <1>8, <1>9, <1>10, <1>11 DEF WsNext

-----------------------------------------------------------------------------
(* devpod's entry.                                                           *)

(* An entry, or a directory, that was not lost by this step is accounted for.*)
LEMMA SameEntry ==
  ASSUME Entry, NEW p \in WsProcs, Moves(p), dir'.there = dir.there,
         devpod' # "none" => devpod # "none" \/ Excused', Excused => Excused',
         (Deleting(p) \/ Making(p))' /\ devpod' # "none" =>
            Deleting(p) \/ Making(p) \/ ~dir.there \/ Excused'
  PROVE  Entry'
<1>1. OrphanOnlyWarned'
  BY DEF Entry, OrphanOnlyWarned, Excused
<1>2. ASSUME NEW q \in WsProcs, (Deleting(q) \/ Making(q))', devpod' # "none" PROVE Excused'
  <2>1. CASE q = p
    BY <1>2, <2>1 DEF Entry, OrphanOnlyWarned, Excused
  <2>2. CASE q # p
    BY <1>2, <2>2, OthersStay DEF Entry
  <2> QED BY <2>1, <2>2
<1> QED BY <1>1, <1>2 DEF Entry

(* Every step keeps the entry of devpod accounted for.                      *)
LEMMA EntryStep ==
  ASSUME Laid, Planned, Entry, [WsNext]_wsVars
  PROVE  Entry'
<1>1. CASE UNCHANGED wsVars
  BY <1>1 DEF wsVars, Entry, OrphanOnlyWarned, Excused, Deleting, Making, Runs
<1>2. ASSUME NEW p \in WsProcs, Begin(p) PROVE Entry'
  BY <1>2, BeginMoves, SameEntry DEF Laid, PastFields, Excused
<1>3. ASSUME NEW p \in WsProcs,
             \/ Consent(p) \/ Check(p) \/ Status(p) \/ Up(p) \/ StepsEnd(p)
             \/ ProfileMkdir(p) \/ OpenFile(p) \/ FillFile(p) \/ ProfileRemove(p)
      PROVE  Entry'
  <2>1. JustMoves(p)
    BY <1>3, PlainMoves, ProfileMoves
  <2> QED BY <2>1, SameEntry DEF JustMoves, Excused
<1>4. ASSUME NEW p \in WsProcs, Mkdir(p) PROVE Entry'
  <2>1. CASE UNCHANGED dir
    BY <1>4, <2>1, MkdirMoves, SameEntry DEF Excused
  <2>2. CASE ~dir.there
    <3>1. devpod # "none" => Excused
      BY <2>2 DEF Entry, OrphanOnlyWarned, Excused
    <3> QED BY <1>4, <3>1, MkdirMoves DEF Entry, OrphanOnlyWarned, Excused
  <2> QED BY <1>4, <2>1, <2>2, MkdirMoves
<1>5. ASSUME NEW p \in WsProcs, CopyFile(p) PROVE Entry'
  BY <1>5, CopyFileMoves, SameEntry DEF Excused
<1>6. ASSUME NEW p \in WsProcs, Copied(p) \/ Patch(p) PROVE Entry'
  <2>1. past'.warned = past.warned /\ past'.raced = past.raced
    BY <1>6, CopiedMoves DEF Reports, Laid, PastFields
  <2> QED BY <1>6, <2>1, CopiedMoves, SameEntry DEF Excused
<1>7. ASSUME NEW p \in WsProcs, Undo(p) PROVE Entry'
  <2>1. past'.warned = past.warned /\ past'.raced = past.raced
    BY <1>7, UndoMoves DEF Laid, PastFields
  <2>2. devpod' # "none" => Excused'
    BY <1>7, <2>1, UndoMoves DEF Entry, Excused
  <2> QED BY <2>2 DEF Entry, OrphanOnlyWarned, Excused
<1>8. ASSUME NEW p \in WsProcs, Halt(p) PROVE Entry'
  BY <1>8, HaltMoves, SameEntry DEF Excused
<1>9. ASSUME NEW p \in WsProcs, Provision(p) PROVE Entry'
  <2>1. CASE UNCHANGED <<devpod, past>>
    BY <1>9, <2>1, ProvisionMoves, SameEntry DEF Excused
  <2>2. CASE past' = [past EXCEPT !.raced = @ \/ (devpod = "none" /\ Beside(p))]
    <3>1. past'.warned = past.warned /\ past'.raced = (past.raced \/ (devpod = "none" /\ Beside(p)))
      BY <2>2 DEF Laid, PastFields
    <3>2. CASE devpod # "none"
      BY <1>9, <3>1, <3>2, ProvisionMoves, SameEntry DEF Excused
    <3>3. CASE devpod = "none" /\ Beside(p)
      BY <3>1, <3>3 DEF Entry, OrphanOnlyWarned, Excused
    <3>4. CASE ~Beside(p)
      <4>1. dir.there /\ \A q \in WsProcs : q # p => ~Making(q) /\ ~Next1(q, "remove")
        BY <3>4 DEF Beside, Others
      <4>2. \A q \in WsProcs : Deleting(q) => Next1(q, "remove")
        BY StepNext DEF Deleting, Next1, Where, StepsLeft
      <4>3. dir'.there /\ \A q \in WsProcs : ~Making(q)' /\ ~Deleting(q)'
        BY <1>9, <4>1, <4>2, ProvisionMoves, OthersStay
      <4> QED BY <4>3 DEF Entry, OrphanOnlyWarned
    <3> QED BY <3>2, <3>3, <3>4
  <2> QED BY <1>9, <2>1, <2>2, ProvisionMoves
<1>10. ASSUME NEW p \in WsProcs, DevpodDelete(p) PROVE Entry'
  <2>1. CASE devpod' = "none"
    BY <2>1 DEF Entry, OrphanOnlyWarned
  <2>2. CASE past' = [past EXCEPT !.warned = TRUE]
    BY <2>2 DEF Entry, OrphanOnlyWarned, Excused, Laid, PastFields
  <2> QED BY <1>10, <2>1, <2>2, DevpodDeleteMoves
<1>11. ASSUME NEW p \in WsProcs, RemoveDir(p) PROVE Entry'
  <2>1. devpod' # "none" => Excused'
    BY <1>11, RemoveDirMoves DEF Entry, Excused
  <2> QED BY <2>1 DEF Entry, OrphanOnlyWarned, Excused
<1>12. ASSUME NEW p \in WsProcs, Kill(p) PROVE Entry'
  <2>1. past'.warned = past.warned /\ past'.raced = past.raced
    BY <1>12, KillMoves DEF Laid, PastFields
  <2> QED BY <1>12, <2>1, KillMoves, SameEntry DEF Excused
<1> QED BY <1>1, <1>2, <1>3, <1>4, <1>5, <1>6, <1>7, <1>8, <1>9, <1>10, <1>11, <1>12 DEF WsNext

-----------------------------------------------------------------------------
(* The theorems.                                                             *)

(* The invariant holds at first.                                            *)
LEMMA WsInvInit == WsInit => Laid /\ Planned /\ Accounted /\ DirectoryAccounted /\ Entry
<1> SUFFICES ASSUME WsInit PROVE Accounted /\ DirectoryAccounted /\ Entry
  BY LaidInit
<1>1. \A p \in WsProcs : ~Making(p) /\ ~Deleting(p)
  BY DEF WsInit, Idle, Making, Runs, Deleting
<1>2. CASE dir = Absent /\ devpod = "none" /\ past = Clear(0)
  BY <1>1, <1>2 DEF Absent, Clear, Accounted, DirectoryAccounted, Entry, OrphanOnlyWarned
<1>3. CASE dir = Whole /\ past = [Clear(0) EXCEPT !.made = TRUE]
  BY <1>1, <1>3 DEF Whole, Clear, Accounted, DirectoryAccounted, Entry, OrphanOnlyWarned,
                    Needed, Files
<1> QED BY <1>2, <1>3 DEF WsInit

(* The invariant holds of every behaviour.                                  *)
LEMMA WsInvariant ==
  WsSpec => [](Laid /\ Planned /\ Accounted /\ DirectoryAccounted /\ Entry)
<1> DEFINE I == Laid /\ Planned /\ Accounted /\ DirectoryAccounted /\ Entry
<1>1. WsInit => I
  BY WsInvInit
<1>2. I /\ [WsNext]_wsVars => I'
  BY LaidStep, DirectoryStep, EntryStep
<1> QED BY <1>1, <1>2, PTL DEF WsSpec

(***************************************************************************)
(* Whatever any number of shells run and wherever they are killed: unless a *)
(* delete crossed a new, the directory a new reported stays with the files  *)
(* it needs, and no directory is there that nobody accounts for             *)
(* (workspace.Create's deferred removal).                                   *)
(***************************************************************************)
THEOREM DirectoryAlwaysAccounted == WsSpec => []DirectoryAccounted
BY WsInvariant, PTL

(***************************************************************************)
(* devpod is left with a workspace whose directory is gone only by a delete *)
(* that said so, or by a start beside the removal (runWorkspaceDelete).     *)
(***************************************************************************)
THEOREM OrphanAlwaysWarned == WsSpec => []OrphanOnlyWarned
<1>1. Entry => OrphanOnlyWarned
  BY DEF Entry
<1> QED BY <1>1, WsInvariant, PTL

-----------------------------------------------------------------------------
(* Type correctness.                                                         *)

Corners == {"idle", "mkdir", "copy", "patch", "undo", "ask", "check", "list", "steps",
            "provision", "pmkdir", "open", "fill", "premove"}
Tasks   == Seq(Files \cup {"halt", "up", "devpod", "remove"})
Jobs    == [op : WsOps \cup {"none"}, pc : Corners, proxy : BOOLEAN, todo : Tasks]
Shelves == [there : BOOLEAN, files : [Files -> Written]]
Pasts   == [cmds : 0..MaxCmds, made : BOOLEAN, crossed : BOOLEAN, debris : BOOLEAN,
            warned : BOOLEAN, raced : BOOLEAN]

(* A profile-create that opened a file has it to fill.                       *)
Busy == /\ shell \in [WsProcs -> Jobs]
        /\ \A p \in WsProcs : shell[p].pc = "fill" => shell[p].todo # <<>>

WsTyped ==
  /\ Busy /\ dir \in Shelves /\ profile \in Shelves
  /\ devpod \in {"none", "stopped", "running"} /\ past \in Pasts

(* The types follow.                                                         *)
LEMMA WsTypedIs == WsTyped => WsTypeOK
<1> SUFFICES ASSUME WsTyped PROVE WsTypeOK
  OBVIOUS
<1>1. ASSUME NEW p \in WsProcs
      PROVE  /\ shell[p].op \in WsOps \cup {"none"} /\ shell[p].proxy \in BOOLEAN
             /\ shell[p].pc \in Corners /\ shell[p].todo \in Tasks
  <2>1. shell[p] \in Jobs
    BY DEF WsTyped, Busy
  <2> QED BY <2>1 DEF Jobs
<1>2. DOMAIN shell = WsProcs
  BY DEF WsTyped, Busy
<1>3. dir \in Shelves /\ profile \in Shelves /\ past \in Pasts
      /\ devpod \in {"none", "stopped", "running"}
  BY DEF WsTyped
<1> QED BY <1>1, <1>2, <1>3 DEF WsTypeOK, Corners, Tasks, Shelves, Pasts

(* The plans commands begin with.                                            *)
LEMMA PlansAre ==
  /\ <<>> \in Tasks /\ <<"halt">> \in Tasks /\ <<"up">> \in Tasks /\ <<"halt", "up">> \in Tasks
  /\ DeleteSteps \in Tasks /\ CopyOrder \in Tasks /\ WriteOrder \in Tasks
BY DEF Tasks, DeleteSteps, CopyOrder, WriteOrder, Files

(* What is left of a plan is one.                                            *)
LEMMA LeftIsPlan == ASSUME NEW todo \in Tasks, todo # <<>> PROVE Tail(todo) \in Tasks
BY DEF Tasks

(* They hold at first, and with no command at all.                           *)
LEMMA WsTypedFirst == WsInit \/ WsOff => WsTyped
<1> SUFFICES ASSUME WsInit \/ WsOff PROVE WsTyped
  OBVIOUS
<1>1. shell = [p \in WsProcs |-> Idle]
  BY DEF WsInit, WsOff
<1>2. Idle \in Jobs
  <2>1. <<>> \in Tasks
    BY PlansAre
  <2> QED BY <2>1 DEF Idle, Jobs, Corners
<1>3. Busy
  BY <1>1, <1>2 DEF Busy, Idle
<1>4. Absent \in Shelves /\ Whole \in Shelves
  BY DEF Absent, Whole, Shelves, NoFiles, Written
<1>5. Clear(0) \in Pasts /\ Clear(MaxCmds) \in Pasts /\ [Clear(0) EXCEPT !.made = TRUE] \in Pasts
  <2>1. 0 \in 0..MaxCmds /\ MaxCmds \in 0..MaxCmds
    BY WsAssumption
  <2>2. \A n \in 0..MaxCmds : Clear(n) \in Pasts
    BY DEF Clear, Pasts
  <2>3. [Clear(0) EXCEPT !.made = TRUE] \in Pasts
    BY <2>1 DEF Clear, Pasts
  <2> QED BY <2>1, <2>2, <2>3
<1>6. (dir = Absent \/ dir = Whole) /\ (profile = Absent \/ profile = Whole)
  BY DEF WsInit, WsOff
<1>7. devpod \in {"none", "stopped", "running"}
  BY DEF WsInit, WsOff
<1>8. past \in Pasts
  BY <1>5 DEF WsInit, WsOff
<1> QED BY <1>3, <1>4, <1>6, <1>7, <1>8 DEF WsTyped

(* A move, an end and a step done, of one shell.                             *)
LEMMA ToBusy ==
  ASSUME Busy, NEW p \in WsProcs, NEW pc \in Corners, pc = "fill" => shell[p].todo # <<>>,
         To(p, pc)
  PROVE  Busy'
<1>1. shell[p] \in Jobs
  BY DEF Busy
<1>2. [shell[p] EXCEPT !.pc = pc] \in Jobs /\ [shell[p] EXCEPT !.pc = pc].pc = pc
      /\ [shell[p] EXCEPT !.pc = pc].todo = shell[p].todo
  BY <1>1 DEF Jobs
<1> DEFINE job == [shell[p] EXCEPT !.pc = pc]
<1>3. shell' = [shell EXCEPT ![p] = job]
  BY DEF To
<1> HIDE DEF job
<1>4. job \in Jobs /\ (job.pc = "fill" => job.todo # <<>>)
  BY <1>2 DEF job
<1> QED BY <1>3, <1>4 DEF Busy

(* A command ends.                                                           *)
LEMMA QuitBusy ==
  ASSUME Busy, NEW p \in WsProcs, Quit(p)
  PROVE  Busy'
<1>1. Idle \in Jobs
  <2>1. <<>> \in Tasks
    BY PlansAre
  <2> QED BY <2>1 DEF Idle, Jobs, Corners
<1>2. Idle.pc # "fill"
  BY DEF Idle
<1> HIDE DEF Idle
<1> QED BY <1>1, <1>2 DEF Busy, Quit

(* A command goes on to a place with a new list of what is to do.            *)
LEMMA TodoBusy ==
  ASSUME Busy, NEW p \in WsProcs, NEW pc \in Corners \ {"fill"}, NEW todo \in Tasks,
         shell' = [shell EXCEPT ![p].pc = pc, ![p].todo = todo]
  PROVE  Busy'
<1>1. shell[p] \in Jobs
  BY DEF Busy
<1> DEFINE job == [shell[p] EXCEPT !.pc = pc, !.todo = todo]
<1>2. job \in Jobs /\ job.pc = pc
  BY <1>1 DEF Jobs
<1>3. shell' = [shell EXCEPT ![p] = job]
  BY DEF Busy
<1> HIDE DEF job
<1> QED BY <1>2, <1>3 DEF Busy

(* A command has done a step of its list.                                    *)
LEMMA StepBusy ==
  ASSUME Busy, NEW p \in WsProcs, shell[p].pc # "fill", shell[p].todo # <<>>, StepDone(p)
  PROVE  Busy'
<1>1. shell[p] \in Jobs
  BY DEF Busy
<1>2. shell[p].todo \in Tasks /\ shell[p].pc \in Corners
  BY <1>1 DEF Jobs
<1> DEFINE left == Tail(shell[p].todo)
<1> DEFINE job  == [shell[p] EXCEPT !.todo = left]
<1>3. left \in Tasks
  BY <1>2, LeftIsPlan
<1>4. shell' = [shell EXCEPT ![p] = job]
  BY DEF StepDone
<1> HIDE DEF left
<1>5. job \in Jobs /\ job.pc = shell[p].pc
  BY <1>1, <1>3 DEF Jobs
<1> HIDE DEF job
<1> QED BY <1>4, <1>5 DEF Busy

(* A file written, or the rest of a directory.                               *)
LEMMA ShelfWritten ==
  ASSUME NEW d \in Shelves
  PROVE  /\ [d EXCEPT !.there = TRUE] \in Shelves /\ Absent \in Shelves
         /\ \A f : \A w \in Written : [d EXCEPT !.files[f] = w] \in Shelves
         /\ \A e \in InPart(d) : e \in Shelves
<1>1. [d EXCEPT !.there = TRUE] \in Shelves /\ Absent \in Shelves
  BY DEF Shelves, Absent, NoFiles, Written
<1>2. ASSUME NEW f, NEW w \in Written PROVE [d EXCEPT !.files[f] = w] \in Shelves
  BY <1>2 DEF Shelves
<1>3. ASSUME NEW e \in InPart(d) PROVE e \in Shelves
  <2> PICK kept \in SUBSET Files :
        e = [d EXCEPT !.files = [f \in Files |-> IF f \in kept THEN @[f] ELSE "none"]]
    BY DEF InPart
  <2> DEFINE files == [f \in Files |-> IF f \in kept THEN d.files[f] ELSE "none"]
  <2>1. files \in [Files -> Written]
    BY DEF Shelves, Written
  <2>2. e = [d EXCEPT !.files = files]
    OBVIOUS
  <2> HIDE DEF files
  <2> QED BY <2>1, <2>2 DEF Shelves
<1> QED BY <1>1, <1>2, <1>3

(* What happened is remembered.                                              *)
LEMMA PastTyped ==
  ASSUME past \in Pasts
  PROVE  /\ [past EXCEPT !.made = TRUE] \in Pasts /\ [past EXCEPT !.debris = TRUE] \in Pasts
         /\ [past EXCEPT !.warned = TRUE] \in Pasts
         /\ \A b \in BOOLEAN : [past EXCEPT !.raced = b] \in Pasts
                               /\ [past EXCEPT !.debris = b] \in Pasts
         /\ \A b, c \in BOOLEAN :
              [past EXCEPT !.made = FALSE, !.debris = b, !.crossed = c] \in Pasts
BY DEF Pasts

(* Every step of a shell keeps what the shells do in order.                  *)
LEMMA BusyStep ==
  ASSUME Busy, [WsNext]_wsVars
  PROVE  Busy'
<1>0. \A p \in WsProcs : shell[p].todo \in Tasks
  <2> SUFFICES ASSUME NEW p \in WsProcs PROVE shell[p].todo \in Tasks
    OBVIOUS
  <2>1. shell[p] \in Jobs
    BY DEF Busy
  <2> QED BY <2>1 DEF Jobs
<1>1. CASE UNCHANGED wsVars
  BY <1>1 DEF wsVars, Busy
<1>2. ASSUME NEW p \in WsProcs, Begin(p) PROVE Busy'
  <2> PICK op \in WsOps, proxy \in BOOLEAN :
        shell' = [shell EXCEPT ![p] = [op |-> op, pc |-> FirstPc(op), proxy |-> proxy,
                                       todo |-> Todo(op)]]
    BY <1>2 DEF Begin
  <2>1. FirstPc(op) \in Corners /\ FirstPc(op) # "fill"
    BY DEF FirstPc, Corners
  <2>2. Todo(op) \in Tasks
    BY PlansAre DEF Todo
  <2> DEFINE job == [op |-> op, pc |-> FirstPc(op), proxy |-> proxy, todo |-> Todo(op)]
  <2>3. job \in Jobs /\ job.pc # "fill"
    <3> HIDE DEF FirstPc, Todo
    <3> QED BY <2>1, <2>2 DEF Jobs
  <2>4. shell' = [shell EXCEPT ![p] = job]
    OBVIOUS
  <2> HIDE DEF job
  <2> QED BY <2>3, <2>4 DEF Busy
<1>3. ASSUME NEW p \in WsProcs,
             Consent(p) \/ Mkdir(p) \/ Copied(p) \/ Patch(p) \/ Undo(p) \/ Check(p)
      PROVE  Busy'
  <2>1. Quit(p) \/ \E pc \in {"steps", "premove", "copy", "patch", "undo"} : To(p, pc)
    BY <1>3 DEF Consent, Mkdir, Copied, Patch, Undo, Check, Made
  <2> QED BY <2>1, ToBusy, QuitBusy DEF Corners
<1>4. ASSUME NEW p \in WsProcs,
             Halt(p) \/ Up(p) \/ Provision(p) \/ DevpodDelete(p) \/ RemoveDir(p)
      PROVE  Busy'
  <2>1. \/ Quit(p) \/ To(p, "provision")
        \/ shell[p].pc = "steps" /\ shell[p].todo # <<>> /\ StepDone(p)
    BY <1>4 DEF Halt, Up, Provision, DevpodDelete, RemoveDir, Next1, Where
  <2> QED BY <2>1, ToBusy, QuitBusy, StepBusy DEF Corners
<1>5. ASSUME NEW p \in WsProcs, CopyFile(p) PROVE Busy'
  <2>1. \/ To(p, "undo")
        \/ shell[p].pc = "copy" /\ shell[p].todo # <<>> /\ StepDone(p)
    BY <1>5 DEF CopyFile, Where, StepDone
  <2> QED BY <2>1, ToBusy, StepBusy DEF Corners
<1>6. ASSUME NEW p \in WsProcs, Status(p) PROVE Busy'
  <2>1. \E todo \in {<<"halt", "up">>, shell[p].todo} :
          shell' = [shell EXCEPT ![p].pc = "steps", ![p].todo = todo]
    <3> PICK running \in {devpod = "running", FALSE} :
          shell' = [shell EXCEPT ![p].pc = "steps",
                                 ![p].todo = IF running THEN <<"halt", "up">> ELSE @]
      BY <1>6 DEF Status
    <3> DEFINE todo == IF running THEN <<"halt", "up">> ELSE shell[p].todo
    <3>1. todo \in {<<"halt", "up">>, shell[p].todo}
      OBVIOUS
    <3>2. shell' = [shell EXCEPT ![p].pc = "steps", ![p].todo = todo]
      BY DEF Busy, Jobs
    <3> HIDE DEF todo
    <3> QED BY <3>1, <3>2
  <2>2. PICK todo \in Tasks : shell' = [shell EXCEPT ![p].pc = "steps", ![p].todo = todo]
    BY <1>0, <2>1, PlansAre
  <2>3. "steps" \in Corners \ {"fill"}
    BY DEF Corners
  <2> QED BY <2>2, <2>3, TodoBusy
<1>7. ASSUME NEW p \in WsProcs, StepsEnd(p) \/ ProfileRemove(p) \/ Kill(p) PROVE Busy'
  BY <1>7, QuitBusy DEF StepsEnd, ProfileRemove, Kill
<1>8. ASSUME NEW p \in WsProcs, ProfileMkdir(p) \/ OpenFile(p) PROVE Busy'
  <2>1. Quit(p) \/ To(p, "open") \/ (shell[p].todo # <<>> /\ To(p, "fill"))
    BY <1>8 DEF ProfileMkdir, OpenFile
  <2> QED BY <2>1, ToBusy, QuitBusy DEF Corners
<1>9. ASSUME NEW p \in WsProcs, FillFile(p) PROVE Busy'
  <2>1. shell' = [shell EXCEPT ![p].pc = "open", ![p].todo = Tail(@)]
    BY <1>9 DEF FillFile
  <2> DEFINE todo == Tail(shell[p].todo)
  <2>2. todo \in Tasks /\ "open" \in Corners \ {"fill"}
    BY <1>0, <1>9, LeftIsPlan DEF FillFile, Where, Busy, Corners
  <2>3. shell' = [shell EXCEPT ![p].pc = "open", ![p].todo = todo]
    BY <2>1 DEF Busy, Jobs
  <2> HIDE DEF todo
  <2> QED BY <2>2, <2>3, TodoBusy
<1> QED BY <1>1, <1>2, <1>3, <1>4, <1>5, <1>6, <1>7, <1>8, <1>9 DEF WsNext

(* Every step keeps what the commands leave in type.                         *)
LEMMA LeftStep ==
  ASSUME WsTyped, [WsNext]_wsVars
  PROVE  /\ dir' \in Shelves /\ profile' \in Shelves
         /\ devpod' \in {"none", "stopped", "running"} /\ past' \in Pasts
<1> USE DEF WsTyped
<1>1. CASE UNCHANGED wsVars
  BY <1>1 DEF wsVars
<1>2. ASSUME NEW p \in WsProcs, Begin(p) PROVE past' \in Pasts /\ UNCHANGED <<dir, profile, devpod>>
  <2>1. past.cmds + 1 \in 0..MaxCmds
    BY <1>2, WsAssumption DEF Begin, Pasts
  <2> QED BY <1>2, <2>1 DEF Begin, Pasts
<1>3. ASSUME NEW p \in WsProcs, Consent(p) \/ Check(p) \/ Status(p) \/ Up(p) \/ StepsEnd(p)
      PROVE  UNCHANGED <<dir, profile, devpod, past>>
  BY <1>3 DEF Consent, Check, Status, Up, StepsEnd
<1>4. ASSUME NEW p \in WsProcs, Mkdir(p) \/ Copied(p) \/ Patch(p) \/ Undo(p)
      PROVE  dir' \in Shelves /\ past' \in Pasts /\ UNCHANGED <<profile, devpod>>
  BY <1>4, PastTyped, ShelfWritten DEF Mkdir, Copied, Patch, Undo, Made
<1>5. ASSUME NEW p \in WsProcs, CopyFile(p)
      PROVE  dir' \in Shelves /\ UNCHANGED <<profile, devpod, past>>
  <2> DEFINE f == Head(shell[p].todo)
  <2>1. UNCHANGED dir \/ (profile.files[f] # "none" /\ dir' = [dir EXCEPT !.files[f] = profile.files[f]])
    BY <1>5 DEF CopyFile
  <2> SUFFICES ASSUME dir' = [dir EXCEPT !.files[f] = profile.files[f]] PROVE dir' \in Shelves
    BY <1>5, <2>1 DEF CopyFile
  <2>2. CASE f \in Files
    <3>1. profile.files[f] \in Written
      BY <2>2 DEF Shelves
    <3> QED BY <3>1, ShelfWritten
  <2>3. CASE f \notin Files
    <3> HIDE DEF f
    <3>1. dir' = dir
      BY <2>3 DEF Shelves
    <3> QED BY <3>1
  <2> QED BY <2>2, <2>3
<1>6. ASSUME NEW p \in WsProcs, Halt(p) \/ DevpodDelete(p)
      PROVE  /\ past' \in Pasts /\ UNCHANGED <<dir, profile>>
             /\ devpod' \in {"none", "stopped", "running"}
  BY <1>6, PastTyped DEF Halt, DevpodDelete
<1>7. ASSUME NEW p \in WsProcs, Provision(p)
      PROVE  /\ past' \in Pasts /\ UNCHANGED <<dir, profile>>
             /\ devpod' \in {"none", "stopped", "running"}
  <2> DEFINE raced == past.raced \/ (devpod = "none" /\ Beside(p))
  <2>1. raced \in BOOLEAN
    BY DEF Pasts
  <2>2. (past' = [past EXCEPT !.raced = raced] /\ devpod' = "running") \/ UNCHANGED <<devpod, past>>
    BY <1>7 DEF Provision
  <2>3. UNCHANGED <<dir, profile>>
    BY <1>7 DEF Provision
  <2> HIDE DEF raced
  <2> QED BY <2>1, <2>2, <2>3, PastTyped
<1>8. ASSUME NEW p \in WsProcs, RemoveDir(p)
      PROVE  dir' \in Shelves /\ past' \in Pasts /\ UNCHANGED <<profile, devpod>>
  <2>1. dir' \in Shelves
    BY <1>8, ShelfWritten DEF RemoveDir
  <2> DEFINE crossed == past.crossed \/ \E q \in Others(p) : Making(q)
  <2>2. crossed \in BOOLEAN /\ dir'.there \in BOOLEAN
    BY <2>1 DEF Pasts, Shelves
  <2>3. past' = [past EXCEPT !.made = FALSE, !.debris = dir'.there, !.crossed = crossed]
    BY <1>8 DEF RemoveDir
  <2> HIDE DEF crossed
  <2> QED BY <1>8, <2>1, <2>2, <2>3, PastTyped DEF RemoveDir
<1>9. ASSUME NEW p \in WsProcs, ProfileMkdir(p) \/ OpenFile(p) \/ ProfileRemove(p)
      PROVE  profile' \in Shelves /\ UNCHANGED <<dir, devpod, past>>
  <2>1. "torn" \in Written
    BY DEF Written
  <2>2. \/ UNCHANGED profile \/ profile' = [profile EXCEPT !.there = TRUE]
        \/ \E f : profile' = [profile EXCEPT !.files[f] = "torn"]
        \/ profile' = Absent \/ profile' \in InPart(profile)
    BY <1>9 DEF ProfileMkdir, OpenFile, ProfileRemove
  <2>3. UNCHANGED <<dir, devpod, past>>
    BY <1>9 DEF ProfileMkdir, OpenFile, ProfileRemove
  <2>4. CASE \E f : profile' = [profile EXCEPT !.files[f] = "torn"]
    <3>1. PICK f : profile' = [profile EXCEPT !.files[f] = "torn"]
      BY <2>4
    <3>2. [profile EXCEPT !.files[f] = "torn"] \in Shelves
      BY <2>1, ShelfWritten
    <3>3. UNCHANGED <<dir, devpod, past>>
      BY <2>3
    <3> QED BY <3>1, <3>2, <3>3
  <2> QED BY <2>2, <2>3, <2>4, ShelfWritten
<1>10. ASSUME NEW p \in WsProcs, FillFile(p)
       PROVE  profile' \in Shelves /\ UNCHANGED <<dir, devpod, past>>
  <2> DEFINE f == Head(shell[p].todo)
  <2>1. profile' = [profile EXCEPT !.files[f] = IF @ = "none" THEN @ ELSE "whole"]
    BY <1>10 DEF FillFile
  <2> HIDE DEF f
  <2>2. \E w \in Written : profile' = [profile EXCEPT !.files[f] = w]
    <3>1. CASE profile.files[f] = "none"
      BY <2>1, <3>1 DEF Written, Shelves
    <3>2. CASE profile.files[f] # "none"
      BY <2>1, <3>2 DEF Written, Shelves
    <3> QED BY <3>1, <3>2
  <2>3. profile' \in Shelves
    BY <2>2 DEF Shelves
  <2> QED BY <1>10, <2>3 DEF FillFile
<1>11. ASSUME NEW p \in WsProcs, Kill(p)
       PROVE  past' \in Pasts /\ UNCHANGED <<dir, profile, devpod>>
  <2> DEFINE debris == past.debris \/ Making(p)
  <2>1. debris \in BOOLEAN /\ past' = [past EXCEPT !.debris = debris]
    BY <1>11 DEF Kill, Pasts, Making, Runs
  <2> HIDE DEF debris
  <2> QED BY <1>11, <2>1, PastTyped DEF Kill
<1> QED BY <1>1, <1>2, <1>3, <1>4, <1>5, <1>6, <1>7, <1>8, <1>9, <1>10, <1>11 DEF WsNext

(* Every step keeps the types.                                               *)
LEMMA WsTypedStep == WsTyped /\ [WsNext]_wsVars => WsTyped'
BY BusyStep, LeftStep DEF WsTyped

(***************************************************************************)
(* The types of the workspaces hold in every state of their commands.       *)
(***************************************************************************)
THEOREM WorkspacesTypeCorrect == WsSpec => []WsTypeOK
<1>1. WsInit => WsTyped
  BY WsTypedFirst
<1>2. WsTyped /\ [WsNext]_wsVars => WsTyped'
  BY WsTypedStep
<1>3. WsTyped => WsTypeOK
  BY WsTypedIs
<1> QED BY <1>1, <1>2, <1>3, PTL DEF WsSpec
=============================================================================
