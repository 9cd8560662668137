# A verification of `ws`

`ws` (src/, Go) manages development workspaces, a transparent proxy that runs
xray in a Docker container, and a "vault" served by an MCP server. This
directory holds TLA+ models of the parts of it whose correctness depends on
ordering, failure and concurrency, the TLC runs that check them on small
instances, and proofs that TLAPS checks for every instance.

## 1. Inventory

`ws` is a command-line program: every command is a process of its own, nothing
keeps two of them apart, and what outlives a command is in the file system and
in the Docker daemon. Within a process, concurrency is in the step runner, the
prompts and the vault session.

| Component (code) | State | Operations | Hard behaviour | What makes it correct |
|---|---|---|---|---|
| Proxy container transaction (`internal/docker/recreate_tx.go`, `docker.go`, `cmd/proxy*.go`) | the daemon: two names, containers, who runs, who holds the static IP | `recreate`, `update`, `rebuild`, `up`, `restart`, `down` | every request may fail, late or by the deadline of a context that others share; kill or reboot between two requests; another `ws`; another container on the IP | the replaced container exists until the new one is verified; every final line printed is true; an interrupted swap heals; every command ends |
| xray profiles (`internal/xray`, `internal/fsutil`, `cmd/proxy_profile.go`, `cmd/proxy_helpers.go`) | `config.json` (link, file or none), `profiles/*.json`, staged files, what the container has read | migration, `add`, `use`, `rm`, `regenerate`, `upgrade-config`, `init`, `debug` | check-then-act on files, read-modify-write, kill between rename and symlink, daemon down | the link resolves, no node is lost, only tested configurations go live, the container ends on the active one |
| Step runner (`internal/output/run.go`, `message.go`, `signal.go`) | the runner's state, the gate and its queue, the frame and its ticker, the signal channel | `Run` of tasks, nested `Run`, messages, two signals | four goroutines on one stream, a signal at any instruction, a stream that stops draining | the stream is never torn, every line once and in order, a signal is never dropped and always ends the process |
| Task log (`output/log.go`) | a ring of the last lines, the live line, the log file | writes from a task, its children | lines split over writes, a full ring, a lost file | the tail is the last lines, in order |
| Prompts (`output/prompt*.go`, `select.go`) | raw mode, the recorder of signals, the watchdog | ask, answer, abort | a signal, a hang-up or a panic during a question; terminal restore in bounded time | the terminal is restored, one cause is reported, by precedence |
| MCP client, vault commands, child processes (`internal/mcp`, `cmd/vault_*.go`, `internal/procx`) | child process group, pipe, session; what is stored in the vault | `NewClient`, `Call`, `Close`, signal forwarding; search, status, score, predict, ingest, backup-verify, reindex | time-outs, a server that hangs, crashes or is deaf, `Close` racing a signal, an answer lost after the write | nothing of the server is left unasked to end, an interrupted report says nothing, exit 0 is for what was seen to be well |
| Vault doctor (`cmd/vault_doctor*.go`) | PID and lock files of other processes | diagnose, fix | acts on a PID or a lock that has gone stale | kills and removes what it showed and what was agreed to, nothing else |
| Workspaces and their profiles (`internal/workspace`, `internal/profile`) | directories, devpod's list | new, start, stop, restart, code, delete; profile-create, profile-delete | partial failure of several steps, two shells on one name, a kill between devpod's part and the directory's | a directory is somebody's, devpod forgets a workspace before its directory goes |
| Proxy diagnosis, route protection (`cmd/proxy_doctor.go`, `docker/diagnose.go`, `tproxy.go`) | what one command read once and uses twice; the probe's sidecar container | doctor, check, status | the world changes between reads, a sidecar with a fixed name, a doctor that is killed | what could not be read never passes for well; each doctor measures in its own sidecar |
| xray documents and URIs (`xrayconf`, `vless`, `hysteria2`) | none | parse, generate, resolve | round trips | what is written parses to what was read |
| Rendering, help, config, detect, scripts | none | formatting, reading the environment | - | - |

How they interact. A command runs its work as tasks of the step runner. The
transaction and `profile use`/`debug` drive the same container; the container
reads the profiles' directory through a bind mount when it starts, so the files
and the daemon are the two halves of one state. A question of a prompt must not
be asked while a step runs, and the recorder of its signals takes over from the
runner's watcher. The vault commands share the MCP client. The doctor of the
proxy makes a container of its own on the proxy's network, where `status` and
another doctor see it.

`PROJECT.json` lists every component with its status, and under "hazards" the
places where the code is hard to test.

## 2. Modules

    DockerDaemon          what one request does to the daemon's state (external)
      ProxyTx             the proxy commands as processes of requests
        MCProxyTx         instances for TLC
        ProxyTxProofs     proofs, for every instance, and for one operator
    ProxyProfiles         the profiles' directory and the container that reads it
      MCProxyProfiles
      ProxyProfilesProofs proofs, for every instance
    StepReport            what the step runner promises the reader of its stream
    StepRunner            the step runner's goroutines; implements StepReport
      MCStepRunner
      StepRunnerProofs
    TaskLog               the file a task's child writes, and what ws reads of it
      MCTaskRun           the runner or a log, in one run
        TaskLogProofs     proofs of the log, and of the two together
    VaultReport           exit codes, bands and scores, as operators
      VaultSession        a vault command, its server, its signals, the vault
        VaultSessionProofs
    Prompt                a prompt, Bubble Tea, the recorder, the terminal
    Workspaces            shells on one workspace and one profile
      WorkspacesProofs
    ProxyDiagnosis        doctor, check and status, and the sidecar
      ProxyDiagnosisProofs
    MCCommands            one of the last four at a time, in one run
      CommandsProofs      proofs of Prompt, and of the four together

### ProxyTx

`docker` maps the names `primary` and `backup` to containers (Docker's own
state, as much as the code relies on: existence, running, endpoint, health,
whether the static IP is taken). `cli[p]` is one `ws` process: the request it is
about to send (`pc`), the locals of `proxyRecreate` (`swap` is `primaryExists`,
`todo` the `rollbackState` that `criticalRollback` prints), and whether its
context has expired (`dead`). One action is one request with every branch the
code takes on its answer: `StopOld`, `RenameOld`, `DisconnectOld`, `Create`,
`StartNew`, `VerifyNew`, `Commit`; the undo steps; `Rb*` of `rollbackToBackup`;
`Triage*` and `Heal*` of `triageStaleBackup`. `Answers` gives a request its
outcomes: it succeeds; it is refused; it takes effect and reports an error
("late"); or its context's deadline passes and every later request on that
context fails too. `Health` is the poll of `verifyHealthy`/`WaitForHealth` by its
outcome. `Kill`, `Reboot` (with `unless-stopped`), `EditInputs` (image or
configuration changes or goes) and a foreign container on the IP interleave
with everything.

`OldPlaced`, in the proofs, says where the replaced container is at each label,
and `SoloInv` what else is true there when one operator works alone.

### ProxyProfiles

`config` is what config.json is (a link to a profile, a file, nothing) and
`files` what each file holds, as the four fields the commands own or copy: the
node, the routing, the log level and the canonical inbound. `stages` are the
files `add` stages for `xray -test`. An action is one read or one atomic write
(`fsutil.WriteFile` and `AtomicSymlink` are both one rename) or one request;
so every check and the act it guards are separate steps, as in the code. Chmod
and rename of `MigrateLegacy` keep their treatment of a symlink: that is what
`profiles_migrate` is about. `Die` is a kill, or a request of the restart that
fails: both leave the files and the container alike. `Respawn` is the restart
policy: xray exits on a configuration it rejects and reads again what is there.
Reads that only feed a message (the previous profile of `use`, `show`,
`current`) and the waits for health have no step. Two reads in a row of the same
command are one step where no property tells them apart (`AddLook`, `UseLook`).

### StepRunner and StepReport

`main` is the goroutine of `run`/`runTask`/`runNested`; `run` is
`runner.state`/`pending` under its lock; `gate` is `owner.open`/`queue`; `frame`
has the ticker; `drain[d]` is where the owner or the interrupt is in `drain`;
`sig` has the channel, the watcher and the interrupt. An action is one section
under a lock or one write to the stream, so a redraw can be under way while the
drain begins, and a message can come while the queue is being written.
`StepReport` says what a reader sees: tasks in order, one result line each, the
task's messages after it and before the next task, the tasks not run listed at
the end. `StepRunner` implements it under the mapping `Report` (the lines that
are not a nested Run's own; the phase read off them).

### TaskLog

A byte of the log is modelled by its kind (text, blank, the lead or continuation
byte of a rune, line feed, carriage return) and a line by the places of its bytes
in the file, so that two lines never look alike. `log` is the struct `Log`;
`from`, where the last window began, is a ghost. `ReadNew` is one action: the
file only grows, the read stops at the size it had when it began, and the lock
keeps `Tail` and `liveLine` apart; it may stop anywhere, as a read that fails
does. `KnownLines` is the reference: it splits the whole file, not what was read
piece by piece, and says what a log that began at `from` can know of each line.

### VaultReport and VaultSession

`VaultReport` has what decides without doing: the exit code of an envelope, of
a score and of every band, the collectors' verdicts on what they read, the lookup
of the checkout and of `uv`. `VaultSession` is one command from the shell to its
exit status: `cmd` (what was typed, in which environment), `ws` (the goroutine of
`RunE`), `sig` (signals sent, the context of `NotifyContext`, the forwarder),
`server` (the process group: `uv` leads, python is its child) and `vault` (what
is there before and after: notes, locks, orphans). `Spawn` to `Close` are the
client's steps. The server is external: it may answer, answer garbage, hang, be
deaf to SIGTERM, crash or end at any time. `Again` is the operator who retries an
ingest. `sound` and `cut` in `ws` are ghosts: whether every source of the report
was seen to be well, and whether a cancelled context broke one.

### Prompt

`asker` is the goroutine that asks, `tea` Bubble Tea's run of the form, `queue`
the channel of os/signal (three places; a fourth copy is dropped), `rec` the
recorder with its watchdog, `tty` the terminal. Bubble Tea and huh are external:
they may answer, abort, fail, panic or hang. Under TERM=dumb only `asker` runs,
and a signal has its default action. `RootDies` is the root's end of the process
by the signal that cancelled the prompt.

### Workspaces

`shell[p]` is the command a shell runs; `dir` and `profile` are the directories
with each file absent, torn or whole; `devpod` is what devpod knows. One action
is one file operation or one call of devpod, each of which may fail, and `Kill`
ends a command anywhere. `past` are ghosts for the properties: a directory
reported as made, one left by a kill, a delete that warned, and the two overlaps
(`crossed`, `raced`) for which the code promises nothing.

### ProxyDiagnosis

`diag[d]` is one command: the check it is at and what it read and uses again
(`list`, `names`, `mode`, `self`). Each check is one action that chooses what it
reads, since the world may change between two reads, and concludes with the
table of the code (`Contract`, `DefaultRoutes`, `Egress`, `ForwardingVerdict` ...).
`sidecar` is the container named `ws-proxy-fwdcheck`, `left` the doctors that
could not remove theirs. `proved` and `clean` are ghosts: whether every hard
check saw what it has to see, and whether there was nothing soft to report.

## 3. Runs

| Run | Question and result |
|---|---|
| `tx_solo` | One operator, every command, in any order; a failing request, a kill or reboot, an edit, a stolen address. `OldKept`: the replaced container exists until the commit. `RolledBackServes`, `CommittedServes`: "rolled back" and "committed" are true when printed. `SelfHealsStopped`: a stopped leftover backup is restored. |
| `tx_swaps` | Sequences of swaps with bad images and configurations and a foreign container. `CriticalExact`: the commands CRITICAL prints all work, and then the old proxy serves. `NeverDead`: a failed swap that does not say so leaves something on the address. `CalmKnownGoodKept`: without failures the last container proven healthy is only ever deleted for another one. |
| `tx_pair` | A recreate beside a process that runs up, restart, down. `EveryCommandEnds`. |
| `tx_known_good_lost` | Violation of `KnownGoodKept`: the triage deletes a backup because a primary exists, verified or not. |
| `tx_deadline_dead` | Violation of `NeverDead`: a deadline met by the rename also fails the undo, which shares its context. |
| `tx_heal_stuck` | Violation of `SelfHeals`: a rollback killed after it started the backup leaves a state no later recreate restores. |
| `profiles` | Two processes, three commands, from no directory, a legacy file or a migrated one; a kill or a silent daemon; an edit by hand. One at a time: `LinkResolves`, `NothingLost`, `OnlyTestedGoesLive`, `DebrisBounded`. However they interleave: `Converged` (when all is quiet a healthy proxy runs what config.json leads to) and `RejectsAdmitted`. |
| `profiles_migrate` | Violation of `AllKept`: two commands that migrate the same legacy file at once lose it. |
| `runner` | Two tasks, a nested Run of two, two messages, two signals. `NeverTorn`, `OneResult`, `NothingLost`, `NestedResultFirst`, `SignalHandled`, and the refinement `ReportKept`, which includes the order of the messages. In behaviours of its own, a task's log: `TailIsTrue`. |
| `runner_ends` | The same goroutines, fair, with tasks that may never end and a stream that may stop draining. `EndsBySignal`. |
| `runner_nested` | Violation of `NestedTasksBarred`: a signal between `barred()` and the start of the nested task. |
| `commands` | Four parts that share no state, each in behaviours of its own (`on` says which). Vault: `SessionEndsClean`, `InterruptedSaysNothing`, `VerdictHonest`, `IngestOnce`, `DoctorDoesAsShown`, `VaultEnds`. Prompt: `SignalNeverAnAnswer`, `TerminalRestored`, `AnsweredByEnter`, `PromptEnds`. Workspaces: `DirectoryAccounted`, `OrphanOnlyWarned`. Diagnosis: `DiagnosisHonest`, `SidecarAccounted`. |

Bounds. Three containers are enough for the old, the new and one left by an
interrupted swap; the run in which two processes each create one has four. One
fault on top of one kill reaches every branch of the rollback, because the
rollback itself begins with a configuration or an image that does not serve,
which is not a fault. Two profiles, one good and one rejected node and three
commands reach every pair of commands with a third that set the stage (add
unvalidated, then use). Two signals are what the watcher tells apart; two
messages what ordering needs; two tasks and two nested ones give a task before,
during and after each event. `CHECK_DEADLOCK FALSE` appears in the runner's runs
because a Run ends. In `profiles` the two processes are interchangeable, and in
the two solo runs of ProxyTx the containers are, so they are symmetric.

In `commands`: two ingests, for a retry; two signals, one that cancels and one
that finds nothing listening; two fields, so that a form can end in the middle;
four signals to a prompt, one more than its channel holds; two shells and three
commands, which is a new, a delete and a second new around it; two doctors, one
of which meets the other's sidecar, and one workspace container, because each
check reads the containers one by one and its table is a quantifier over them. In
the log: a tail of two lines, a cap of three bytes, a window of two and six
bytes written, enough for a line over the cap, a third line, a skip into a line,
a rune or a redraw, and a skip after a read that stopped. Both runs say
`CHECK_DEADLOCK FALSE`: commands end.

"One at a time" is the ghost `overlap` in ProxyProfiles: the properties it
guards are false when commands overlap, and the hazards in `PROJECT.json` say
which overlap breaks which. In ProxyTx the same role is played by the instance:
`tx_solo` and `tx_swaps` have one process.

Fairness. `ProxyTx!FairSpec`: weak fairness of each process's own next step.
Every request carries a context with a deadline and every poll a budget, so a
process that lives gets an answer; nothing is assumed of the environment.
`StepRunner!FairSpec`: weak fairness of the goroutines, by Go's scheduler, and
strong fairness of the ticker's exit, since a `select` with two ready cases
picks at random; none of a task's body (it may run for ever) and none of the
stream (it may stay stopped). `SessFairness`: ws takes its own steps; those that
wait for the server or the operator are only assumed once the server cannot
answer any more or the context is cancelled, and that a sent signal cancels the
context is the runtime's promise. `VaultEnds` excepts `wedged`: a child whose
descendant keeps its output open. `PromptFairness`: the goroutines run and the
grace timer fires, and Bubble Tea returns once it is quitting, unless it hangs,
which it may at any time; nothing is assumed of the operator or of the terminal.

## 4. Proofs

Every safety property that a run checks of a component is a theorem, for every
value of the constants: any number of processes, containers, tasks, signals or
doctors, and any bound; so is the refinement of the step runner, and so are the
types. A proof module has the lemmas about the operators, the
inductive invariant as a conjunction of named parts, the lemmas about the actions,
and the theorems. The parts that TLC can evaluate were checked on the runs'
instances before they were proved.

### ProxyTx

`ProxyTxProofs`, for every set of processes and containers, every assignment of
commands and every kind of fault:

- `TypeCorrect == Spec => []TypeOK`. The lemmas follow the model: each
  operation of the daemon returns a reply and a state (`StopType` ...), so every
  answer a process can get is one (`AnswersFacts`), and each action is then one
  use of `StepType`.
- `OldAlwaysKept`: `Spec => []OldKept`, assuming `OneRecreator`: at most one
  process runs recreate, update or rebuild. The assumption is needed: two
  recreating processes take each other's backup for garbage, which is
  `tx_known_good_lost`. Any number of others may run up, restart and down,
  processes may be killed and requests may fail in every way.

`OldKept` is not inductive: it says that the old container exists and nothing of
where. `Inv` adds `RoleOK` (a process inside a swap is one that may recreate) and
`OldPlaced`: at the labels before the rename the old container has the primary
name (`AtPrimary`), after it the backup name (`AtBackup`), and at the labels
where a rename may have happened unseen (a late error) one of the two. The step
case goes by actor: the recreating process's own actions one by one (`Actor`),
everybody else's, which never rename or remove anything while a swap is under
way (`Bystander`, `HarmlessNames`), and the surroundings, which change no name.

The second part of the module is about one operator, through any sequence of
commands, kills, reboots, edits and foreign containers:

| Theorem | Property | Assuming |
|---|---|---|
| `RolledBackAlwaysServes` | `RolledBackServes` | `Alone` |
| `CommittedAlwaysServes` | `CommittedServes` | `Alone` |
| `StoppedAlwaysHeals` | `SelfHealsStopped` | `Alone` |
| `CriticalAlwaysExact` | `CriticalExact` | `Alone`, no fault is "late" |
| `KnownGoodAlwaysKept` | `CalmKnownGoodKept` | `Alone`, `NoUp` |
| `RecreateNeverLeavesADeadProxy` | `NeverDead` | `Alone`, `NoUp`, `Refusing` |

`Alone` is that there is one process: beside another the statements are false,
or about a moment that has passed by the time they are printed. `NoUp` is that it
does not run up or restart: those create a proxy beside a running backup, which
the next triage removes (`tx_known_good_lost` is the other way to get there).
"late" is a request that is done and reported as failed: with it, the list of
CRITICAL repeats a step (section 5). `Refusing` is that requests fail at most once
and by a refusal: a deadline is `tx_deadline_dead`, and a second refusal can hit
the undo, whose error the code drops. These are the assumptions of the runs
`tx_solo` and `tx_swaps`, which check the same properties.

The argument. `SoloInv` is `Inv`, that the daemon is `Sane` (two names are two
containers, what has no name neither runs nor is attached), and for each label of
the process: which name is free (`Vacant`), that the replaced container stays
stopped until it is started again, and has its endpoint back by then
(`OldHalted`), where the new one is and what was seen of it (`NewPlaced`), what the
last line said (`TrueWhenSaid`) and, for a recreate that found a stopped backup,
that it is on its way to restore it (`Healing`). Each action has an operator that
says what it finds and what it does in a small vocabulary (`Stopped`, `Started`,
`Attached`, `SetAside`, `PutBack`, `Deleted`, `Created`, `Costs` ...), a lemma that
the action is that (`...Effect`), and one that what it does keeps `SoloInv`
(`...Solo`). The other invariants reuse the same effects and add to `SoloInv`:
`RecoverInv`, that the rollback state is what is left to do (`LeftToDo`), from which
`ListWorks` runs the printed list; `ApartInv`, that beside a primary a backup is
stopped; `AliveInv`, that what served at the start serves until it is stopped, and
that a swap which failed after that has used up the one refusal, so that its undo
works; `CalmInv`, that what last passed its check is the backup until the new one
has passed.

### ProxyProfiles

`ProxyProfilesProofs`, for every set of names, nodes and processes, every choice
of commands and first layouts. However the commands overlap:

- `ProfilesTypeCorrect == Spec => []TypeOK`. TypeOK is not inductive: a write
  puts on disk what the process carries. `WellFormed` adds `CarriesContent`: at
  the labels of `Carrying` that is a configuration, and an upgrade writes to a
  profile, never to config.json itself.
- `SwitchConverges == Spec => []Converged`, by the inductive invariant `Mended`:
  if a healthy container has not loaded what config.json leads to, then it is
  admitted (`stale`), or a process that is still to restart it exists
  (`Restarting`), or a migration has moved the file and is about to link it
  (`Moving`). When every process is idle the last two are impossible, which
  leaves `Converged`. Most steps leave all of this alone (`Same`, `MendedAside`);
  a write beside the active profile does (`SameElsewhere`), and a write to it
  says so or is followed by a restart (`SameOrStale`, `MendedByRestart`).
- `RejectsAlwaysAdmitted == Spec => []RejectsAdmitted`, by `AllAdmitted`: what is
  on disk, and what a process is about to rewrite, has a node that xray accepts
  or that some command admitted; an `add` that reaches its commit carries a
  configuration that passed `xray -test`.
- `DebrisAlwaysBounded`, by `OnePerName`: only an `add` stages a file, and it sweeps
  the others of its name first.

As long as no two commands have overlapped (the ghost `overlap`, which the
properties themselves name), and wherever a command was killed:
`LinkAlwaysResolves`, `NodesNeverLost`, `OnlyTestedAlwaysLive`. Their invariant
`Kept` says that one process works (`Solo`), what the directory is after each of
its steps (`Shelf`: no file is broken, config.json leads to a configuration unless
it is absent, every node that is owed is in a file, what is live was tested or
admitted) and what it knows at each label of each command from what it has read
(`Knows`: `Migrating`, `Adding`, `Using`, `Removing`, `Rewriting`). The step that
needs care is between the rename of the migration and its link: there is no
config.json, and `Migrating` says that the profile holds the tested configuration
it held; a kill there leaves `Shelf` as it is.

### StepRunner

`StepRunnerProofs`, for every number of tasks, nested tasks, messages and
signals: `SignalIsHandled`, `FrameIsNeverTorn`, `ResultIsOne`, `NothingIsLost`,
`NestedResultIsFirst`. One inductive invariant, `RunInv`, whose parts are read in
this order: the watcher leaves its wait with a signal or after the last one
(`Watched`); who has the task, the owner or the interrupt (`Owned`); the frame is
shown only while the gate is open and no drain has come to its result line
(`Behind`), so nobody writes under it (`NeverTorn`); the gate is open until a drain
finds its queue empty (`Gated`); what is on the stream, in the batch a drain took
and in the queue are together the messages that were sent, in their order
(`Listed`, `Sent`); the tasks before the current one have their line, and it has its
own once a drain is past it (`Counted`); and where a nested result is among its
task's messages (`Placed`). The parts are proved one at a time (`SentStep`, `CountedStep`, `PlacedStep` ...)
over the same per-action lemmas of what a step does to each variable.

`ReportIsKept == Spec => ReportKept` is the refinement: every behaviour of the
goroutines, under the mapping `Report`, is one of StepReport. The mapping filters
and counts the lines of the stream, so the proof begins with the filter:
`TopAppend`, that a line more adds what the reader sees of it or nothing, and
`TopIsFaithful`, that the reader sees as many lines of a kind as there are. Then it
needs to know from the lines alone where the owner is. `Told` says so: as many
tasks have their line as have ended, all of them "ok" while the owner goes on, and
one says "interrupted" exactly when an interrupt drained a task that had not ended
(`CutShort`). `PhaseFacts` reads the phase of the report off that. Each action is
then either a stutter (`Going`, `PhaseStays`), or one line of the report with the
phase before and after it; the lines an interrupt writes, of a task that is not its
own, are among them.

`TypeCorrect == Spec => []TypeOK` needs the invariant too: what a drain takes is
lines of the queue (`BatchTyped`), and the counts stay in their bounds only because
a nested Run begins at a number of its own (`Along`).

### TaskLog

`TaskLogProofs`, for any number of bytes, any window, cap and tail:
`LogTellsTheTruth == LogSpec => []TailIsTrue`, `LogTypeCorrect`, and the types of
the run in which the log is checked beside the runner (`RunTypeCorrect`).

`TailIsTrue` compares what a reader put together byte by byte, with skips, to the
whole file split at its line ends. `LogInv` says of the log what each field is of the
file, up to the byte it has read (`Keeps`): whether the last byte was a carriage
return, whether the window began inside the line that goes on, the text of that line
since the window began, cut at the cap, whether it was longer than the cap, and the
last of the lines that have ended. A byte more keeps it so: `LineStep` for a byte of
text, with the cap, the redraw and the rune that the cap would halve; `EndStep` for a
line feed, with the lines shown and the tail; a skip starts it afresh
(`SkippedKeeps`). `ParsedKeeps` is the read of any number of bytes, stopped
anywhere. That the child writes while nobody reads changes none of it (`KeepsStays`),
because the lines up to a place depend on the file up to that place (`Grown`,
`KnownStays`). `Spelled`, that a continuation byte follows a lead byte and nothing
else does, is what keeps a kept line from beginning or ending inside a rune.

### VaultSession

`VaultSessionProofs`, for any server, operator, signals and deadlines:
`SessionAlwaysEndsClean`, `StatusNeverReportsItsInterruption`,
`VerdictAlwaysHonest`, `IngestAlwaysOnce`, `DoctorAlwaysDoesAsShown`, from
`SessionInvariant`. `SessInv` has a part for each: `SessionInv`, that the group was
told to end before `Close` and the leader is reaped after it; `SilenceInv`, that what an ended context
cut short is remembered up to the report; `VerdictInv`, that a report without red
or yellow is of sources that were seen to be well, but for the failed handshake,
whose own check is still to come (`Pending`); `IngestInv`, that the code 0 of an
answer stands for a note; `DoctorInv`, that the report is printed before any
mutation, and that the gate of each was passed before it.

`SessionTypeCorrect == SessSpec => []SessTypeOK`. It needs that an ingest writes one
note a run at most: without `NoteEach` (no more notes than runs, one less while the
command may still call) the count of notes has no bound. `SessOps` has to have a
member (`SessAssumption`), or nothing is ever typed.

### Prompt

`CommandsProofs`, for a form of any number of fields and any number of signals:
`SignalIsNeverAnAnswer` (by `Heard`: once a signal came, its copy is in the channel
or one was taken, and a recorder that is done left none), `TerminalAlwaysRestored`
(the terminal is raw only while the form runs, or after a death that it held back),
`AnswerIsAlwaysTyped`, and `PromptTypeCorrect`: the channel never holds more than it
has room for, and who dies of the watchdog dies of a signal.

### Workspaces

`WorkspacesProofs`, for any number of shells, wherever they are killed:
`DirectoryAlwaysAccounted` (`Accounted`: unless a delete crossed a new, at most one
new is making the directory, it is there meanwhile, was not reported yet, and has
the needed files that are behind it) and `OrphanAlwaysWarned` (`Entry`: whoever is
about to remove the directory, a delete past devpod or a new that may fail, finds no
entry of devpod's, or one that was warned about or raced). `WorkspacesTypeCorrect`
takes with it that a shell that fills a profile has a file left to write (`Busy`).

### ProxyDiagnosis

`ProxyDiagnosisProofs`, for every set of commands and containers:

- `SidecarAlwaysAccounted == DiagSpec => []SidecarAccounted`. It is inductive
  with two additions: `LeftIsPast`, that a doctor whose sidecar was left behind is
  past its probe, without which Docker's late removal could take a sidecar someone
  measures in; and `Placed`, the little type information the updates need. The
  checks that only read are one lemma (`ChecksOffKeeps`): whatever a check
  concludes, it leads to no stage of the probe (`AfterIsNoStage`), so the command
  disturbs nothing (`Aside`). The five actions of the probe have a lemma each;
  that a create fails while the name is taken is where mutual exclusion comes
  from.
- `DiagnosisAlwaysHonest == DiagSpec => []DiagnosisHonest`, by `AllSound`: a command
  on its way has proved all that it passed and shown the rest, and at the forwarding
  check and the stages of its probe it remembers that the proxy's own way out is the
  exit's, without which the comparison there would mean nothing.
- `DiagnosisTypeCorrect == DiagSpec => []DiagTypeOK`: every action of one command
  replaces its record by one of `Results` (`Turns`), and the sidecar goes from one
  of `Sidecars` to another (`SidecarsAre`).

### The four together

`CommandsTypeCorrect == Spec => []TypeOK`, of MCCommands: each part's types are
inductive by themselves (`...TypedStep`), hold where the part begins and where it
stands still (`...TypedFirst`), and a step of the whole is a step of one part and a
stutter of the others.

### Induction

The library's induction theorems take an operator as a parameter, which the provers
cannot instantiate. The proofs here state an induction over the numbers on the set
of those that have the property instead: a set of numbers that is not empty has a
least member (`LeastIs`, from the well-foundedness of `<` on the naturals), so a set
that has 0 and with every number the next one has them all (`Inductive`). With
it the filter of the report, and the lists of places of TaskLog and its parse of a
number of bytes, are reasoned about for every length. What is defined by a
recursive function is first given as a predicate on the function (`Sees`, `Sorts`,
`Reads`), which one number more extends.

### What proving changed in the models

Two models admitted behaviours that the code does not have, and were corrected. A
form could return after the watchdog had ended the process, so a dead prompt
answered; Bubble Tea's return now needs a prompt that is still there. And two nested
Runs of one task used the same identities for their tasks, so the second one's
results would have counted as the first one's; they are now counted on. Choices
in order are IF/ELSE: a CASE whose guards overlap may take any of its arms, and
a proof has to allow for it. TaskLog's parse of what is new, and the reference's
lists of places, are functions of a number: folds and sorts say the same of any
instance and could not be reasoned about.

### Only model-checked

- Liveness: `EveryCommandEnds`, `EndsBySignal`, `VaultEnds`, `PromptEnds`. The
  provers have no reasoning about fairness.

## 5. Where code and documents differ

Shown by a violation run: the five findings of `PROJECT.json`. Met while
modelling, and not runs of their own:

- `cmd/proxy.go:544-547` says of a failed update that "the previous version is
  still serving"; after CRITICAL it may not be.
- `update` prints "Proxy restarted with new version" when the recreate healed an
  interrupted swap, and so restored the old container.
- With a request that takes effect and then reports an error, `CriticalExact`
  does not hold: the recovery commands repeat a step that was done.
- `internal/xray/switch.go:77` recommends `ws proxy down && ws proxy up` to get
  the whole-directory bind; `ProxyUp` starts the existing container, which keeps
  its bind (`VerifyProxyReadyForReload` recommends `rebuild --force`).
- `docs/proxy-profiles.md:39` says that `init` creates `profiles/primary.json`
  and the link; the code writes config.json itself on a fresh directory.
- `internal/xray/profile.go:125` relies on `use` to validate "before anything goes
  live"; an `add --force` of the active profile while the proxy is down goes live
  with the next `up`. `OnlyTestedGoesLive` makes the exception explicit.
- `docs/vault-commands.md:79` gives exit 4 for an unset token; a command that
  calls the server exits 1 and `status` 2, because the client is not made.
- `vault_doctor.go:109` looks for orphans by `vault_ai/adapter_stdio/server.py`;
  the client starts `python -m vault_ai.adapter_stdio.server` (`client.go:168`),
  which that pattern does not match. And a `pgrep` that is absent or killed prints
  nothing and reads as green, where the comment at 120-122 says yellow.
- A handshake that fails leaves by a path that does not signal the group
  (`client.go:194-199`): python can outlive the command.
- The deadline of `procx` is not hard while a descendant of the child holds its
  output open (`wedged`), which the comment at `vault_status.go:209-213` excludes.
- `predict` ignores the error of an envelope that says OK; `backup-verify` ignores
  `sc.Err`, so a last line over 1 MiB lets an earlier one decide; the failure of
  `vault-health-score` has the exit code of its yellow band.
- `ForwardingEgressProbe` removes its sidecar "unconditionally - even on error or
  panic" (`tproxy.go`): a killed doctor leaves it, for five minutes if it was
  started and for good, in the way of every later doctor, if it was not.
- A running sidecar of one doctor is on the list another reads: it fails that
  one's check of default routes, and `status` shows it as an unprotected workspace.
- `new` removes by name on failure: after a delete and another `new` in between,
  what it removes is the other's (`past.crossed`). A failed `devpod delete` is
  only warned of, and the directory goes. `profile-create` is not atomic: `new`
  can copy a torn file, and a killed one leaves a profile that "already exists".

## 6. Not modelled

The passes that repair routes in workspace containers, beyond their effect on a
command's length; `--no-migrate`, which turns the migration into a refusal; the
prompt before a mutation of the proxy, which only decides whether a command goes
on; the content of documents beyond the four fields; SIGPIPE and the warning
about a lost log in the step runner; the token's bytes through the pipe; the reuse
of a pid by the system between the doctor's report and its kill; the parsing of
what docker, ip, ss and iptables print, of which only what was found is modelled;
the read-only commands of workspaces; layout and wording everywhere. Components
with status not_modelled: documents and share links of xray, whose parsing of
strings and JSON has no state and no interleaving and would be a transliteration
here; rendering, detection and the scripts, which keep no state.

One hazard has no property: `regenerate`, `debug` and `upgrade-config` write back
what they read before, and nothing in the code orders two of them.

## 7. Plan

In the order of what matters most to the operator:

1. *Done*: ProxyTx and ProxyProfiles; StepRunner with StepReport; TaskLog; the
   vault session and its tables; Prompt; Workspaces; ProxyDiagnosis.
2. *Done*: every safety property of theirs, the refinement of the step runner, and
   the types, as theorems.
3. The two-process forms of ProxyTx's theorems: which of `Alone`'s statements hold
   beside a process that only runs down, since `OldAlwaysKept` already does.
