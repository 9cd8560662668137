----------------------------- MODULE VaultReport ------------------------------
(***************************************************************************)
(* What the vault commands conclude from what they read: the exit code of   *)
(* an envelope, the health score and its band, the bands of the signals of  *)
(* ws vault status and of the checks of ws vault doctor, the verdict on     *)
(* the backups, and where the checkout and the uv binary are found.         *)
(* (src/internal/mcp/envelope.go, health.go, reporoot.go, auth.go and       *)
(* src/cmd/vault_*.go)                                                      *)
(***************************************************************************)
EXTENDS Integers, Sequences, FiniteSets, SequencesExt

Bands == {"green", "yellow", "red"}

-----------------------------------------------------------------------------
(* Envelopes.                                                                *)

(***************************************************************************)
(* An answer of the server: whether it says ok, and the code of its error   *)
(* block, "" for an empty one and "none" for no block.  "SURPRISE" stands   *)
(* for a code this version does not know.                                   *)
(***************************************************************************)
Codes == {"VALIDATION_FAILED", "BUDGET_EXCEEDED", "VISIBILITY_LEAK",
          "MISSING_DEPENDENCY", "AUTH_FAILED", "RATE_LIMITED",
          "NOT_IMPLEMENTED", "DEDUP_BLOCKED", "AGENT_TOOL_NOT_BOUND"}
Envelope == [ok : BOOLEAN, code : Codes \cup {"", "SURPRISE", "none"}]

Failed(code) == [ok |-> FALSE, code |-> code]
Fine         == [ok |-> TRUE, code |-> "none"]

(* A mutant: a code that is not known has no status.                         *)
MapKnownCode(code) ==
  CASE code = "BUDGET_EXCEEDED"      -> 2
    [] code = "VISIBILITY_LEAK"      -> 3
    [] code \in {"MISSING_DEPENDENCY", "AUTH_FAILED", "RATE_LIMITED"} -> 4
    [] code = "NOT_IMPLEMENTED"      -> 5
    [] code = "DEDUP_BLOCKED"        -> 6
    [] code = "AGENT_TOOL_NOT_BOUND" -> 7
    [] code = "VALIDATION_FAILED"    -> 1
    [] OTHER                         -> -1

MapErrorCodeToExitCode(code) ==
  CASE code = "BUDGET_EXCEEDED"      -> 2
    [] code = "VISIBILITY_LEAK"      -> 3
    [] code \in {"MISSING_DEPENDENCY", "AUTH_FAILED", "RATE_LIMITED"} -> 4
    [] code = "NOT_IMPLEMENTED"      -> 5
    [] code = "DEDUP_BLOCKED"        -> 6
    [] code = "AGENT_TOOL_NOT_BOUND" -> 7
    [] OTHER                         -> 1

ExitCode(e) ==
  IF e = Fine THEN 0
  ELSE IF e.code = "none" THEN MapErrorCodeToExitCode("VALIDATION_FAILED")
  ELSE MapErrorCodeToExitCode(e.code)

(* A mutant of it: only an error block counts as a failure.                  *)
RenderExitLax(e) == IF e.code # "none" THEN MapErrorCodeToExitCode(e.code) ELSE 0

(* The tail of search, validate, triage-run, get-coverage-report and ingest. *)
RenderExit(e) ==
  IF e.code # "none" THEN MapErrorCodeToExitCode(e.code)
  ELSE IF ~e.ok THEN ExitCode(e) ELSE 0

(***************************************************************************)
(* predict-bulk-load looks at the error block only when the answer does not *)
(* say ok.                                                                  *)
(***************************************************************************)
PredictExit(e) ==
  IF e.ok THEN 0
  ELSE IF e.code # "none" THEN MapErrorCodeToExitCode(e.code) ELSE ExitCode(e)

(***************************************************************************)
(* reindex passes on the status of embed_index.py, the -1 of one that a     *)
(* signal ended as 255, and 4 when it could not be started.                 *)
(***************************************************************************)
ReindexExit(root, child) ==
  IF root = "none" \/ child = "unstarted" THEN 4
  ELSE IF child = "killed" THEN 255 ELSE IF child = "failed" THEN 1 ELSE 0

-----------------------------------------------------------------------------
(* The score.                                                                *)

Clamp(v)    == IF v < 0 THEN 0 ELSE IF v > 100 THEN 100 ELSE v
Less(v, n)  == IF v < n THEN 0 ELSE v - n

Sentinels == {"dr-drill-stale", "cost-reconcile-drift", "triage-drift"}

(* orphanComplianceScore, in percent.                                        *)
OrphanPct(n) == IF n <= 0 THEN 100 ELSE IF n >= 100 THEN 0 ELSE 100 - n

(***************************************************************************)
(* The composition: cov, suf and link are percentages as the server sent    *)
(* them, orphans a number of rows, warn the sentinel files on disk.  The    *)
(* fractions of the code are hundredths here; its rounding to the nearest   *)
(* integer is the + 50.                                                     *)
(***************************************************************************)
Score(m, warn) ==
  LET cov  == Less(Clamp(m.cov), IF "cost-reconcile-drift" \in warn THEN 3 ELSE 0)
      suf  == Less(Clamp(m.suf), IF "triage-drift" \in warn THEN 5 ELSE 0)
      orph == Less(OrphanPct(m.orphans), IF "dr-drill-stale" \in warn THEN 5 ELSE 0)
  IN  (40 * cov + 30 * suf + 20 * orph + 10 * Clamp(m.link) + 50) \div 100

HealthBand(score) ==
  IF score >= 70 THEN "green" ELSE IF score >= 50 THEN "yellow" ELSE "red"

HealthBandExitCode(band) ==
  CASE band = "green" -> 0 [] band = "yellow" -> 1 [] OTHER -> 2

-----------------------------------------------------------------------------
(* The signals of ws vault status.                                           *)

(* A mutant: only the first stream is verified.                              *)
ChainBandFirst(uv, streams) ==
  IF ~uv THEN "yellow" ELSE IF streams[1] # "intact" THEN "red" ELSE "green"

(* verify_audit_chain over the streams, until the first one that fails.      *)
ChainBand(uv, streams) ==
  IF ~uv THEN "yellow"
  ELSE IF \E k \in DOMAIN streams : streams[k] # "intact" THEN "red" ELSE "green"

(* The cost rollups: none, one that could not be looked at, or one there is. *)
CostBand(log) == IF log = "there" THEN "green" ELSE "yellow"

(***************************************************************************)
(* The tools the server advertised; gate stands for create_note with the    *)
(* property check_dedup_before_create, bare for create_note without it.     *)
(***************************************************************************)
DedupBand(tools) ==
  CASE tools = {}        -> "yellow"
    [] "gate" \in tools  -> "green"
    [] OTHER             -> "red"

(* The age in days of the newest drill log, -1 when there is none to read.   *)
DrillBand(age) ==
  IF age = -1 THEN "yellow"
  ELSE IF age <= 95 THEN "green" ELSE IF age <= 100 THEN "yellow" ELSE "red"

(* assembleReport and worstBand: red wins, then yellow.                      *)
Worst(bands) ==
  IF "red" \in bands THEN "red" ELSE IF "yellow" \in bands THEN "yellow" ELSE "green"

(* mcpDownReport: the client could not be started, nothing else was read.    *)
DownReport == <<"red", "yellow", "yellow", "yellow", "yellow", "yellow">>

-----------------------------------------------------------------------------
(* The checks of ws vault doctor, other than the handshake.                  *)

(***************************************************************************)
(* pgrep -fc: the number it printed, -1 for words, and 0 as well for a      *)
(* pgrep that printed nothing (not installed, or killed at its deadline).   *)
(***************************************************************************)
OrphanBand(count) ==
  CASE count = 0 -> "green" [] count = -1 -> "yellow" [] OTHER -> "red"

(* The lock files under _tooling/state older than an hour.                   *)
LockBand(root, stale) ==
  IF root = "none" THEN "yellow" ELSE IF stale = {} THEN "green" ELSE "yellow"

TokenBand(token) == IF token THEN "green" ELSE "red"

(* check-xrepo-contract.sh: absent, agrees, or anything else it ended with.  *)
XrepoBand(root, walker) ==
  IF root = "none" \/ walker = "absent" THEN "yellow"
  ELSE IF walker = "agrees" THEN "green" ELSE "red"

-----------------------------------------------------------------------------
(* backup-verify.                                                            *)

(***************************************************************************)
(* The logs, each with its age in days (-1 when it cannot be looked at) and *)
(* its lines; of the newest one, the last line that is not blank decides.   *)
(* A line is what its outcome says, or "blank", "garbled" or "overlong": no *)
(* line is read from one of more than 1 MiB on.                             *)
(***************************************************************************)
LinesRead(lines) ==
  {k \in DOMAIN lines :
     /\ lines[k] # "blank"
     /\ \A j \in 1..k : lines[j] # "overlong"}

BackupExit(root, logs) ==
  LET seen   == {l \in logs : l.age # -1}
      latest == CHOOSE l \in seen : \A o \in seen : l.age <= o.age
      read   == LinesRead(latest.lines)
      last   == latest.lines[CHOOSE k \in read : \A j \in read : j <= k]
  IN  IF root = "none" \/ seen = {} THEN 4
      ELSE IF latest.age > 14 \/ read = {} THEN 4
      ELSE CASE last = "garbled" -> 4
             [] last \in {"green", "ok", "success"} -> 0
             [] OTHER -> 1

-----------------------------------------------------------------------------
(* Where things are.                                                         *)

(* ResolveRepoRoot: the override, the environment's, or one under the home.  *)
ResolveRepoRoot(override, env, home) ==
  IF override # "none" THEN override
  ELSE IF env # "none" THEN env
  ELSE IF home = "none" THEN "none" ELSE "projects/vault-ai"

(***************************************************************************)
(* resolveUV: a uv is its path as found (absolute or not), whether it       *)
(* resolves to a regular file, and whether the directory of that file can   *)
(* be looked at, is written by its owner alone, and is ours or root's.      *)
(***************************************************************************)
UvUsable(u) ==
  /\ u.found /\ u.absolute
  /\ u.resolves /\ u.regular
  /\ u.dirSeen /\ u.dirPrivate /\ u.dirOurs
=============================================================================
