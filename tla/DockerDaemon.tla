---------------------------- MODULE DockerDaemon ----------------------------
(***************************************************************************)
(* The part of the Docker daemon the proxy commands of `ws` drive: two      *)
(* container names, the containers behind them, and the static address of   *)
(* the proxy, which one running attached container can hold at a time.      *)
(*                                                                         *)
(* The daemon is external: the repository holds the calls                   *)
(* (src/internal/docker/client.go) and not the code that answers them.      *)
(* Each operator below is the daemon's answer to one call: a reply, and     *)
(* the state the call leaves.                                               *)
(***************************************************************************)

CONSTANTS Ctr,    \* container identities; one is never used twice
          None    \* no container

ASSUME NoneAssumption == None \notin Ctr

(***************************************************************************)
(* cfg.ProxyContainer, and backupName(cfg).                                 *)
(***************************************************************************)
Primary == "primary"
Backup  == "backup"
Names   == {Primary, Backup}

(***************************************************************************)
(* What an image can turn out to be: it serves, it does not, or it does not *)
(* and has no HEALTHCHECK to say so.                                        *)
(***************************************************************************)
Kinds   == {"good", "bad", "blind"}
Replies == {"ok", "missing", "refused", "error"}

World == [name     : [Names -> Ctr \cup {None}],
          running  : SUBSET Ctr,
          attached : SUBSET Ctr,   \* has the endpoint with the proxy's IP
          sick     : SUBSET Ctr,   \* running, and its xray does not serve
          made     : SUBSET Ctr,   \* every identity handed out so far
          kind     : [Ctr -> Kinds],
          foreign  : BOOLEAN]      \* a foreign container holds the IP

Existing(w) == {w.name[n] : n \in Names} \ {None}
Holders(w)  == w.running \cap w.attached

(***************************************************************************)
(* c serves the proxy's address.                                            *)
(***************************************************************************)
Serving(w, c) == c \in Holders(w) /\ c \notin w.sick

Answer(r, w) == [reply |-> r, w |-> w]

DockerStop(w, n) ==
  LET c == w.name[n] IN
  IF c = None THEN Answer("missing", w)
  ELSE Answer("ok", [w EXCEPT !.running = @ \ {c}, !.sick = @ \ {c}])

(***************************************************************************)
(* Starting a running container is no error and no change.  A container     *)
(* that is attached takes the IP when it starts, and cannot if another      *)
(* container holds it.  xray reads its configuration here and only here.    *)
(***************************************************************************)
DockerStart(w, c, configOk) ==
  IF c \notin Existing(w) THEN Answer("missing", w)
  ELSE IF c \in w.running THEN Answer("ok", w)
  ELSE IF c \in w.attached /\ (w.foreign \/ Holders(w) # {})
       THEN Answer("refused", w)
  ELSE Answer("ok",
         [w EXCEPT !.running = @ \cup {c},
                   !.sick = IF configOk /\ w.kind[c] = "good"
                            THEN @ ELSE @ \cup {c}])

DockerRename(w, from, to) ==
  LET c == w.name[from] IN
  IF c = None THEN Answer("missing", w)
  ELSE IF w.name[to] # None THEN Answer("refused", w)
  ELSE Answer("ok", [w EXCEPT !.name = [@ EXCEPT ![from] = None, ![to] = c]])

DockerDisconnect(w, n) ==
  LET c == w.name[n] IN
  IF c = None THEN Answer("missing", w)
  ELSE IF c \notin w.attached THEN Answer("refused", w)
  ELSE Answer("ok", [w EXCEPT !.attached = @ \ {c}])

(***************************************************************************)
(* On a stopped container a connect only records the endpoint.  On a        *)
(* running one it is refused if the endpoint exists, or the IP is taken.    *)
(***************************************************************************)
DockerConnect(w, n) ==
  LET c == w.name[n] IN
  IF c = None THEN Answer("missing", w)
  ELSE IF c \in w.running /\ (c \in w.attached \/ w.foreign \/ Holders(w) # {})
       THEN Answer("refused", w)
  ELSE Answer("ok", [w EXCEPT !.attached = @ \cup {c}])

(***************************************************************************)
(* ContainerRemove with Force: stops, detaches and deletes.                 *)
(***************************************************************************)
DockerRemove(w, n) ==
  LET c == w.name[n] IN
  IF c = None THEN Answer("missing", w)
  ELSE Answer("ok", [w EXCEPT !.name[n]  = None,
                              !.running  = @ \ {c},
                              !.attached = @ \ {c},
                              !.sick     = @ \ {c}])

DockerCreate(w, n, c, k) ==
  IF w.name[n] # None THEN Answer("refused", w)
  ELSE Answer("ok", [w EXCEPT !.name[n]  = c,
                              !.attached = @ \cup {c},
                              !.made     = @ \cup {c},
                              !.kind[c]  = k])

(***************************************************************************)
(* The machine reboots: RestartPolicy UnlessStopped brings back what was    *)
(* running, and a container stopped through the API stays stopped.  Every   *)
(* container that comes back reads the configuration again.                 *)
(***************************************************************************)
DockerReboot(w, configOk) ==
  [w EXCEPT !.sick = {c \in w.running : ~configOk \/ w.kind[c] # "good"}]
=============================================================================
