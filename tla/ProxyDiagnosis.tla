---------------------------- MODULE ProxyDiagnosis ----------------------------
(***************************************************************************)
(* ws proxy doctor, check and status (src/cmd/proxy_doctor.go, proxy.go and *)
(* src/internal/docker/diagnose.go, tproxy.go): what each reads of the      *)
(* daemon, the proxy and the workspace containers, what it concludes, and   *)
(* the one thing the doctor makes, the sidecar of its forwarding probe.     *)
(* The world may change between two reads: every check chooses what it      *)
(* reads, and two things are read once and used by two checks.              *)
(***************************************************************************)
EXTENDS Integers, Sequences, FiniteSets, SequencesExt

CONSTANTS Diagnoses,       \* the commands, each run once
          DevContainers    \* the workspace containers

ASSUME DiagAssumption ==
  IsFiniteSet(Diagnoses) /\ IsFiniteSet(DevContainers) /\ "none" \notin Diagnoses

VARIABLES diag,      \* each command, where it is and what it remembers
          sidecar,   \* the container of the fixed name ws-proxy-fwdcheck
          left       \* the doctors that could not remove theirs

diagVars == <<diag, sidecar, left>>

Sidecar  == "ws-proxy-fwdcheck"
Networked == DevContainers \cup {Sidecar}

(* The doctor's checks, in order; forwarding is the sidecar's stages.        *)
CheckOrder ==
  <<"docker", "image", "active", "contract", "container", "preconditions", "subnet",
    "route", "egress", "forwarding", "v6", "protocol", "sockopt">>
Stages == {"start", "direct", "reroute", "forwarded", "remove"}
Outcomes == {"ok", "fail", "degraded", "unknown"}

ProbeIPs == {"host", "exit", "third", "junk", "error"}

DiagTypeOK ==
  /\ \A d \in Diagnoses :
       /\ diag[d].pc \in {"typed", "status", "ended", "killed"} \cup Stages
                           \cup ToSet(CheckOrder)
       /\ diag[d].exit \in -1..Len(CheckOrder)
       /\ diag[d].names \subseteq Networked /\ diag[d].list \in {"unread", "read", "error"}
       /\ diag[d].mode \in {"unread", "none", "unreadable", "tproxy", "redirect"}
       /\ {diag[d].self, diag[d].direct, diag[d].fwd} \subseteq ProbeIPs \cup {"unread"}
       /\ {diag[d].soft, diag[d].proved, diag[d].clean} \subseteq BOOLEAN
  /\ sidecar \in [by : Diagnoses \cup {"none"}, up : BOOLEAN]
  /\ left \subseteq Diagnoses

Fresh1(pc) == [pc |-> pc, exit |-> -1, names |-> {}, list |-> "unread",
               mode |-> "unread", self |-> "unread", direct |-> "unread",
               fwd |-> "unread", soft |-> FALSE, proved |-> TRUE, clean |-> TRUE]

DiagWorld(pc) ==
  /\ diag = [d \in Diagnoses |-> Fresh1(pc)]
  /\ sidecar = [by |-> "none", up |-> FALSE] /\ left = {}

DiagInit == DiagWorld("typed")
DiagOff  == DiagWorld("killed")

Doing(d, pc) == diag[d].pc = pc

-----------------------------------------------------------------------------
(* The outcome of a check, from what it reads.                               *)

Hard(passed) == IF passed THEN "ok" ELSE "fail"

(* The label of the image, and the mode of the active profile.               *)
Contract(label, mode) ==
  Hard(/\ label \in {"tproxy", "redirect"}
       /\ mode \in {"tproxy", "redirect"}
       /\ label = mode)

Healthy1(status) == Hard(status = "healthy")

(***************************************************************************)
(* A precondition that could not be read has no output, which holds         *)
(* nowhere.  The last has two readings, either of which is enough.          *)
(***************************************************************************)
Preconditions == {"capNetAdmin", "rpFilter", "listens", "mangle", "fwmark",
                  "loopGuard", "inputMark", "selfUDP"}
FailClosed(disabled, drop) == disabled = "1" \/ drop = "0"
Preconditioned(pre, disabled, drop) ==
  Hard(pre = Preconditions /\ FailClosed(disabled, drop))

(* The default route of every container listed; no container, no route.      *)
DefaultRoutes(list, names, route) ==
  Hard(list = "read" /\ \A c \in names : route[c] = "proxy")

(* The exit of a query that saw no resolver is inconclusive.                 *)
ClassifyDNS(direct, dns) ==
  IF dns = "none" THEN "degraded" ELSE Hard(dns # direct)

Tunneled(direct, proxied) == direct # proxied
Egress(direct, proxied, dns) ==
  IF {direct, proxied} \cap {"junk", "error"} # {} \/ ~Tunneled(direct, proxied)
  THEN "fail" ELSE ClassifyDNS(direct, dns)

ForwardingVerdict(self, forwarded, direct) ==
  Hard(forwarded \notin {"junk", "error"} /\ forwarded = self /\ forwarded # direct)

(* A mutant: a table that cannot be read holds no default route.             *)
WorkspaceV6Open(table, disabled) == IF table = "default" THEN "leak" ELSE "closed"

(* The table of v6 default routes; unread, the switch of the stack instead.  *)
WorkspaceV6(table, disabled) ==
  IF table = "default" THEN "leak"
  ELSE IF table \in {"blackhole", "empty"} \/ disabled = "1" THEN "closed" ELSE "unknown"

V6Outcome(list, names, verdict) ==
  IF list # "read" \/ \E c \in names : verdict[c] = "leak" THEN "fail"
  ELSE IF \E c \in names : verdict[c] = "unknown" THEN "unknown" ELSE "ok"

(* hysteria2's certificate is an observation; vless needs its fields.        *)
ProtocolSanity(p) ==
  IF ~p.loads THEN "fail"
  ELSE IF p.kind = "hysteria2"
  THEN CASE p.leaf = "refused" -> "unknown"
         [] p.leaf = "other"   -> "degraded"
         [] OTHER              -> "ok"
  ELSE Hard(p.sni /\ (p.kind = "reality" => p.shortId))

InboundTproxy(mode) ==
  CASE mode \in {"none", "unreadable"} -> "unknown"
    [] mode = "tproxy"                 -> "ok"
    [] OTHER                           -> "degraded"

(* Of a route, for ws proxy status.                                          *)
ClassifyRouteProtection(via) ==
  CASE via = "none"  -> "unknown" [] via = "proxy" -> "protected" [] OTHER -> "unprotected"

-----------------------------------------------------------------------------
(* The run.                                                                  *)

Rank(pc)  == CHOOSE k \in DOMAIN CheckOrder : CheckOrder[k] = pc
After(pc) == IF Rank(pc) = Len(CheckOrder) THEN "ended" ELSE CheckOrder[Rank(pc) + 1]

(***************************************************************************)
(* runChecks and doctorExitCode: a hard failure stops the run, and its      *)
(* place is the exit code; what no later check uses is forgotten.  proved   *)
(* and clean are not the code's: whether what was read is what the check is *)
(* there for, and without a doubt.                                          *)
(***************************************************************************)
Forgets(r, check) ==
  CASE check = "forwarding" -> [r EXCEPT !.self = "unread", !.direct = "unread",
                                         !.fwd = "unread"]
    [] check = "v6"         -> [r EXCEPT !.names = {}, !.list = "unread"]
    [] OTHER                -> r
Concluded(r, check, out, proved, clean) ==
  [(IF out = "fail" THEN [Fresh1("ended") EXCEPT !.proved = r.proved, !.clean = r.clean]
    ELSE Forgets(r, check)) EXCEPT !.pc     = IF out = "fail" THEN "ended" ELSE After(check),
            !.exit   = IF out = "fail" THEN Rank(check)
                       ELSE IF After(check) = "ended" THEN 0 ELSE @,
            !.soft   = r.soft \/ out \in {"degraded", "unknown"},
            !.proved = @ /\ proved,
            !.clean  = @ /\ clean]

ConcludesAs(d, r, check, out, proved, clean) ==
  diag' = [diag EXCEPT ![d] = Concluded(r, check, out, proved, clean)]

Concludes(d, check, out, proved, clean) ==
  ConcludesAs(d, diag[d], check, out, proved, clean)

Plainly(d, check, passed) == Concludes(d, check, Hard(passed), passed, passed)

(* ws proxy check: of four prerequisites at most one is not there or unread. *)
ProxyCheckCmd(d) ==
  /\ Doing(d, "typed")
  /\ \E prerequisite \in 1..4, r \in {"passed", "failed", "skipped"} :
       LET all == r = "passed" IN
       diag' = [diag EXCEPT ![d].pc = "ended", ![d].exit = IF all THEN 0 ELSE 1,
                            ![d].proved = all, ![d].clean = all]
  /\ UNCHANGED <<sidecar, left>>

DoctorOrStatus(d) ==
  /\ Doing(d, "typed")
  /\ \E pc \in {"docker", "status"} : diag' = [diag EXCEPT ![d].pc = pc]
  /\ UNCHANGED <<sidecar, left>>

(* Who is on the proxy's network: the workspaces, and a sidecar that runs.   *)
Listing == {ws \cup {c \in {Sidecar} : sidecar.up} : ws \in SUBSET DevContainers}
Routes(names) == [names -> {"proxy", "bridge", "none"}]

(* A scan that failed is shown as unknown; no container read, no report.     *)
ProxyStatusCmd(d) ==
  /\ Doing(d, "status")
  /\ \/ \E scanned \in BOOLEAN, names \in Listing : \E route \in Routes(names) :
          LET shown == {ClassifyRouteProtection(route[c]) : c \in names} IN
          diag' = [diag EXCEPT ![d].pc = "ended", ![d].exit = 0,
                     ![d].soft  = ~scanned \/ ~(shown \subseteq {"protected"}),
                     ![d].clean = scanned /\ \A c \in names : route[c] = "proxy"]
     \/ diag' = [diag EXCEPT ![d].pc = "ended", ![d].exit = 1]
  /\ UNCHANGED <<sidecar, left>>

DockerAndImage(d) ==
  /\ \/ Doing(d, "docker") /\ \E up \in BOOLEAN : Plainly(d, "docker", up)
     \/ /\ Doing(d, "image")
        /\ \E i \in {"there", "absent", "unread"} : Plainly(d, "image", i = "there")
  /\ UNCHANGED <<sidecar, left>>

ActiveProfile(d) ==
  /\ Doing(d, "active")
  /\ \E p \in {"accepted", "rejected", "none"} : Plainly(d, "active", p = "accepted")
  /\ UNCHANGED <<sidecar, left>>

(* The profile is read here once; the last check uses it again.              *)
DatapathContract(d) ==
  /\ Doing(d, "contract")
  /\ \E label \in {"tproxy", "redirect", "none", "unread"},
        mode \in {"none", "unreadable", "tproxy", "redirect"} :
       LET agree == label = mode /\ label \in {"tproxy", "redirect"} IN
       ConcludesAs(d, [diag[d] EXCEPT !.mode = mode], "contract",
                   Contract(label, mode), agree, agree)
  /\ UNCHANGED <<sidecar, left>>

ContainerHealthy(d) ==
  /\ Doing(d, "container")
  /\ \E s \in {"healthy", "unhealthy", "starting", "", "stopped", "unread"} :
       Concludes(d, "container", Healthy1(s), s = "healthy", s = "healthy")
  /\ UNCHANGED <<sidecar, left>>

(* At most one of them does not hold, or could not be read; the last has the *)
(* switch of v6 and the rule of ip6tables to be read.                        *)
V6Readings == {"1", "0", "unread"} \X {"0", "1", "unread"}
TproxyPreconditions(d) ==
  /\ Doing(d, "preconditions")
  /\ \/ \E bad \in Preconditions :
          Concludes(d, "preconditions", Preconditioned(Preconditions \ {bad}, "1", "0"),
                    FALSE, FALSE)
     \/ \E v6 \in V6Readings :
          LET well == v6[1] = "1" \/ v6[2] = "0" IN
          Concludes(d, "preconditions", Preconditioned(Preconditions, v6[1], v6[2]),
                    well, well)
  /\ UNCHANGED <<sidecar, left>>

NetworkSubnet(d) ==
  /\ Doing(d, "subnet")
  /\ \E s \in {"wanted", "other", "unread"} : Plainly(d, "subnet", s = "wanted")
  /\ UNCHANGED <<sidecar, left>>

(* The containers are listed here once; the check of v6 uses the list again. *)
DefaultRoute(d) ==
  /\ Doing(d, "route")
  /\ \E list \in {"read", "error"}, names \in Listing : \E route \in Routes(names) :
       LET well == list = "read" /\ \A c \in names : route[c] = "proxy" IN
       ConcludesAs(d, [diag[d] EXCEPT !.list = list, !.names = names], "route",
                   DefaultRoutes(list, names, route), well, well)
  /\ UNCHANGED <<sidecar, left>>

(* The live probe, which the forwarding check uses again.                    *)
SelfEgress(d) ==
  /\ Doing(d, "egress")
  /\ \E self \in ProbeIPs \ {"third"}, dns \in {"host", "exit", "third", "none"} :
       LET through == self = "exit" IN
       ConcludesAs(d, [diag[d] EXCEPT !.self = self], "egress",
                   Egress("host", self, dns), through /\ dns # "host",
                   through /\ dns \notin {"host", "none"})
  /\ UNCHANGED <<sidecar, left>>

WorkspaceV6FailClosed(d) ==
  /\ Doing(d, "v6")
  /\ \E table \in [diag[d].names -> {"default", "blackhole", "empty", "unread"}],
        disabled \in {"1", "0", "unread"} :
       LET verdict == [c \in diag[d].names |-> WorkspaceV6(table[c], disabled)]
           leaks   == \E c \in diag[d].names : table[c] = "default"
           sure    == disabled = "1" \/ \A c \in diag[d].names : table[c] # "unread" IN
       Concludes(d, "v6", V6Outcome(diag[d].list, diag[d].names, verdict),
                 ~leaks, ~leaks /\ sure)
  /\ UNCHANGED <<sidecar, left>>

Hysteria(leaf)   == [loads |-> TRUE, kind |-> "hysteria2", leaf |-> leaf,
                     sni |-> FALSE, shortId |-> FALSE]
Vless(k, sni, i) == [loads |-> TRUE, kind |-> k, leaf |-> "none", sni |-> sni,
                     shortId |-> i]
Protocols ==
  {Hysteria(l) : l \in {"pinned", "unpinned", "other", "refused"}}
  \cup {Vless(k, sni, i) : k \in {"reality", "tls"}, sni \in BOOLEAN, i \in BOOLEAN}
  \cup {[Hysteria("pinned") EXCEPT !.loads = FALSE]}
ProtocolAndSockopt(d) ==
  /\ \/ /\ Doing(d, "protocol")
        /\ \E p \in Protocols :
             LET has == p.kind = "hysteria2" \/ (p.sni /\ (p.shortId \/ p.kind = "tls")) IN
             Concludes(d, "protocol", ProtocolSanity(p), p.loads /\ has,
                       p.loads /\ has /\ (p.kind = "hysteria2" =>
                                            p.leaf \in {"pinned", "unpinned"}))
     \/ /\ Doing(d, "sockopt")
        /\ Concludes(d, "sockopt", InboundTproxy(diag[d].mode), TRUE,
                     diag[d].mode = "tproxy")
  /\ UNCHANGED <<sidecar, left>>

-----------------------------------------------------------------------------
(* The forwarding probe: ForwardingEgressProbe.                              *)

NotMade == [by |-> "none", up |-> FALSE]
GoesOn(d, pc) == diag' = [diag EXCEPT ![d].pc = pc]

(* A mutant: the removal is deferred before the container is made.           *)
RemovedAnyway == NotMade

(* A create that failed leaves what has the name alone.                      *)
CreateFailed == sidecar

(* The name is fixed: while there is a container that has it, create fails.  *)
SidecarCreate(d) ==
  /\ Doing(d, "forwarding")
  /\ \/ /\ sidecar.by = "none"
        /\ sidecar' = [by |-> d, up |-> FALSE] /\ GoesOn(d, "start")
     \/ /\ sidecar' = CreateFailed
        /\ Concludes(d, "forwarding", "fail", FALSE, FALSE)
  /\ UNCHANGED left

SidecarStart(d) ==
  /\ Doing(d, "start")
  /\ \/ sidecar' = [sidecar EXCEPT !.up = TRUE] /\ GoesOn(d, "direct")
     \/ UNCHANGED sidecar /\ GoesOn(d, "remove")
  /\ UNCHANGED left

(* Its own exit, the route through the proxy, and its exit again.            *)
SidecarProbe(d) ==
  /\ \/ /\ Doing(d, "direct")
        /\ \E ip \in ProbeIPs :
             diag' = [diag EXCEPT ![d].direct = ip,
                                  ![d].pc = IF ip = "error" THEN "remove" ELSE "reroute"]
     \/ Doing(d, "reroute") /\ (GoesOn(d, "forwarded") \/ GoesOn(d, "remove"))
     \/ /\ Doing(d, "forwarded")
        /\ \E ip \in ProbeIPs : diag' = [diag EXCEPT ![d].fwd = ip, ![d].pc = "remove"]
  /\ UNCHANGED <<sidecar, left>>

(* The deferred removal, and the verdict: a probe that failed is none.       *)
SidecarRemove(d) ==
  /\ Doing(d, "remove")
  /\ \/ sidecar' = NotMade /\ UNCHANGED left
     \/ UNCHANGED sidecar /\ left' = left \cup {d}
  /\ LET r == diag[d]
         through == r.fwd = "exit" IN
     Concludes(d, "forwarding",
               IF r.fwd = "unread" THEN "fail"
               ELSE ForwardingVerdict(r.self, r.fwd, r.direct), through, through)

(* AutoRemove, once its five minutes of sleep are over; not if never started.*)
SidecarExpires ==
  /\ sidecar.up /\ sidecar.by \in left
  /\ sidecar' = NotMade /\ UNCHANGED <<diag, left>>

(* A signal has its default action: nothing deferred runs.                   *)
DiagKilled(d) ==
  /\ diag[d].pc \notin {"typed", "ended", "killed"}
  /\ diag' = [diag EXCEPT ![d] = Fresh1("killed")]
  /\ left' = IF sidecar.by = d THEN left \cup {d} ELSE left
  /\ UNCHANGED sidecar

DiagNext ==
  \/ \E d \in Diagnoses :
       \/ ProxyCheckCmd(d) \/ DoctorOrStatus(d) \/ ProxyStatusCmd(d)
       \/ DockerAndImage(d) \/ ActiveProfile(d) \/ DatapathContract(d)
       \/ ContainerHealthy(d) \/ TproxyPreconditions(d) \/ NetworkSubnet(d)
       \/ DefaultRoute(d) \/ SelfEgress(d)
       \/ SidecarCreate(d) \/ SidecarStart(d) \/ SidecarProbe(d) \/ SidecarRemove(d)
       \/ WorkspaceV6FailClosed(d) \/ ProtocolAndSockopt(d) \/ DiagKilled(d)
  \/ SidecarExpires

DiagSpec == DiagInit /\ [][DiagNext]_diagVars

-----------------------------------------------------------------------------
(* What the diagnosis keeps to.                                              *)

(***************************************************************************)
(* Exit code 0 is for what was read and was as it has to be, in every hard  *)
(* check: what could not be read never passes for it, nor does a list that  *)
(* failed for an empty one.  And a report that shows no soft finding has    *)
(* none: no v6 table unread, no exit of DNS unseen, no workspace of ws      *)
(* proxy status shown protected on a route that was not read.               *)
(***************************************************************************)
DiagnosisHonest ==
  \A d \in Diagnoses :
    diag[d].exit = 0 => diag[d].proved /\ (diag[d].soft \/ diag[d].clean)

(***************************************************************************)
(* A doctor measures in its own sidecar until it removes it, whatever       *)
(* another doctor does; and a sidecar that is there is that of a doctor at  *)
(* its probe, or of one that was killed or whose removal failed.            *)
(***************************************************************************)
SidecarAccounted ==
  \A d \in Diagnoses :
    /\ diag[d].pc \in Stages => sidecar.by = d
    /\ sidecar.by = d => diag[d].pc \in Stages \/ d \in left
=============================================================================
