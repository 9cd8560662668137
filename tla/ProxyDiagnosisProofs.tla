-------------------------- MODULE ProxyDiagnosisProofs --------------------------
(***************************************************************************)
(* Proofs about ProxyDiagnosis, for every set of commands and of workspace  *)
(* containers.                                                              *)
(***************************************************************************)
EXTENDS ProxyDiagnosis, TLAPS

Checks == {"docker", "image", "active", "contract", "container", "preconditions",
           "subnet", "route", "egress", "forwarding", "v6", "protocol", "sockopt"}

(* Where a command is that will not be at the probe again.                   *)
Past == {"v6", "protocol", "sockopt", "ended", "killed"}

(***************************************************************************)
(* A doctor whose sidecar was left behind is past its probe, so what Docker *)
(* removes in the end is nobody's who still measures in it.                 *)
(***************************************************************************)
LeftIsPast == \A d \in Diagnoses : d \in left => diag[d].pc \in Past

(* Commands and the sidecar are records: as much of their type as matters.   *)
Placed == /\ diag = [d \in Diagnoses |-> diag[d]]
          /\ \A d \in Diagnoses : "pc" \in DOMAIN diag[d]
          /\ "by" \in DOMAIN sidecar

Inv == Placed /\ SidecarAccounted /\ LeftIsPast

-----------------------------------------------------------------------------
(* Where a check leads.                                                      *)

(* The place of a check is a place of the order that holds it.               *)
LEMMA RankOf ==
  ASSUME NEW check \in Checks
  PROVE  Rank(check) \in 1..13 /\ CheckOrder[Rank(check)] = check
<1>1. \E k \in DOMAIN CheckOrder : CheckOrder[k] = check
  BY DEF Checks, CheckOrder
<1>2. DOMAIN CheckOrder = 1..13
  BY DEF CheckOrder
<1> QED BY <1>1, <1>2 DEF Rank

(* A check leads to another check or to the end, and past the probe none     *)
(* leads back to it.                                                         *)
LEMMA AfterIsNoStage ==
  ASSUME NEW check \in Checks
  PROVE  /\ After(check) \in Checks \cup {"ended"}
         /\ check \in Past \cup {"forwarding"} => After(check) \in Past
<1>1. Len(CheckOrder) = 13
  BY DEF CheckOrder
<1>2. CASE Rank(check) = 13
  BY <1>1, <1>2 DEF After, Past
<1>3. CASE Rank(check) \in 1..12
  <2>1. After(check) = CheckOrder[Rank(check) + 1]
    BY <1>1, <1>3 DEF After
  <2>2. \A k \in 1..13 : CheckOrder[k] \in Checks
    BY DEF CheckOrder, Checks
  <2>3. \A k \in 1..12 : CheckOrder[k] \in Past \cup {"forwarding"} => CheckOrder[k + 1] \in Past
    BY DEF CheckOrder, Past
  <2> QED BY <1>3, <2>1, <2>2, <2>3, RankOf
<1> QED BY <1>2, <1>3, RankOf

(* So does what a command is once a check is concluded.                      *)
LEMMA ConcludedPlace ==
  ASSUME NEW r, "pc" \in DOMAIN r, NEW check \in Checks, NEW out,
         NEW proved, NEW clean
  PROVE  /\ "pc" \in DOMAIN Concluded(r, check, out, proved, clean)
         /\ Concluded(r, check, out, proved, clean).pc \in Checks \cup {"ended"}
         /\ check \in Past \cup {"forwarding"} =>
              Concluded(r, check, out, proved, clean).pc \in Past
<1>1. "pc" \in DOMAIN Forgets(r, check)
  BY DEF Forgets
<1>2. "pc" \in DOMAIN [Fresh1("ended") EXCEPT !.proved = r.proved, !.clean = r.clean]
  BY DEF Fresh1
<1>3. "ended" \in Past
  BY DEF Past
<1> QED BY <1>1, <1>2, <1>3, AfterIsNoStage DEF Concluded

-----------------------------------------------------------------------------
(* Steps.                                                                    *)

(* Command d is all that changes, and does not go back to its probe.         *)
Only(d) ==
  /\ diag' = [c \in Diagnoses |-> diag'[c]]
  /\ \A c \in Diagnoses \ {d} : diag'[c] = diag[c]
  /\ "pc" \in DOMAIN diag'[d]
  /\ diag[d].pc \in Past => diag'[d].pc \in Past

(* A command that is not at its probe, and does not come to it, disturbs no  *)
(* sidecar.                                                                  *)
LEMMA Aside ==
  ASSUME Inv, NEW d \in Diagnoses, Only(d),
         diag[d].pc \notin Stages, diag'[d].pc \notin Stages,
         UNCHANGED <<sidecar, left>>
  PROVE  Inv'
BY DEF Inv, Placed, SidecarAccounted, LeftIsPast, Only

(* One whose next place is after a check of it is such a command.            *)
LEMMA ConcludesAside ==
  ASSUME Inv, NEW d \in Diagnoses, NEW r, "pc" \in DOMAIN r,
         NEW check \in Checks, diag[d].pc = check, NEW out, NEW proved, NEW clean,
         diag' = [diag EXCEPT ![d] = Concluded(r, check, out, proved, clean)],
         UNCHANGED <<sidecar, left>>
  PROVE  Inv'
<1>1. diag'[d] = Concluded(r, check, out, proved, clean)
  BY DEF Inv, Placed
<1>2. Only(d)
  BY <1>1, ConcludedPlace DEF Only, Inv, Placed
<1>3. diag[d].pc \notin Stages /\ diag'[d].pc \notin Stages
  BY <1>1, ConcludedPlace DEF Checks, Stages
<1> QED BY <1>2, <1>3, Aside

(* A check of d is concluded, whatever it read and remembered.               *)
ChecksOff(d, check) ==
  \E r, out, proved, clean :
    /\ "pc" \in DOMAIN r
    /\ diag' = [diag EXCEPT ![d] = Concluded(r, check, out, proved, clean)]

(* One whose check is concluded, whatever it remembered, disturbs nothing.   *)
LEMMA ChecksOffKeeps ==
  ASSUME Inv, NEW d \in Diagnoses, NEW check \in Checks, Doing(d, check),
         ChecksOff(d, check), UNCHANGED <<sidecar, left>>
  PROVE  Inv'
<1>1. PICK r, out, proved, clean :
        /\ "pc" \in DOMAIN r
        /\ diag' = [diag EXCEPT ![d] = Concluded(r, check, out, proved, clean)]
  BY DEF ChecksOff
<1> QED BY <1>1, ConcludesAside DEF Doing

(* A check that remembers nothing new is concluded so.                       *)
LEMMA ConcludesIsChecksOff ==
  ASSUME Inv, NEW d \in Diagnoses, NEW check, NEW out, NEW proved, NEW clean,
         Concludes(d, check, out, proved, clean)
  PROVE  ChecksOff(d, check)
BY DEF Concludes, ConcludesAs, ChecksOff, Inv, Placed

(* The look at the profile (checkActiveProfileValid).                        *)
LEMMA ActiveProfileKeeps ==
  ASSUME Inv, NEW d \in Diagnoses, ActiveProfile(d)
  PROVE  Inv'
<1>1. Doing(d, "active") /\ UNCHANGED <<sidecar, left>>
  BY DEF ActiveProfile
<1>2. ChecksOff(d, "active")
  BY ConcludesIsChecksOff DEF ActiveProfile, Plainly
<1> QED BY <1>1, <1>2, ChecksOffKeeps DEF Checks

(* The look at the container (checkContainerHealthy).                        *)
LEMMA ContainerHealthyKeeps ==
  ASSUME Inv, NEW d \in Diagnoses, ContainerHealthy(d)
  PROVE  Inv'
<1>1. Doing(d, "container") /\ UNCHANGED <<sidecar, left>>
  BY DEF ContainerHealthy
<1>2. ChecksOff(d, "container")
  BY ConcludesIsChecksOff DEF ContainerHealthy
<1> QED BY <1>1, <1>2, ChecksOffKeeps DEF Checks

(* The look at the datapath (checkTproxyPreconditions).                      *)
LEMMA TproxyPreconditionsKeeps ==
  ASSUME Inv, NEW d \in Diagnoses, TproxyPreconditions(d)
  PROVE  Inv'
<1>1. Doing(d, "preconditions") /\ UNCHANGED <<sidecar, left>>
  BY DEF TproxyPreconditions
<1>2. ChecksOff(d, "preconditions")
  BY ConcludesIsChecksOff DEF TproxyPreconditions
<1> QED BY <1>1, <1>2, ChecksOffKeeps DEF Checks

(* The look at the network (checkNetworkSubnet).                             *)
LEMMA NetworkSubnetKeeps ==
  ASSUME Inv, NEW d \in Diagnoses, NetworkSubnet(d)
  PROVE  Inv'
<1>1. Doing(d, "subnet") /\ UNCHANGED <<sidecar, left>>
  BY DEF NetworkSubnet
<1>2. ChecksOff(d, "subnet")
  BY ConcludesIsChecksOff DEF NetworkSubnet, Plainly
<1> QED BY <1>1, <1>2, ChecksOffKeeps DEF Checks

(* The look into the workspaces (checkWorkspaceV6FailClosed).                *)
LEMMA WorkspaceV6FailClosedKeeps ==
  ASSUME Inv, NEW d \in Diagnoses, WorkspaceV6FailClosed(d)
  PROVE  Inv'
<1>1. Doing(d, "v6") /\ UNCHANGED <<sidecar, left>>
  BY DEF WorkspaceV6FailClosed
<1>2. ChecksOff(d, "v6")
  BY ConcludesIsChecksOff DEF WorkspaceV6FailClosed
<1> QED BY <1>1, <1>2, ChecksOffKeeps DEF Checks

(* The first two checks, which share an action.                              *)
LEMMA DockerAndImageKeeps ==
  ASSUME Inv, NEW d \in Diagnoses, DockerAndImage(d)
  PROVE  Inv'
<1>1. UNCHANGED <<sidecar, left>>
  BY DEF DockerAndImage
<1>2. CASE Doing(d, "docker")
  <2>1. ChecksOff(d, "docker")
    BY <1>2, ConcludesIsChecksOff DEF DockerAndImage, Doing, Plainly
  <2> QED BY <1>1, <1>2, <2>1, ChecksOffKeeps DEF Checks
<1>3. CASE Doing(d, "image")
  <2>1. ChecksOff(d, "image")
    BY <1>3, ConcludesIsChecksOff DEF DockerAndImage, Doing, Plainly
  <2> QED BY <1>1, <1>3, <2>1, ChecksOffKeeps DEF Checks
<1> QED BY <1>2, <1>3 DEF DockerAndImage

(* The last two checks, which share an action.                               *)
LEMMA ProtocolAndSockoptKeeps ==
  ASSUME Inv, NEW d \in Diagnoses, ProtocolAndSockopt(d)
  PROVE  Inv'
<1>1. UNCHANGED <<sidecar, left>>
  BY DEF ProtocolAndSockopt
<1>2. CASE Doing(d, "protocol")
  <2>1. ChecksOff(d, "protocol")
    BY <1>2, ConcludesIsChecksOff DEF ProtocolAndSockopt, Doing
  <2> QED BY <1>1, <1>2, <2>1, ChecksOffKeeps DEF Checks
<1>3. CASE Doing(d, "sockopt")
  <2>1. ChecksOff(d, "sockopt")
    BY <1>3, ConcludesIsChecksOff DEF ProtocolAndSockopt, Doing
  <2> QED BY <1>1, <1>3, <2>1, ChecksOffKeeps DEF Checks
<1> QED BY <1>2, <1>3 DEF ProtocolAndSockopt

(* A check that remembers what it read is concluded as well.                 *)
LEMMA ConcludedIsChecksOff ==
  ASSUME NEW d \in Diagnoses, NEW r, "pc" \in DOMAIN r,
         NEW check, NEW out, NEW proved, NEW clean,
         diag' = [diag EXCEPT ![d] = Concluded(r, check, out, proved, clean)]
  PROVE  ChecksOff(d, check)
BY DEF ChecksOff

(* The contract, which remembers the mode (checkDatapathContract).           *)
LEMMA DatapathContractKeeps ==
  ASSUME Inv, NEW d \in Diagnoses, DatapathContract(d)
  PROVE  Inv'
<1>1. Doing(d, "contract") /\ UNCHANGED <<sidecar, left>>
  BY DEF DatapathContract
<1>2. \A x : "pc" \in DOMAIN [diag[d] EXCEPT !.mode = x]
  BY DEF Inv, Placed
<1>3. ASSUME NEW x, NEW out, NEW well,
             ConcludesAs(d, [diag[d] EXCEPT !.mode = x], "contract", out, well, well)
      PROVE  ChecksOff(d, "contract")
  BY <1>2, <1>3, ConcludedIsChecksOff DEF ConcludesAs
<1>4. ChecksOff(d, "contract")
  BY <1>3 DEF DatapathContract
<1> QED BY <1>1, <1>4, ChecksOffKeeps DEF Checks

(* The egress, which remembers the way out (checkEgress).                    *)
LEMMA SelfEgressKeeps ==
  ASSUME Inv, NEW d \in Diagnoses, SelfEgress(d)
  PROVE  Inv'
<1>1. Doing(d, "egress") /\ UNCHANGED <<sidecar, left>>
  BY DEF SelfEgress
<1>2. \A x : "pc" \in DOMAIN [diag[d] EXCEPT !.self = x]
  BY DEF Inv, Placed
<1>3. ASSUME NEW x, NEW out, NEW proved, NEW clean,
             ConcludesAs(d, [diag[d] EXCEPT !.self = x], "egress", out, proved, clean)
      PROVE  ChecksOff(d, "egress")
  BY <1>2, <1>3, ConcludedIsChecksOff DEF ConcludesAs
<1>4. ChecksOff(d, "egress")
  BY <1>3 DEF SelfEgress
<1> QED BY <1>1, <1>4, ChecksOffKeeps DEF Checks

(* The routes, which remember the list (checkDefaultRoute).                  *)
LEMMA DefaultRouteKeeps ==
  ASSUME Inv, NEW d \in Diagnoses, DefaultRoute(d)
  PROVE  Inv'
<1>1. Doing(d, "route") /\ UNCHANGED <<sidecar, left>>
  BY DEF DefaultRoute
<1>2. \A x, y : "pc" \in DOMAIN [diag[d] EXCEPT !.list = x, !.names = y]
  BY DEF Inv, Placed
<1>3. ASSUME NEW x, NEW y, NEW out, NEW well,
             ConcludesAs(d, [diag[d] EXCEPT !.list = x, !.names = y], "route", out, well, well)
      PROVE  ChecksOff(d, "route")
  BY <1>2, <1>3, ConcludedIsChecksOff DEF ConcludesAs
<1>4. ChecksOff(d, "route")
  BY <1>3 DEF DefaultRoute
<1> QED BY <1>1, <1>4, ChecksOffKeeps DEF Checks

(* The other commands, and how each begins.                                  *)
LEMMA ShortKeeps ==
  ASSUME Inv, NEW d \in Diagnoses,
         ProxyCheckCmd(d) \/ DoctorOrStatus(d) \/ ProxyStatusCmd(d)
  PROVE  Inv'
<1>1. diag[d].pc \in {"typed", "status"} /\ UNCHANGED <<sidecar, left>>
  BY DEF ProxyCheckCmd, DoctorOrStatus, ProxyStatusCmd, Doing
<1>2. \E r : /\ r \in {"docker", "status", "ended"}
            /\ diag' = [diag EXCEPT ![d] = diag'[d]]
            /\ "pc" \in DOMAIN diag'[d] /\ diag'[d].pc = r
  <2>1. CASE ProxyCheckCmd(d)
    BY <2>1 DEF ProxyCheckCmd, Inv, Placed
  <2>2. CASE DoctorOrStatus(d)
    BY <2>2 DEF DoctorOrStatus, Inv, Placed
  <2>3. CASE ProxyStatusCmd(d)
    <3>1. CASE diag' = [diag EXCEPT ![d].pc = "ended", ![d].exit = 1]
      BY <3>1 DEF Inv, Placed
    <3>2. ASSUME NEW soft, NEW clean,
                 diag' = [diag EXCEPT ![d].pc = "ended", ![d].exit = 0,
                                      ![d].soft = soft, ![d].clean = clean]
          PROVE  /\ diag' = [diag EXCEPT ![d] = diag'[d]]
                 /\ "pc" \in DOMAIN diag'[d] /\ diag'[d].pc = "ended"
      BY <3>2 DEF Inv, Placed
    <3> QED BY <2>3, <3>1, <3>2 DEF ProxyStatusCmd
  <2> QED BY <2>1, <2>2, <2>3
<1>3. Only(d)
  BY <1>1, <1>2 DEF Only, Inv, Placed, Past
<1> QED BY <1>1, <1>2, <1>3, Aside DEF Stages

-----------------------------------------------------------------------------
(* The probe.                                                                *)

(* Nobody else is at its probe when a sidecar can be made.                   *)
LEMMA SidecarCreateKeeps ==
  ASSUME Inv, NEW d \in Diagnoses, SidecarCreate(d)
  PROVE  Inv'
<1>1. diag[d].pc = "forwarding" /\ left' = left
  BY DEF SidecarCreate, Doing
<1>2. CASE /\ sidecar.by = "none"
           /\ sidecar' = [by |-> d, up |-> FALSE] /\ GoesOn(d, "start")
  <2>1. \A c \in Diagnoses : diag[c].pc \notin Stages
    BY <1>2, DiagAssumption DEF Inv, SidecarAccounted
  <2>2. d \notin left
    BY <1>1 DEF Inv, LeftIsPast, Past
  <2> QED BY <1>1, <1>2, <2>1, <2>2
       DEF Inv, Placed, SidecarAccounted, LeftIsPast, GoesOn, Stages
<1>3. CASE sidecar' = CreateFailed /\ Concludes(d, "forwarding", "fail", FALSE, FALSE)
  <2>1. "pc" \in DOMAIN diag[d] /\ "forwarding" \in Checks
    BY DEF Inv, Placed, Checks
  <2> QED BY <1>1, <1>3, <2>1, ConcludesAside DEF Concludes, ConcludesAs, CreateFailed
<1> QED BY <1>2, <1>3 DEF SidecarCreate

(* From stage to stage the doctor keeps its own.                             *)
LEMMA SidecarGoesOn ==
  ASSUME Inv, NEW d \in Diagnoses, Only(d),
         diag[d].pc \in Stages, diag'[d].pc \in Stages,
         "by" \in DOMAIN sidecar', sidecar'.by = sidecar.by, left' = left
  PROVE  Inv'
<1>1. d \notin left
  BY DEF Inv, LeftIsPast, Past, Stages
<1> QED BY <1>1 DEF Inv, Placed, SidecarAccounted, LeftIsPast, Only

(* Starting it, or failing to, is such a step.                               *)
LEMMA SidecarStartKeeps ==
  ASSUME Inv, NEW d \in Diagnoses, SidecarStart(d)
  PROVE  Inv'
<1>1. "by" \in DOMAIN sidecar' /\ sidecar'.by = sidecar.by /\ left' = left
  BY DEF SidecarStart, Inv, Placed
<1>2. diag[d].pc = "start" /\ diag'[d].pc \in {"direct", "remove"} /\ Only(d)
  BY DEF SidecarStart, Doing, GoesOn, Only, Inv, Placed, Past
<1> QED BY <1>1, <1>2, SidecarGoesOn DEF Stages

(* So is each measurement in it.                                             *)
LEMMA SidecarProbeKeeps ==
  ASSUME Inv, NEW d \in Diagnoses, SidecarProbe(d)
  PROVE  Inv'
<1>1. sidecar' = sidecar /\ left' = left
  BY DEF SidecarProbe
<1>2. diag[d].pc \in {"direct", "reroute", "forwarded"}
  BY DEF SidecarProbe, Doing
<1>3. diag'[d].pc \in {"reroute", "forwarded", "remove"} /\ Only(d)
  BY <1>2 DEF SidecarProbe, Doing, GoesOn, Only, Inv, Placed, Past
<1> QED BY <1>1, <1>2, <1>3, SidecarGoesOn DEF Stages, Inv, Placed

(* What the doctor removes is its own, and what it cannot is left.           *)
LEMMA SidecarRemoveKeeps ==
  ASSUME Inv, NEW d \in Diagnoses, SidecarRemove(d)
  PROVE  Inv'
<1>1. diag[d].pc = "remove" /\ sidecar.by = d
  BY DEF SidecarRemove, Doing, Inv, SidecarAccounted, Stages
<1>2. PICK out, ok : Concludes(d, "forwarding", out, ok, ok)
  BY DEF SidecarRemove
<1>3. "pc" \in DOMAIN diag[d] /\ "forwarding" \in Checks
  BY DEF Inv, Placed, Checks
<1>4. Only(d) /\ diag'[d].pc \in Past
  BY <1>2, <1>3, ConcludedPlace DEF Concludes, ConcludesAs, Only, Inv, Placed
<1>5. diag'[d].pc \notin Stages
  BY <1>4 DEF Past, Stages
<1>6. \A c \in Diagnoses \ {d} : diag[c].pc \notin Stages
  BY <1>1 DEF Inv, SidecarAccounted
<1>7. /\ "by" \in DOMAIN sidecar'
      /\ \/ sidecar'.by = "none" /\ left' = left
         \/ sidecar' = sidecar /\ left' = left \cup {d}
  <2>1. CASE sidecar' = NotMade /\ left' = left
    BY <2>1 DEF NotMade
  <2>2. CASE sidecar' = sidecar /\ left' = left \cup {d}
    BY <2>2 DEF Inv, Placed
  <2> QED BY <2>1, <2>2 DEF SidecarRemove
<1> QED BY <1>1, <1>4, <1>5, <1>6, <1>7, DiagAssumption
     DEF Inv, Placed, SidecarAccounted, LeftIsPast, Only

(* A killed doctor leaves its sidecar behind, and nobody else's.             *)
LEMMA DiagKilledKeeps ==
  ASSUME Inv, NEW d \in Diagnoses, DiagKilled(d)
  PROVE  Inv'
<1>1. diag'[d].pc = "killed" /\ Only(d) /\ sidecar' = sidecar
  BY DEF DiagKilled, Fresh1, Only, Inv, Placed, Past
<1>2. left' = IF sidecar.by = d THEN left \cup {d} ELSE left
  BY DEF DiagKilled
<1> QED BY <1>1, <1>2 DEF Inv, Placed, SidecarAccounted, LeftIsPast, Only, Past, Stages

(* Docker removes what was left, in which nobody measures.                   *)
LEMMA SidecarExpiresKeeps ==
  ASSUME Inv, SidecarExpires
  PROVE  Inv'
<1>1. \A d \in Diagnoses : diag[d].pc \notin Stages
  BY DEF SidecarExpires, Inv, SidecarAccounted, LeftIsPast, Past, Stages
<1> QED BY <1>1, DiagAssumption
     DEF SidecarExpires, NotMade, Inv, Placed, SidecarAccounted, LeftIsPast

-----------------------------------------------------------------------------
(***************************************************************************)
(* However many doctors run at once and wherever they are killed, each      *)
(* measures in its own sidecar until it removes it, and a sidecar that is   *)
(* there is accounted for (ForwardingEgressProbe, tproxy.go).               *)
(***************************************************************************)
THEOREM SidecarAlwaysAccounted == DiagSpec => []SidecarAccounted
<1>1. DiagInit => Inv
  BY DiagAssumption DEF DiagInit, DiagWorld, Fresh1, Inv, Placed, SidecarAccounted, LeftIsPast, Stages
<1>2. Inv /\ [DiagNext]_diagVars => Inv'
  <2> SUFFICES ASSUME Inv, [DiagNext]_diagVars PROVE Inv'
    OBVIOUS
  <2>1. CASE UNCHANGED diagVars
    BY <2>1 DEF diagVars, Inv, Placed, SidecarAccounted, LeftIsPast
  <2>2. CASE SidecarExpires
    BY <2>2, SidecarExpiresKeeps
  <2>3. ASSUME NEW d \in Diagnoses,
               ProxyCheckCmd(d) \/ DoctorOrStatus(d) \/ ProxyStatusCmd(d)
        PROVE  Inv'
    BY <2>3, ShortKeeps
  <2>4. ASSUME NEW d \in Diagnoses,
               \/ DockerAndImage(d) \/ ActiveProfile(d) \/ DatapathContract(d)
               \/ ContainerHealthy(d) \/ TproxyPreconditions(d) \/ NetworkSubnet(d)
               \/ DefaultRoute(d) \/ SelfEgress(d)
               \/ WorkspaceV6FailClosed(d) \/ ProtocolAndSockopt(d)
        PROVE  Inv'
    BY <2>4, DockerAndImageKeeps, ActiveProfileKeeps, DatapathContractKeeps,
       ContainerHealthyKeeps, TproxyPreconditionsKeeps, NetworkSubnetKeeps,
       DefaultRouteKeeps, SelfEgressKeeps, WorkspaceV6FailClosedKeeps,
       ProtocolAndSockoptKeeps
  <2>5. ASSUME NEW d \in Diagnoses,
               \/ SidecarCreate(d) \/ SidecarStart(d) \/ SidecarProbe(d)
               \/ SidecarRemove(d) \/ DiagKilled(d)
        PROVE  Inv'
    BY <2>5, SidecarCreateKeeps, SidecarStartKeeps, SidecarProbeKeeps,
       SidecarRemoveKeeps, DiagKilledKeeps
  <2> QED BY <2>1, <2>2, <2>3, <2>4, <2>5 DEF DiagNext
<1>3. Inv => SidecarAccounted
  BY DEF Inv
<1> QED BY <1>1, <1>2, <1>3, PTL DEF DiagSpec
-----------------------------------------------------------------------------
(* What passes was read, and was as it has to be.                            *)

Fields == {"pc", "exit", "names", "list", "mode", "self", "direct", "fwd", "soft",
           "proved", "clean"}

(* Where a command is that has no exit code yet.                             *)
Going == {"typed", "status"} \cup Checks \cup Stages

(***************************************************************************)
(* A command on its way has proved all that it passed, and shown the rest;  *)
(* one that comes to the probe has seen the proxy's own way out, which is   *)
(* what the probe compares with.                                            *)
(***************************************************************************)
Sound(r) ==
  /\ r = [f \in Fields |-> r[f]]
  /\ r.pc \in Going => r.exit = -1 /\ r.proved /\ (r.soft \/ r.clean)
  /\ r.pc \in {"forwarding"} \cup Stages => r.self = "exit"
  /\ r.exit = 0 => r.proved /\ (r.soft \/ r.clean)

AllSound == /\ diag = [d \in Diagnoses |-> diag[d]]
            /\ \A d \in Diagnoses : Sound(diag[d])

(* Only the egress check leads to the probe.                                 *)
LEMMA ProbeAfterEgress ==
  ASSUME NEW check \in Checks, After(check) = "forwarding"
  PROVE  check = "egress"
<1>1. Len(CheckOrder) = 13
  BY DEF CheckOrder
<1>2. Rank(check) # 13
  BY <1>1 DEF After
<1>3. CheckOrder[Rank(check) + 1] = "forwarding"
  BY <1>1, <1>2, RankOf DEF After
<1>4. \A k \in 1..12 : CheckOrder[k + 1] = "forwarding" => CheckOrder[k] = "egress"
  BY DEF CheckOrder
<1> QED BY <1>2, <1>3, <1>4, RankOf

(* A command as a record of its fields, after a check.                       *)
LEMMA ConcludedFields ==
  ASSUME NEW r, r = [f \in Fields |-> r[f]], NEW check, NEW out,
         NEW proved, NEW clean, NEW e, e = Concluded(r, check, out, proved, clean)
  PROVE  /\ e = [f \in Fields |-> e[f]]
         /\ e.soft = (r.soft \/ out \in {"degraded", "unknown"})
         /\ e.proved = (r.proved /\ proved)
         /\ e.clean = (r.clean /\ clean)
         /\ out = "fail" => e.pc = "ended" /\ e.exit = Rank(check)
         /\ out # "fail" => /\ e.pc = After(check)
                            /\ e.exit = IF After(check) = "ended" THEN 0 ELSE r.exit
                            /\ check # "forwarding" => e.self = r.self
<1> DEFINE b == IF out = "fail"
                THEN [Fresh1("ended") EXCEPT !.proved = r.proved, !.clean = r.clean]
                ELSE Forgets(r, check)
<1>1. /\ b = [f \in Fields |-> b[f]]
      /\ b.proved = r.proved /\ b.clean = r.clean
      /\ out # "fail" => b.exit = r.exit /\ (check # "forwarding" => b.self = r.self)
  <2>1. CASE out = "fail"
    BY <2>1 DEF Fresh1, Fields
  <2>2. CASE out # "fail"
    <3>1. CASE check = "forwarding"
      BY <2>2, <3>1 DEF Forgets, Fields
    <3>2. CASE check = "v6"
      BY <2>2, <3>2 DEF Forgets, Fields
    <3>3. CASE check \notin {"forwarding", "v6"}
      BY <2>2, <3>3 DEF Forgets, Fields
    <3> QED BY <3>1, <3>2, <3>3
  <2> QED BY <2>1, <2>2
<1>2. e = [b EXCEPT !.pc     = IF out = "fail" THEN "ended" ELSE After(check),
                    !.exit   = IF out = "fail" THEN Rank(check)
                               ELSE IF After(check) = "ended" THEN 0 ELSE @,
                    !.soft   = r.soft \/ out \in {"degraded", "unknown"},
                    !.proved = @ /\ proved,
                    !.clean  = @ /\ clean]
  BY DEF Concluded
<1> HIDE DEF b
<1> QED BY <1>1, <1>2 DEF Fields

(***************************************************************************)
(* A check that passes only what it proved, and shows what is not clean,    *)
(* leaves a sound command sound.                                            *)
(***************************************************************************)
LEMMA ConcludedSound ==
  ASSUME NEW r, Sound(r), r.pc \in Checks \cup Stages,
         NEW check \in Checks, NEW out, NEW proved, NEW clean,
         out # "fail" => proved,
         out \notin {"fail", "degraded", "unknown"} => clean,
         check = "egress" /\ out # "fail" => r.self = "exit"
  PROVE  Sound(Concluded(r, check, out, proved, clean))
<1> DEFINE e == Concluded(r, check, out, proved, clean)
<1>1. /\ r = [f \in Fields |-> r[f]]
      /\ r.exit = -1 /\ r.proved /\ (r.soft \/ r.clean)
  BY DEF Sound, Going
<1>2. e = Concluded(r, check, out, proved, clean)
  OBVIOUS
<1> HIDE DEF e
<1>3. /\ e = [f \in Fields |-> e[f]]
      /\ e.soft = (r.soft \/ out \in {"degraded", "unknown"})
      /\ e.proved = (r.proved /\ proved)
      /\ e.clean = (r.clean /\ clean)
      /\ out = "fail" => e.pc = "ended" /\ e.exit = Rank(check)
      /\ out # "fail" => /\ e.pc = After(check)
                         /\ e.exit = IF After(check) = "ended" THEN 0 ELSE r.exit
                         /\ check # "forwarding" => e.self = r.self
  BY <1>1, <1>2, ConcludedFields
<1>4. CASE out = "fail"
  <2>1. e.exit # 0 /\ e.pc = "ended"
    BY <1>3, <1>4, RankOf
  <2> QED BY <1>2, <1>3, <2>1 DEF Sound, Going, Checks, Stages
<1>5. CASE out # "fail"
  <2>1. e.proved /\ (e.soft \/ e.clean)
    BY <1>1, <1>3, <1>5
  <2>2. e.pc \in Checks => e.exit = -1
    BY <1>1, <1>3, <1>5 DEF Checks
  <2>3. e.pc \in Checks \cup {"ended"}
    BY <1>3, <1>5, AfterIsNoStage
  <2>4. e.pc = "forwarding" => e.self = "exit"
    BY <1>3, <1>5, ProbeAfterEgress
  <2>5. e.pc \in Going => e.pc \in Checks
    BY <2>3 DEF Going, Stages
  <2>6. e.pc \notin Stages
    BY <2>3 DEF Stages, Checks
  <2> QED BY <1>2, <1>3, <2>1, <2>2, <2>4, <2>5, <2>6 DEF Sound
<1> QED BY <1>4, <1>5

(* Command d becomes e, and the others stay.                                 *)
LEMMA BecomesSound ==
  ASSUME AllSound, NEW d \in Diagnoses, NEW e, Sound(e),
         diag' = [diag EXCEPT ![d] = e]
  PROVE  AllSound'
<1>1. /\ diag' = [c \in Diagnoses |-> diag'[c]]
      /\ \A c \in Diagnoses : diag'[c] = IF c = d THEN e ELSE diag[c]
  BY DEF AllSound
<1> QED BY <1>1 DEF AllSound, Sound

(* A check that remembers nothing new, of which this is true.                *)
LEMMA CheckSound ==
  ASSUME AllSound, NEW d \in Diagnoses, NEW check \in Checks \ {"egress"},
         diag[d].pc \in Checks \cup Stages,
         NEW out, NEW proved, NEW clean, Concludes(d, check, out, proved, clean),
         out # "fail" => proved,
         out \notin {"fail", "degraded", "unknown"} => clean
  PROVE  AllSound'
<1>1. Sound(diag[d])
  BY DEF AllSound
<1>2. Sound(Concluded(diag[d], check, out, proved, clean))
  BY <1>1, ConcludedSound
<1> QED BY <1>2, BecomesSound DEF Concludes, ConcludesAs

(* A check that passes or fails, with nothing in between.                    *)
LEMMA PlainSound ==
  ASSUME AllSound, NEW d \in Diagnoses, NEW check \in Checks \ {"egress"},
         Doing(d, check), NEW passed, Plainly(d, check, passed)
  PROVE  AllSound'
<1>1. diag[d].pc \in Checks \cup Stages
  BY DEF Doing
<1>2. /\ Hard(passed) # "fail" => passed
      /\ Hard(passed) \notin {"fail", "degraded", "unknown"} => passed
  BY DEF Hard
<1> QED BY <1>1, <1>2, CheckSound DEF Plainly

(* A command that remembers one more thing it read is as sound.              *)
LEMMA RemembersSound ==
  ASSUME NEW r, Sound(r), r.pc \in Checks \ {"forwarding"}, NEW s,
         \/ \E x : s = [r EXCEPT !.mode = x] \/ s = [r EXCEPT !.self = x]
         \/ \E x, y : s = [r EXCEPT !.list = x, !.names = y]
  PROVE  Sound(s) /\ s.pc = r.pc
<1>1. /\ s = [f \in Fields |-> s[f]]
      /\ s.pc = r.pc /\ s.exit = r.exit /\ s.soft = r.soft
      /\ s.proved = r.proved /\ s.clean = r.clean
  BY DEF Sound, Fields
<1>2. r.pc \notin {"forwarding"} \cup Stages
  BY DEF Checks, Stages
<1> QED BY <1>1, <1>2 DEF Sound

-----------------------------------------------------------------------------
(* One lemma per command and per check.                                      *)

(* proxy check passes if every prerequisite does and the way out is another. *)
LEMMA ProxyCheckSound ==
  ASSUME AllSound, NEW d \in Diagnoses, ProxyCheckCmd(d)
  PROVE  AllSound'
<1>1. PICK r \in {"passed", "failed", "skipped"} :
        LET all == r = "passed" IN
        diag' = [diag EXCEPT ![d].pc = "ended", ![d].exit = IF all THEN 0 ELSE 1,
                             ![d].proved = all, ![d].clean = all]
  BY DEF ProxyCheckCmd
<1> DEFINE all == r = "passed"
           e   == [diag[d] EXCEPT !.pc = "ended", !.exit = IF all THEN 0 ELSE 1,
                                  !.proved = all, !.clean = all]
<1>2. diag' = [diag EXCEPT ![d] = e]
  BY <1>1 DEF AllSound
<1> HIDE DEF all
<1>3. /\ e = [f \in Fields |-> e[f]] /\ e.pc = "ended"
      /\ e.exit = (IF all THEN 0 ELSE 1) /\ e.proved = all /\ e.clean = all
  BY DEF AllSound, Sound, Fields
<1> HIDE DEF e
<1>4. Sound(e)
  BY <1>3 DEF Sound, Going, Checks, Stages
<1> QED BY <1>2, <1>4, BecomesSound

(* proxy status shows a workspace protected on a route that it read.         *)
LEMMA ProxyStatusSound ==
  ASSUME AllSound, NEW d \in Diagnoses, ProxyStatusCmd(d)
  PROVE  AllSound'
<1>0. Sound(diag[d]) /\ diag[d].pc = "status"
  BY DEF AllSound, ProxyStatusCmd, Doing
<1>1. CASE diag' = [diag EXCEPT ![d].pc = "ended", ![d].exit = 1]
  <2> DEFINE e == [diag[d] EXCEPT !.pc = "ended", !.exit = 1]
  <2>1. diag' = [diag EXCEPT ![d] = e]
    BY <1>1 DEF AllSound
  <2>2. e = [f \in Fields |-> e[f]] /\ e.pc = "ended" /\ e.exit = 1
    BY <1>0 DEF Sound, Fields
  <2> HIDE DEF e
  <2>3. Sound(e)
    BY <2>2 DEF Sound, Going, Checks, Stages
  <2> QED BY <2>1, <2>3, BecomesSound
<1>2. ASSUME NEW soft, NEW clean, soft \/ clean,
             diag' = [diag EXCEPT ![d].pc = "ended", ![d].exit = 0,
                                  ![d].soft = soft, ![d].clean = clean]
      PROVE  AllSound'
  <2> DEFINE e == [diag[d] EXCEPT !.pc = "ended", !.exit = 0,
                                  !.soft = soft, !.clean = clean]
  <2>1. diag' = [diag EXCEPT ![d] = e]
    BY <1>2 DEF AllSound
  <2>2. /\ e = [f \in Fields |-> e[f]] /\ e.pc = "ended" /\ e.exit = 0
        /\ e.soft = soft /\ e.clean = clean /\ e.proved = diag[d].proved
    BY <1>0 DEF Sound, Fields
  <2> HIDE DEF e
  <2>3. diag[d].proved
    BY <1>0 DEF Sound, Going
  <2>4. Sound(e)
    BY <1>2, <2>2, <2>3 DEF Sound, Going, Checks, Stages
  <2> QED BY <2>1, <2>4, BecomesSound
<1>3. CASE diag' # [diag EXCEPT ![d].pc = "ended", ![d].exit = 1]
  <2>1. PICK scanned \in BOOLEAN, names \in Listing :
          \E route \in Routes(names) :
            LET shown == {ClassifyRouteProtection(route[c]) : c \in names} IN
            diag' = [diag EXCEPT ![d].pc = "ended", ![d].exit = 0,
                       ![d].soft  = ~scanned \/ ~(shown \subseteq {"protected"}),
                       ![d].clean = scanned /\ \A c \in names : route[c] = "proxy"]
    BY <1>3 DEF ProxyStatusCmd
  <2>2. PICK route \in Routes(names) :
          LET shown == {ClassifyRouteProtection(route[c]) : c \in names} IN
          diag' = [diag EXCEPT ![d].pc = "ended", ![d].exit = 0,
                     ![d].soft  = ~scanned \/ ~(shown \subseteq {"protected"}),
                     ![d].clean = scanned /\ \A c \in names : route[c] = "proxy"]
    BY <2>1
  <2> DEFINE shown == {ClassifyRouteProtection(route[c]) : c \in names}
             soft  == ~scanned \/ ~(shown \subseteq {"protected"})
             clean == scanned /\ \A c \in names : route[c] = "proxy"
  <2>3. soft \/ clean
    <3>1. ASSUME NEW c \in names, ClassifyRouteProtection(route[c]) = "protected"
          PROVE  route[c] = "proxy"
      BY <3>1 DEF Routes, ClassifyRouteProtection
    <3> QED BY <3>1
  <2>4. diag' = [diag EXCEPT ![d].pc = "ended", ![d].exit = 0,
                             ![d].soft = soft, ![d].clean = clean]
    BY <2>2
  <2> HIDE DEF soft, clean
  <2> QED BY <1>2, <2>3, <2>4
<1> QED BY <1>1, <1>3

(* Doctor and status begin with nothing read and nothing missed.             *)
LEMMA DoctorOrStatusSound ==
  ASSUME AllSound, NEW d \in Diagnoses, DoctorOrStatus(d)
  PROVE  AllSound'
<1>0. Sound(diag[d]) /\ diag[d].pc = "typed"
  BY DEF AllSound, DoctorOrStatus, Doing
<1>1. PICK pc \in {"docker", "status"} : diag' = [diag EXCEPT ![d].pc = pc]
  BY DEF DoctorOrStatus
<1> DEFINE e == [diag[d] EXCEPT !.pc = pc]
<1>2. diag' = [diag EXCEPT ![d] = e]
  BY <1>1 DEF AllSound
<1>3. /\ e = [f \in Fields |-> e[f]] /\ e.pc = pc /\ e.exit = diag[d].exit
      /\ e.proved = diag[d].proved /\ e.clean = diag[d].clean
      /\ e.soft = diag[d].soft
  BY <1>0 DEF Sound, Fields
<1> HIDE DEF e
<1>4. Sound(e)
  BY <1>0, <1>3 DEF Sound, Going, Stages
<1> QED BY <1>2, <1>4, BecomesSound

(* Docker, the image, the active profile and the subnet: there, or not.      *)
LEMMA PlainChecksSound ==
  ASSUME AllSound, NEW d \in Diagnoses,
         DockerAndImage(d) \/ ActiveProfile(d) \/ NetworkSubnet(d)
  PROVE  AllSound'
<1>1. \E check \in Checks \ {"egress"} : Doing(d, check) /\ \E passed : Plainly(d, check, passed)
  BY DEF DockerAndImage, ActiveProfile, NetworkSubnet, Checks
<1> QED BY <1>1, PlainSound

(* The label of the image and the mode of the profile agree.                 *)
LEMMA DatapathContractSound ==
  ASSUME AllSound, NEW d \in Diagnoses, DatapathContract(d)
  PROVE  AllSound'
<1>1. PICK label \in {"tproxy", "redirect", "none", "unread"},
           mode \in {"none", "unreadable", "tproxy", "redirect"} :
        LET agree == label = mode /\ label \in {"tproxy", "redirect"} IN
        ConcludesAs(d, [diag[d] EXCEPT !.mode = mode], "contract",
                    Contract(label, mode), agree, agree)
  BY DEF DatapathContract
<1> DEFINE agree == label = mode /\ label \in {"tproxy", "redirect"}
           s     == [diag[d] EXCEPT !.mode = mode]
           out   == Contract(label, mode)
<1>2. /\ out # "fail" => agree
      /\ out \notin {"fail", "degraded", "unknown"} => agree
  BY DEF Contract, Hard
<1>3. Sound(diag[d]) /\ diag[d].pc = "contract" /\ "contract" \in Checks \ {"forwarding"}
  BY DEF AllSound, DatapathContract, Doing, Checks
<1>4. Sound(s) /\ s.pc = "contract"
  BY <1>3, RemembersSound
<1>5. diag' = [diag EXCEPT ![d] = Concluded(s, "contract", out, agree, agree)]
  BY <1>1 DEF ConcludesAs
<1> HIDE DEF s, out, agree
<1>6. Sound(Concluded(s, "contract", out, agree, agree))
  BY <1>2, <1>3, <1>4, ConcludedSound
<1> QED BY <1>5, <1>6, BecomesSound

(* The container is healthy.                                                 *)
LEMMA ContainerHealthySound ==
  ASSUME AllSound, NEW d \in Diagnoses, ContainerHealthy(d)
  PROVE  AllSound'
<1>1. diag[d].pc \in Checks \cup Stages /\ "container" \in Checks \ {"egress"}
  BY DEF ContainerHealthy, Doing, Checks
<1>2. \A s : Healthy1(s) # "fail" => s = "healthy"
  BY DEF Healthy1, Hard
<1> QED BY <1>1, <1>2, CheckSound DEF ContainerHealthy

(* All preconditions hold; of the last one, a reading that says so.          *)
LEMMA TproxyPreconditionsSound ==
  ASSUME AllSound, NEW d \in Diagnoses, TproxyPreconditions(d)
  PROVE  AllSound'
<1>1. diag[d].pc \in Checks \cup Stages /\ "preconditions" \in Checks \ {"egress"}
  BY DEF TproxyPreconditions, Doing, Checks
<1>2. ASSUME NEW bad \in Preconditions
      PROVE  Preconditioned(Preconditions \ {bad}, "1", "0") = "fail"
  BY <1>2 DEF Preconditioned, Hard
<1>3. ASSUME NEW v6 \in V6Readings,
             Preconditioned(Preconditions, v6[1], v6[2]) # "fail"
      PROVE  v6[1] = "1" \/ v6[2] = "0"
  BY <1>3 DEF Preconditioned, Hard, FailClosed
<1>4. CASE \E bad \in Preconditions :
             Concludes(d, "preconditions", Preconditioned(Preconditions \ {bad}, "1", "0"),
                       FALSE, FALSE)
  BY <1>1, <1>2, <1>4, CheckSound
<1>5. ASSUME NEW v6 \in V6Readings,
             LET well == v6[1] = "1" \/ v6[2] = "0" IN
             Concludes(d, "preconditions", Preconditioned(Preconditions, v6[1], v6[2]),
                       well, well)
      PROVE  AllSound'
  <2> DEFINE well == v6[1] = "1" \/ v6[2] = "0"
             out  == Preconditioned(Preconditions, v6[1], v6[2])
  <2>1. Concludes(d, "preconditions", out, well, well) /\ (out # "fail" => well)
    BY <1>3, <1>5
  <2> HIDE DEF well, out
  <2> QED BY <1>1, <2>1, CheckSound
<1> QED BY <1>4, <1>5 DEF TproxyPreconditions

(* Every container listed has its route through the proxy.                   *)
LEMMA DefaultRouteSound ==
  ASSUME AllSound, NEW d \in Diagnoses, DefaultRoute(d)
  PROVE  AllSound'
<1>1. PICK list \in {"read", "error"}, names \in Listing :
        \E route \in Routes(names) :
          LET well == list = "read" /\ \A c \in names : route[c] = "proxy" IN
          ConcludesAs(d, [diag[d] EXCEPT !.list = list, !.names = names], "route",
                      DefaultRoutes(list, names, route), well, well)
  BY DEF DefaultRoute
<1>2. PICK route \in Routes(names) :
        LET well == list = "read" /\ \A c \in names : route[c] = "proxy" IN
        ConcludesAs(d, [diag[d] EXCEPT !.list = list, !.names = names], "route",
                    DefaultRoutes(list, names, route), well, well)
  BY <1>1
<1> DEFINE well == list = "read" /\ \A c \in names : route[c] = "proxy"
           s    == [diag[d] EXCEPT !.list = list, !.names = names]
           out  == DefaultRoutes(list, names, route)
<1>3. out # "fail" => well
  BY DEF DefaultRoutes, Hard
<1>4. Sound(diag[d]) /\ diag[d].pc = "route" /\ "route" \in Checks \ {"forwarding"}
  BY DEF AllSound, DefaultRoute, Doing, Checks
<1>5. Sound(s) /\ s.pc = "route"
  BY <1>4, RemembersSound
<1>6. diag' = [diag EXCEPT ![d] = Concluded(s, "route", out, well, well)]
  BY <1>2 DEF ConcludesAs
<1> HIDE DEF s, out, well
<1>7. Sound(Concluded(s, "route", out, well, well))
  BY <1>3, <1>4, <1>5, ConcludedSound
<1> QED BY <1>6, <1>7, BecomesSound

(* The proxy's way out is not the host's, which leaves the exit.             *)
LEMMA SelfEgressSound ==
  ASSUME AllSound, NEW d \in Diagnoses, SelfEgress(d)
  PROVE  AllSound'
<1>1. PICK self \in ProbeIPs \ {"third"}, dns \in {"host", "exit", "third", "none"} :
        LET through == self = "exit" IN
        ConcludesAs(d, [diag[d] EXCEPT !.self = self], "egress",
                    Egress("host", self, dns), through /\ dns # "host",
                    through /\ dns \notin {"host", "none"})
  BY DEF SelfEgress
<1> DEFINE s      == [diag[d] EXCEPT !.self = self]
           out    == Egress("host", self, dns)
           proved == self = "exit" /\ dns # "host"
           clean  == self = "exit" /\ dns \notin {"host", "none"}
<1>2. /\ out # "fail" => proved
      /\ out \notin {"fail", "degraded", "unknown"} => clean
  BY DEF Egress, Tunneled, ClassifyDNS, Hard, ProbeIPs
<1>3. Sound(diag[d]) /\ diag[d].pc = "egress" /\ "egress" \in Checks \ {"forwarding"}
  BY DEF AllSound, SelfEgress, Doing, Checks
<1>4. Sound(s) /\ s.pc = "egress"
  BY <1>3, RemembersSound
<1>5. diag' = [diag EXCEPT ![d] = Concluded(s, "egress", out, proved, clean)]
  BY <1>1 DEF ConcludesAs
<1>6. s.self = self
  BY <1>3 DEF Sound, Fields
<1>7. out # "fail" => s.self = "exit"
  BY <1>2, <1>6
<1> HIDE DEF s, out, proved, clean
<1>8. Sound(Concluded(s, "egress", out, proved, clean))
  BY <1>2, <1>3, <1>4, <1>7, ConcludedSound
<1> QED BY <1>5, <1>8, BecomesSound

(* No workspace leaks by v6, and one that may is shown as unknown.           *)
LEMMA WorkspaceV6Sound ==
  ASSUME AllSound, NEW d \in Diagnoses, WorkspaceV6FailClosed(d)
  PROVE  AllSound'
<1> DEFINE names == diag[d].names
           list  == diag[d].list
<1>1. PICK table \in [names -> {"default", "blackhole", "empty", "unread"}],
           disabled \in {"1", "0", "unread"} :
        LET verdict == [c \in names |-> WorkspaceV6(table[c], disabled)]
            leaks   == \E c \in names : table[c] = "default"
            sure    == disabled = "1" \/ \A c \in names : table[c] # "unread" IN
        Concludes(d, "v6", V6Outcome(list, names, verdict), ~leaks, ~leaks /\ sure)
  BY DEF WorkspaceV6FailClosed
<1> DEFINE verdict == [c \in names |-> WorkspaceV6(table[c], disabled)]
           leaks   == \E c \in names : table[c] = "default"
           sure    == disabled = "1" \/ \A c \in names : table[c] # "unread"
           out     == V6Outcome(list, names, verdict)
           clean   == ~leaks /\ sure
           proved  == ~leaks
<1>2. \A c \in names : /\ table[c] = "default" => verdict[c] = "leak"
                       /\ table[c] = "unread" /\ disabled # "1" => verdict[c] = "unknown"
  BY DEF WorkspaceV6
<1> HIDE DEF verdict
<1>3. out # "fail" => \A c \in names : verdict[c] # "leak"
  BY DEF V6Outcome
<1>4. out \notin {"fail", "unknown"} => \A c \in names : verdict[c] # "unknown"
  BY DEF V6Outcome
<1>5. out # "fail" => proved
  BY <1>2, <1>3
<1>6. out \notin {"fail", "degraded", "unknown"} => clean
  BY <1>2, <1>3, <1>4
<1>7. Concludes(d, "v6", out, proved, clean)
  BY <1>1 DEF verdict
<1>8. diag[d].pc \in Checks \cup Stages /\ "v6" \in Checks \ {"egress"}
  BY DEF WorkspaceV6FailClosed, Doing, Checks
<1> HIDE DEF out, proved, clean
<1> QED BY <1>5, <1>6, <1>7, <1>8, CheckSound

(* The protocol's fields are there, and a certificate unseen is unknown.     *)
LEMMA ProtocolAndSockoptSound ==
  ASSUME AllSound, NEW d \in Diagnoses, ProtocolAndSockopt(d)
  PROVE  AllSound'
<1>1. CASE Doing(d, "protocol")
  <2>1. PICK p \in Protocols :
          LET has == p.kind = "hysteria2" \/ (p.sni /\ (p.shortId \/ p.kind = "tls")) IN
          Concludes(d, "protocol", ProtocolSanity(p), p.loads /\ has,
                    p.loads /\ has /\ (p.kind = "hysteria2" =>
                                         p.leaf \in {"pinned", "unpinned"}))
    BY <1>1 DEF ProtocolAndSockopt, Doing
  <2> DEFINE has    == p.kind = "hysteria2" \/ (p.sni /\ (p.shortId \/ p.kind = "tls"))
             out    == ProtocolSanity(p)
             proved == p.loads /\ has
             clean  == p.loads /\ has /\ (p.kind = "hysteria2" =>
                                            p.leaf \in {"pinned", "unpinned"})
  <2>2. /\ p.kind \in {"hysteria2", "reality", "tls"}
        /\ p.leaf \in {"pinned", "unpinned", "other", "refused", "none"}
        /\ p.kind = "hysteria2" => p.leaf # "none"
    BY DEF Protocols, Hysteria, Vless
  <2>3. /\ out # "fail" => proved
        /\ out \notin {"fail", "degraded", "unknown"} => clean
    <3>1. CASE ~p.loads
      BY <3>1 DEF ProtocolSanity
    <3>2. CASE p.loads /\ p.kind = "hysteria2"
      BY <2>2, <3>2 DEF ProtocolSanity
    <3>3. CASE p.loads /\ p.kind # "hysteria2"
      <4>1. out = Hard(p.sni /\ (p.kind = "reality" => p.shortId))
        BY <3>3 DEF ProtocolSanity
      <4>2. out # "fail" => p.sni /\ (p.kind = "reality" => p.shortId)
        BY <4>1 DEF Hard
      <4>3. p.kind \in {"reality", "tls"}
        BY <2>2, <3>3
      <4> QED BY <3>3, <4>2, <4>3
    <3> QED BY <3>1, <3>2, <3>3
  <2>4. diag[d].pc \in Checks \cup Stages /\ "protocol" \in Checks \ {"egress"}
    BY <1>1 DEF Doing, Checks
  <2>5. Concludes(d, "protocol", out, proved, clean)
    BY <2>1
  <2> HIDE DEF out, proved, clean
  <2> QED BY <2>3, <2>4, <2>5, CheckSound
<1>2. CASE Doing(d, "sockopt")
  <2> DEFINE out   == InboundTproxy(diag[d].mode)
             clean == diag[d].mode = "tproxy"
  <2>1. out \notin {"fail", "degraded", "unknown"} => clean
    BY DEF InboundTproxy
  <2>2. diag[d].pc \in Checks \cup Stages /\ "sockopt" \in Checks \ {"egress"}
    BY <1>2 DEF Doing, Checks
  <2>3. Concludes(d, "sockopt", out, TRUE, clean)
    BY <1>2 DEF ProtocolAndSockopt, Doing
  <2> HIDE DEF out, clean
  <2> QED BY <2>1, <2>2, <2>3, CheckSound
<1> QED BY <1>1, <1>2 DEF ProtocolAndSockopt

(* The stages of the probe prove nothing yet, and keep what it compares with.*)
LEMMA StagesSound ==
  ASSUME AllSound, NEW d \in Diagnoses,
         diag[d].pc \in {"forwarding"} \cup Stages, NEW pc \in Stages, NEW e,
         \/ e = [diag[d] EXCEPT !.pc = pc]
         \/ \E ip : e = [diag[d] EXCEPT !.direct = ip, !.pc = pc]
         \/ \E ip : e = [diag[d] EXCEPT !.fwd = ip, !.pc = pc],
         diag' = [diag EXCEPT ![d] = e]
  PROVE  AllSound'
<1>0. Sound(diag[d])
  BY DEF AllSound
<1>1. /\ e = [f \in Fields |-> e[f]] /\ e.pc = pc
      /\ e.exit = diag[d].exit /\ e.proved = diag[d].proved
      /\ e.clean = diag[d].clean /\ e.soft = diag[d].soft
      /\ e.self = diag[d].self
  BY <1>0 DEF Sound, Fields
<1>2. diag[d].pc \in Going
  BY DEF Going, Checks
<1>3. Sound(e)
  BY <1>0, <1>1, <1>2 DEF Sound
<1> QED BY <1>3, BecomesSound

(* The probe passes if its way out is the proxy's, which is the exit.        *)
LEMMA SidecarSound ==
  ASSUME AllSound, NEW d \in Diagnoses,
         SidecarCreate(d) \/ SidecarStart(d) \/ SidecarProbe(d) \/ SidecarRemove(d)
  PROVE  AllSound'
<1>0. Sound(diag[d]) /\ diag = [c \in Diagnoses |-> diag[c]]
  BY DEF AllSound
<1>1. ASSUME NEW pc \in Stages, diag[d].pc \in {"forwarding"} \cup Stages, GoesOn(d, pc)
      PROVE  AllSound'
  <2>1. diag' = [diag EXCEPT ![d] = [diag[d] EXCEPT !.pc = pc]]
    BY <1>0, <1>1 DEF GoesOn
  <2> QED BY <1>1, <2>1, StagesSound
<1>2. CASE SidecarCreate(d)
  <2>1. diag[d].pc = "forwarding" /\ "forwarding" \in Checks \ {"egress"}
    BY <1>2 DEF SidecarCreate, Doing, Checks
  <2>2. GoesOn(d, "start") \/ Concludes(d, "forwarding", "fail", FALSE, FALSE)
    BY <1>2 DEF SidecarCreate
  <2>3. CASE GoesOn(d, "start")
    BY <1>1, <2>1, <2>3 DEF Stages
  <2>4. CASE Concludes(d, "forwarding", "fail", FALSE, FALSE)
    BY <2>1, <2>4, CheckSound
  <2> QED BY <2>2, <2>3, <2>4
<1>3. CASE SidecarStart(d)
  BY <1>1, <1>3 DEF SidecarStart, Doing, Stages
<1>4. CASE SidecarProbe(d)
  <2>1. CASE Doing(d, "direct")
    <3>1. PICK ip \in ProbeIPs :
            diag' = [diag EXCEPT ![d].direct = ip,
                                 ![d].pc = IF ip = "error" THEN "remove" ELSE "reroute"]
      BY <1>4, <2>1 DEF SidecarProbe, Doing
    <3> DEFINE pc == IF ip = "error" THEN "remove" ELSE "reroute"
               e  == [diag[d] EXCEPT !.direct = ip, !.pc = pc]
    <3>2. diag' = [diag EXCEPT ![d] = e]
      BY <1>0, <3>1
    <3>3. pc \in Stages /\ diag[d].pc \in {"forwarding"} \cup Stages
      BY <2>1 DEF Stages, Doing
    <3> HIDE DEF pc
    <3> QED BY <3>2, <3>3, StagesSound
  <2>2. CASE Doing(d, "reroute")
    BY <1>1, <1>4, <2>2 DEF SidecarProbe, Doing, Stages
  <2>3. CASE Doing(d, "forwarded")
    <3>1. PICK ip \in ProbeIPs : diag' = [diag EXCEPT ![d].fwd = ip, ![d].pc = "remove"]
      BY <1>4, <2>3 DEF SidecarProbe, Doing
    <3> DEFINE e == [diag[d] EXCEPT !.fwd = ip, !.pc = "remove"]
    <3>2. diag' = [diag EXCEPT ![d] = e]
      BY <1>0, <3>1
    <3>3. "remove" \in Stages /\ diag[d].pc \in {"forwarding"} \cup Stages
      BY <2>3 DEF Stages, Doing
    <3> QED BY <3>2, <3>3, StagesSound
  <2> QED BY <1>4, <2>1, <2>2, <2>3 DEF SidecarProbe
<1>5. CASE SidecarRemove(d)
  <2> DEFINE r       == diag[d]
             through == r.fwd = "exit"
             out     == IF r.fwd = "unread" THEN "fail"
                        ELSE ForwardingVerdict(r.self, r.fwd, r.direct)
  <2>1. Concludes(d, "forwarding", out, through, through)
    BY <1>5 DEF SidecarRemove
  <2>2. r.pc \in Stages /\ "forwarding" \in Checks \ {"egress"}
    BY <1>5 DEF SidecarRemove, Doing, Stages, Checks
  <2>3. r.self = "exit"
    BY <1>0, <2>2 DEF Sound
  <2>4. out # "fail" => through
    BY <2>3 DEF ForwardingVerdict, Hard
  <2> HIDE DEF out, through
  <2> QED BY <2>1, <2>2, <2>4, CheckSound
<1> QED BY <1>2, <1>3, <1>4, <1>5

(* A killed command has no exit code of its own.                             *)
LEMMA DiagKilledSound ==
  ASSUME AllSound, NEW d \in Diagnoses, DiagKilled(d)
  PROVE  AllSound'
<1>1. Sound(Fresh1("killed"))
  BY DEF Fresh1, Sound, Fields, Going, Checks, Stages
<1> QED BY <1>1, BecomesSound DEF DiagKilled

(***************************************************************************)
(* A diagnosis that exits with 0 has read everything that a hard check is   *)
(* about and found it as it has to be, and shows every finding that is soft *)
(* (runChecks and doctorExitCode of proxy_doctor.go, and ws proxy check and *)
(* status): what could not be read never passes for what was.               *)
(***************************************************************************)
THEOREM DiagnosisAlwaysHonest == DiagSpec => []DiagnosisHonest
<1>1. DiagInit => AllSound
  <2>1. Sound(Fresh1("typed"))
    BY DEF Fresh1, Sound, Fields, Going, Checks, Stages
  <2> QED BY <2>1 DEF DiagInit, DiagWorld, AllSound
<1>2. AllSound /\ [DiagNext]_diagVars => AllSound'
  <2> SUFFICES ASSUME AllSound, [DiagNext]_diagVars PROVE AllSound'
    OBVIOUS
  <2>1. CASE UNCHANGED diagVars \/ SidecarExpires
    BY <2>1 DEF diagVars, SidecarExpires, AllSound, Sound
  <2>2. ASSUME NEW d \in Diagnoses,
               \/ ProxyCheckCmd(d) \/ DoctorOrStatus(d) \/ ProxyStatusCmd(d)
               \/ DiagKilled(d)
        PROVE  AllSound'
    BY <2>2, ProxyCheckSound, DoctorOrStatusSound, ProxyStatusSound, DiagKilledSound
  <2>3. ASSUME NEW d \in Diagnoses,
               \/ DockerAndImage(d) \/ ActiveProfile(d) \/ DatapathContract(d)
               \/ ContainerHealthy(d) \/ TproxyPreconditions(d) \/ NetworkSubnet(d)
               \/ DefaultRoute(d) \/ SelfEgress(d)
               \/ WorkspaceV6FailClosed(d) \/ ProtocolAndSockopt(d)
        PROVE  AllSound'
    BY <2>3, PlainChecksSound, DatapathContractSound, ContainerHealthySound,
       TproxyPreconditionsSound, DefaultRouteSound, SelfEgressSound,
       WorkspaceV6Sound, ProtocolAndSockoptSound
  <2>4. ASSUME NEW d \in Diagnoses,
               \/ SidecarCreate(d) \/ SidecarStart(d) \/ SidecarProbe(d)
               \/ SidecarRemove(d)
        PROVE  AllSound'
    BY <2>4, SidecarSound
  <2> QED BY <2>1, <2>2, <2>3, <2>4 DEF DiagNext
<1>3. AllSound => DiagnosisHonest
  BY DEF AllSound, Sound, DiagnosisHonest
<1> QED BY <1>1, <1>2, <1>3, PTL DEF DiagSpec

-----------------------------------------------------------------------------
(* Type correctness.                                                         *)

Spots == {"typed", "status", "ended", "killed"} \cup Stages \cup Checks
Seen  == ProbeIPs \cup {"unread"}

ExitCodes == -1..13
Results == [pc : Spots, exit : ExitCodes, names : SUBSET Networked,
            list : {"unread", "read", "error"},
            mode : {"unread", "none", "unreadable", "tproxy", "redirect"},
            self : Seen, direct : Seen, fwd : Seen,
            soft : BOOLEAN, proved : BOOLEAN, clean : BOOLEAN]

DiagTyped ==
  /\ diag \in [Diagnoses -> Results]
  /\ sidecar \in [by : Diagnoses \cup {"none"}, up : BOOLEAN] /\ left \subseteq Diagnoses

(* The types follow.                                                         *)
LEMMA DiagTypedIs == DiagTyped => DiagTypeOK
<1> SUFFICES ASSUME DiagTyped PROVE DiagTypeOK
  OBVIOUS
<1>1. ToSet(CheckOrder) = Checks /\ Len(CheckOrder) = 13
  BY DEF ToSet, CheckOrder, Checks
<1>2. ASSUME NEW d \in Diagnoses
      PROVE  /\ diag[d].pc \in Spots /\ diag[d].exit \in -1..13
             /\ diag[d].names \subseteq Networked /\ diag[d].list \in {"unread", "read", "error"}
             /\ diag[d].mode \in {"unread", "none", "unreadable", "tproxy", "redirect"}
             /\ diag[d].self \in Seen /\ diag[d].direct \in Seen /\ diag[d].fwd \in Seen
             /\ diag[d].soft \in BOOLEAN /\ diag[d].proved \in BOOLEAN
             /\ diag[d].clean \in BOOLEAN
  <2>1. diag[d] \in Results
    BY DEF DiagTyped
  <2> QED BY <2>1 DEF Results, ExitCodes
<1>3. \A d \in Diagnoses :
        /\ {diag[d].self, diag[d].direct, diag[d].fwd} \subseteq ProbeIPs \cup {"unread"}
        /\ {diag[d].soft, diag[d].proved, diag[d].clean} \subseteq BOOLEAN
  BY <1>2 DEF Seen
<1>4. \A d \in Diagnoses :
        /\ diag[d].pc \in {"typed", "status", "ended", "killed"} \cup Stages
                            \cup ToSet(CheckOrder)
        /\ diag[d].exit \in -1..Len(CheckOrder)
        /\ diag[d].names \subseteq Networked /\ diag[d].list \in {"unread", "read", "error"}
        /\ diag[d].mode \in {"unread", "none", "unreadable", "tproxy", "redirect"}
  BY <1>1, <1>2 DEF Spots
<1> QED BY <1>3, <1>4 DEF DiagTyped, DiagTypeOK

(* A command that has read nothing.                                          *)
LEMMA FreshTyped == \A pc \in Spots : Fresh1(pc) \in Results
BY DEF Fresh1, Results, Seen, ExitCodes

(* They hold at first, and of commands that are none.                        *)
LEMMA DiagTypedFirst == DiagInit \/ DiagOff => DiagTyped
<1> SUFFICES ASSUME NEW pc \in {"typed", "killed"}, DiagWorld(pc) PROVE DiagTyped
  BY DEF DiagInit, DiagOff
<1>1. Fresh1(pc) \in Results
  BY FreshTyped DEF Spots
<1> QED BY <1>1 DEF DiagWorld, DiagTyped

(* A check that is concluded.                                                *)
LEMMA ConcludedTyped ==
  ASSUME NEW r \in Results, NEW check \in Checks, NEW out, NEW proved, NEW clean
  PROVE  Concluded(r, check, out, proved, clean) \in Results
<1> DEFINE b == IF out = "fail"
                THEN [Fresh1("ended") EXCEPT !.proved = r.proved, !.clean = r.clean]
                ELSE Forgets(r, check)
<1> DEFINE pc   == IF out = "fail" THEN "ended" ELSE After(check)
<1> DEFINE exit == IF out = "fail" THEN Rank(check)
                   ELSE IF After(check) = "ended" THEN 0 ELSE b.exit
<1> DEFINE soft == r.soft \/ out \in {"degraded", "unknown"}
<1> DEFINE sure == b.proved /\ proved
<1> DEFINE pure == b.clean /\ clean
<1>1. b \in Results
  <2>1. [Fresh1("ended") EXCEPT !.proved = r.proved, !.clean = r.clean] \in Results
    <3>1. Fresh1("ended") \in Results
      BY FreshTyped DEF Spots
    <3> QED BY <3>1 DEF Results
  <2>2. Forgets(r, check) \in Results
    <3>1. "unread" \in Seen
      BY DEF Seen
    <3>2. [r EXCEPT !.self = "unread", !.direct = "unread", !.fwd = "unread"] \in Results
      BY <3>1 DEF Results
    <3>3. [r EXCEPT !.names = {}, !.list = "unread"] \in Results
      BY DEF Results
    <3> QED BY <3>2, <3>3 DEF Forgets
  <2> QED BY <2>1, <2>2
<1>2. pc \in Spots
  BY AfterIsNoStage DEF Spots
<1>3. exit \in ExitCodes
  <2>1. b.exit \in ExitCodes
    <3> HIDE DEF b
    <3> QED BY <1>1 DEF Results
  <2> HIDE DEF b
  <2> QED BY <2>1, RankOf DEF ExitCodes
<1>4. soft \in BOOLEAN /\ sure \in BOOLEAN /\ pure \in BOOLEAN
  OBVIOUS
<1>5. Concluded(r, check, out, proved, clean)
        = [b EXCEPT !.pc = pc, !.exit = exit, !.soft = soft, !.proved = sure, !.clean = pure]
  BY DEF Concluded
<1> HIDE DEF b, pc, exit, soft, sure, pure
<1>6. [b EXCEPT !.pc = pc, !.exit = exit, !.soft = soft, !.proved = sure, !.clean = pure]
        \in Results
  BY <1>1, <1>2, <1>3, <1>4 DEF Results
<1> QED BY <1>5, <1>6

(* What a step makes of one command.                                         *)
Turns(d) == \E e \in Results : diag' = [diag EXCEPT ![d] = e]

(* A check concluded of what was known, or of what was read as well.         *)
LEMMA ConcludesTurns ==
  ASSUME DiagTyped, NEW d \in Diagnoses, NEW check \in Checks, NEW out, NEW proved, NEW clean,
         Concludes(d, check, out, proved, clean)
  PROVE  Turns(d)
<1>1. diag[d] \in Results
  BY DEF DiagTyped
<1>2. Concluded(diag[d], check, out, proved, clean) \in Results
  BY <1>1, ConcludedTyped
<1> QED BY <1>2 DEF Concludes, ConcludesAs, Turns

(* A check that first notes what it read.                                    *)
LEMMA ReadTurns ==
  ASSUME NEW d \in Diagnoses, NEW r \in Results, NEW check \in Checks, NEW out, NEW proved,
         NEW clean, ConcludesAs(d, r, check, out, proved, clean)
  PROVE  Turns(d)
BY ConcludedTyped DEF ConcludesAs, Turns

(* The short commands.                                                       *)
LEMMA ShortTurns ==
  ASSUME DiagTyped, NEW d \in Diagnoses,
         ProxyCheckCmd(d) \/ DoctorOrStatus(d) \/ ProxyStatusCmd(d) \/ DiagKilled(d)
  PROVE  Turns(d)
<1>1. diag[d] \in Results /\ diag = [c \in Diagnoses |-> diag[c]]
  BY DEF DiagTyped
<1>2. ASSUME NEW pc \in Spots PROVE [diag[d] EXCEPT !.pc = pc] \in Results
  BY <1>1, <1>2 DEF Results
<1>3. CASE ProxyCheckCmd(d)
  <2>1. PICK r \in {"passed", "failed", "skipped"} :
          LET all == r = "passed" IN
          diag' = [diag EXCEPT ![d].pc = "ended", ![d].exit = IF all THEN 0 ELSE 1,
                               ![d].proved = all, ![d].clean = all]
    BY <1>3 DEF ProxyCheckCmd
  <2> DEFINE all  == r = "passed"
  <2> DEFINE exit == IF all THEN 0 ELSE 1
  <2> DEFINE e    == [diag[d] EXCEPT !.pc = "ended", !.exit = exit, !.proved = all, !.clean = all]
  <2>2. diag' = [diag EXCEPT ![d] = e]
    BY <1>1, <2>1
  <2>3. all \in BOOLEAN /\ exit \in ExitCodes /\ "ended" \in Spots
    BY DEF Spots, ExitCodes
  <2> HIDE DEF all, exit
  <2>4. e \in Results
    BY <1>1, <2>3 DEF Results
  <2> QED BY <2>2, <2>4 DEF Turns
<1>4. CASE DoctorOrStatus(d)
  <2>1. PICK pc \in {"docker", "status"} : diag' = [diag EXCEPT ![d].pc = pc]
    BY <1>4 DEF DoctorOrStatus
  <2>2. diag' = [diag EXCEPT ![d] = [diag[d] EXCEPT !.pc = pc]]
    BY <1>1, <2>1
  <2>3. pc \in Spots
    BY DEF Spots, Checks
  <2> QED BY <1>2, <2>2, <2>3 DEF Turns
<1>5. CASE ProxyStatusCmd(d)
  <2>1. "ended" \in Spots /\ 0 \in ExitCodes /\ 1 \in ExitCodes
    BY DEF Spots, ExitCodes
  <2>2. CASE diag' = [diag EXCEPT ![d].pc = "ended", ![d].exit = 1]
    <3> DEFINE e == [diag[d] EXCEPT !.pc = "ended", !.exit = 1]
    <3>1. diag' = [diag EXCEPT ![d] = e]
      BY <1>1, <2>2
    <3>2. e \in Results
      BY <1>1, <2>1 DEF Results
    <3> QED BY <3>1, <3>2 DEF Turns
  <2>3. CASE \E scanned \in BOOLEAN, names \in Listing : \E route \in Routes(names) :
               LET shown == {ClassifyRouteProtection(route[c]) : c \in names} IN
               diag' = [diag EXCEPT ![d].pc = "ended", ![d].exit = 0,
                          ![d].soft  = ~scanned \/ ~(shown \subseteq {"protected"}),
                          ![d].clean = scanned /\ \A c \in names : route[c] = "proxy"]
    <3>1. PICK scanned \in BOOLEAN, names \in Listing : \E route \in Routes(names) :
               LET shown == {ClassifyRouteProtection(route[c]) : c \in names} IN
               diag' = [diag EXCEPT ![d].pc = "ended", ![d].exit = 0,
                          ![d].soft  = ~scanned \/ ~(shown \subseteq {"protected"}),
                          ![d].clean = scanned /\ \A c \in names : route[c] = "proxy"]
      BY <2>3
    <3>2. PICK route \in Routes(names) :
               LET shown == {ClassifyRouteProtection(route[c]) : c \in names} IN
               diag' = [diag EXCEPT ![d].pc = "ended", ![d].exit = 0,
                          ![d].soft  = ~scanned \/ ~(shown \subseteq {"protected"}),
                          ![d].clean = scanned /\ \A c \in names : route[c] = "proxy"]
      BY <3>1
    <3> DEFINE shown == {ClassifyRouteProtection(route[c]) : c \in names}
    <3> DEFINE soft  == ~scanned \/ ~(shown \subseteq {"protected"})
    <3> DEFINE clean == scanned /\ \A c \in names : route[c] = "proxy"
    <3> DEFINE e     == [diag[d] EXCEPT !.pc = "ended", !.exit = 0, !.soft = soft, !.clean = clean]
    <3>3. diag' = [diag EXCEPT ![d].pc = "ended", ![d].exit = 0, ![d].soft = soft,
                               ![d].clean = clean]
      BY <3>2
    <3>4. soft \in BOOLEAN /\ clean \in BOOLEAN
      OBVIOUS
    <3> HIDE DEF soft, clean
    <3>5. diag' = [diag EXCEPT ![d] = e]
      BY <1>1, <3>3
    <3>6. e \in Results
      BY <1>1, <2>1, <3>4 DEF Results
    <3> QED BY <3>5, <3>6 DEF Turns
  <2> QED BY <1>5, <2>2, <2>3 DEF ProxyStatusCmd
<1>6. CASE DiagKilled(d)
  <2>1. Fresh1("killed") \in Results
    BY FreshTyped DEF Spots
  <2> QED BY <1>6, <2>1 DEF DiagKilled, Turns
<1> QED BY <1>3, <1>4, <1>5, <1>6

(* The checks.                                                               *)
LEMMA ChecksTurn ==
  ASSUME DiagTyped, NEW d \in Diagnoses,
         \/ DockerAndImage(d) \/ ActiveProfile(d) \/ ContainerHealthy(d)
         \/ TproxyPreconditions(d) \/ NetworkSubnet(d) \/ WorkspaceV6FailClosed(d)
         \/ ProtocolAndSockopt(d)
  PROVE  Turns(d)
<1>1. \E check \in Checks : \E out, proved, clean : Concludes(d, check, out, proved, clean)
  <2>1. CASE DockerAndImage(d) \/ ActiveProfile(d) \/ NetworkSubnet(d)
    BY <2>1 DEF DockerAndImage, ActiveProfile, NetworkSubnet, Plainly, Checks
  <2>2. CASE ContainerHealthy(d)
    BY <2>2 DEF ContainerHealthy, Checks
  <2>3. CASE TproxyPreconditions(d)
    BY <2>3 DEF TproxyPreconditions, Checks
  <2>4. CASE WorkspaceV6FailClosed(d)
    BY <2>4 DEF WorkspaceV6FailClosed, Checks
  <2>5. CASE ProtocolAndSockopt(d)
    BY <2>5 DEF ProtocolAndSockopt, Checks
  <2> QED BY <2>1, <2>2, <2>3, <2>4, <2>5
<1> QED BY <1>1, ConcludesTurns

(* Those that remember what they read.                                       *)
LEMMA ReadingsTurn ==
  ASSUME DiagTyped, NEW d \in Diagnoses,
         DatapathContract(d) \/ DefaultRoute(d) \/ SelfEgress(d)
  PROVE  Turns(d)
<1>0. diag[d] \in Results
  BY DEF DiagTyped
<1>1. CASE DatapathContract(d)
  <2>1. PICK mode \in {"none", "unreadable", "tproxy", "redirect"} : \E out, well :
          ConcludesAs(d, [diag[d] EXCEPT !.mode = mode], "contract", out, well, well)
    BY <1>1 DEF DatapathContract
  <2>2. [diag[d] EXCEPT !.mode = mode] \in Results
    BY <1>0 DEF Results
  <2> QED BY <2>1, <2>2, ReadTurns DEF Checks
<1>2. CASE DefaultRoute(d)
  <2>1. PICK list \in {"read", "error"}, names \in Listing : \E out, well :
          ConcludesAs(d, [diag[d] EXCEPT !.list = list, !.names = names], "route",
                      out, well, well)
    BY <1>2 DEF DefaultRoute
  <2>2. names \subseteq Networked
    BY DEF Listing, Networked
  <2>3. [diag[d] EXCEPT !.list = list, !.names = names] \in Results
    BY <1>0, <2>2 DEF Results
  <2> QED BY <2>1, <2>3, ReadTurns DEF Checks
<1>3. CASE SelfEgress(d)
  <2>1. PICK self \in ProbeIPs \ {"third"} : \E out, proved, clean :
          ConcludesAs(d, [diag[d] EXCEPT !.self = self], "egress", out, proved, clean)
    BY <1>3 DEF SelfEgress
  <2>2. self \in Seen
    BY DEF Seen
  <2>3. [diag[d] EXCEPT !.self = self] \in Results
    BY <1>0, <2>2 DEF Results
  <2> QED BY <2>1, <2>3, ReadTurns DEF Checks
<1> QED BY <1>1, <1>2, <1>3

(* The probe, and the sidecar it is made in.                                 *)
LEMMA ProbeTurns ==
  ASSUME DiagTyped, NEW d \in Diagnoses,
         SidecarCreate(d) \/ SidecarStart(d) \/ SidecarProbe(d) \/ SidecarRemove(d)
  PROVE  Turns(d)
<1>0. diag[d] \in Results /\ diag = [c \in Diagnoses |-> diag[c]]
  BY DEF DiagTyped
<1>1. ASSUME NEW pc \in Stages, GoesOn(d, pc) PROVE Turns(d)
  <2>1. diag' = [diag EXCEPT ![d] = [diag[d] EXCEPT !.pc = pc]]
    BY <1>0, <1>1 DEF GoesOn
  <2>2. pc \in Spots
    BY DEF Spots
  <2>3. [diag[d] EXCEPT !.pc = pc] \in Results
    BY <1>0, <2>2 DEF Results
  <2> QED BY <2>1, <2>3 DEF Turns
<1>2. ASSUME NEW ip \in ProbeIPs, NEW pc \in Stages,
             \/ diag' = [diag EXCEPT ![d].direct = ip, ![d].pc = pc]
             \/ diag' = [diag EXCEPT ![d].fwd = ip, ![d].pc = pc]
      PROVE  Turns(d)
  <2>1. pc \in Spots /\ ip \in Seen
    BY DEF Spots, Seen
  <2>2. \/ diag' = [diag EXCEPT ![d] = [diag[d] EXCEPT !.direct = ip, !.pc = pc]]
        \/ diag' = [diag EXCEPT ![d] = [diag[d] EXCEPT !.fwd = ip, !.pc = pc]]
    BY <1>0, <1>2
  <2>3. /\ [diag[d] EXCEPT !.direct = ip, !.pc = pc] \in Results
        /\ [diag[d] EXCEPT !.fwd = ip, !.pc = pc] \in Results
    BY <1>0, <2>1 DEF Results
  <2> QED BY <2>2, <2>3 DEF Turns
<1>3. CASE SidecarCreate(d)
  <2>1. CASE GoesOn(d, "start")
    BY <1>1, <2>1 DEF Stages
  <2>2. CASE Concludes(d, "forwarding", "fail", FALSE, FALSE)
    BY <2>2, ConcludesTurns DEF Checks
  <2> QED BY <1>3, <2>1, <2>2 DEF SidecarCreate
<1>4. CASE SidecarStart(d)
  BY <1>1, <1>4 DEF SidecarStart, Stages
<1>5. CASE SidecarProbe(d)
  <2>1. CASE GoesOn(d, "forwarded") \/ GoesOn(d, "remove")
    BY <1>1, <2>1 DEF Stages
  <2>2. CASE \E ip \in ProbeIPs :
               diag' = [diag EXCEPT ![d].direct = ip,
                                    ![d].pc = IF ip = "error" THEN "remove" ELSE "reroute"]
    <3>1. PICK ip \in ProbeIPs :
               diag' = [diag EXCEPT ![d].direct = ip,
                                    ![d].pc = IF ip = "error" THEN "remove" ELSE "reroute"]
      BY <2>2
    <3> DEFINE pc == IF ip = "error" THEN "remove" ELSE "reroute"
    <3>2. pc \in Stages /\ diag' = [diag EXCEPT ![d].direct = ip, ![d].pc = pc]
      BY <3>1 DEF Stages
    <3> HIDE DEF pc
    <3> QED BY <1>2, <3>2
  <2>3. CASE \E ip \in ProbeIPs : diag' = [diag EXCEPT ![d].fwd = ip, ![d].pc = "remove"]
    BY <1>2, <2>3 DEF Stages
  <2> QED BY <1>5, <2>1, <2>2, <2>3 DEF SidecarProbe
<1>6. CASE SidecarRemove(d)
  <2>1. \E out, ok : Concludes(d, "forwarding", out, ok, ok)
    BY <1>6 DEF SidecarRemove
  <2> QED BY <2>1, ConcludesTurns DEF Checks
<1> QED BY <1>3, <1>4, <1>5, <1>6

(* The containers that may have the sidecar's name.                          *)
Sidecars == [by : Diagnoses \cup {"none"}, up : BOOLEAN]

(* What may become of it: made by a doctor, started, removed.                *)
LEMMA SidecarsAre ==
  /\ \A d \in Diagnoses : [by |-> d, up |-> FALSE] \in Sidecars
  /\ \A s \in Sidecars : [s EXCEPT !.up = TRUE] \in Sidecars
  /\ NotMade \in Sidecars
<1>1. \A d \in Diagnoses : [by |-> d, up |-> FALSE] \in Sidecars
  BY DEF Sidecars
<1>2. \A s \in Sidecars : [s EXCEPT !.up = TRUE] \in Sidecars
  BY DEF Sidecars
<1>3. NotMade \in Sidecars
  BY DEF Sidecars, NotMade
<1> QED BY <1>1, <1>2, <1>3

(* The sidecar and what is left of it.                                       *)
LEMMA SidecarTyped ==
  ASSUME DiagTyped, [DiagNext]_diagVars
  PROVE  sidecar' \in Sidecars /\ left' \subseteq Diagnoses
<1>0. sidecar \in Sidecars /\ left \subseteq Diagnoses
  BY DEF DiagTyped, Sidecars
<1>1. CASE UNCHANGED diagVars
  BY <1>0, <1>1 DEF diagVars
<1>2. CASE SidecarExpires
  BY <1>0, <1>2, SidecarsAre DEF SidecarExpires
<1>3. ASSUME NEW d \in Diagnoses,
             \/ ProxyCheckCmd(d) \/ DoctorOrStatus(d) \/ ProxyStatusCmd(d)
             \/ DockerAndImage(d) \/ ActiveProfile(d) \/ DatapathContract(d)
             \/ ContainerHealthy(d) \/ TproxyPreconditions(d) \/ NetworkSubnet(d)
      PROVE  UNCHANGED <<sidecar, left>>
  BY <1>3 DEF ProxyCheckCmd, DoctorOrStatus, ProxyStatusCmd, DockerAndImage, ActiveProfile,
              DatapathContract, ContainerHealthy, TproxyPreconditions, NetworkSubnet
<1>4. ASSUME NEW d \in Diagnoses,
             \/ DefaultRoute(d) \/ SelfEgress(d) \/ SidecarProbe(d)
             \/ WorkspaceV6FailClosed(d) \/ ProtocolAndSockopt(d)
      PROVE  UNCHANGED <<sidecar, left>>
  BY <1>4 DEF DefaultRoute, SelfEgress, SidecarProbe, WorkspaceV6FailClosed, ProtocolAndSockopt
<1>5. ASSUME NEW d \in Diagnoses, SidecarCreate(d) \/ SidecarStart(d)
      PROVE  sidecar' \in Sidecars /\ left' \subseteq Diagnoses
  <2>1. \/ sidecar' = sidecar \/ sidecar' = [by |-> d, up |-> FALSE]
        \/ sidecar' = [sidecar EXCEPT !.up = TRUE]
    BY <1>5 DEF SidecarCreate, CreateFailed, SidecarStart
  <2>2. UNCHANGED left
    BY <1>5 DEF SidecarCreate, SidecarStart
  <2>3. sidecar' \in Sidecars
    BY <1>0, <2>1, SidecarsAre
  <2> QED BY <1>0, <2>2, <2>3
<1>6. ASSUME NEW d \in Diagnoses, SidecarRemove(d) \/ DiagKilled(d)
      PROVE  sidecar' \in Sidecars /\ left' \subseteq Diagnoses
  <2>1. sidecar' = sidecar \/ sidecar' = NotMade
    BY <1>6 DEF SidecarRemove, DiagKilled
  <2>2. left' = left \/ left' = left \cup {d}
    BY <1>6 DEF SidecarRemove, DiagKilled
  <2>3. sidecar' \in Sidecars
    BY <1>0, <2>1, SidecarsAre
  <2> QED BY <1>0, <2>2, <2>3
<1>7. ASSUME UNCHANGED <<sidecar, left>>
      PROVE  sidecar' \in Sidecars /\ left' \subseteq Diagnoses
  BY <1>0, <1>7
<1>8. CASE DiagNext
  BY <1>2, <1>3, <1>4, <1>5, <1>6, <1>7, <1>8 DEF DiagNext
<1> QED BY <1>1, <1>8

(* Every step keeps the types.                                               *)
LEMMA DiagTypedStep == DiagTyped /\ [DiagNext]_diagVars => DiagTyped'
<1> SUFFICES ASSUME DiagTyped, [DiagNext]_diagVars PROVE DiagTyped'
  OBVIOUS
<1>1. ASSUME NEW d \in Diagnoses, Turns(d) PROVE diag' \in [Diagnoses -> Results]
  BY <1>1 DEF Turns, DiagTyped
<1>2. CASE UNCHANGED diagVars \/ SidecarExpires
  <2>1. UNCHANGED diag
    BY <1>2 DEF diagVars, SidecarExpires
  <2> QED BY <2>1, SidecarTyped DEF DiagTyped, Sidecars
<1>3. CASE \E d \in Diagnoses : Turns(d)
  BY <1>1, <1>3, SidecarTyped DEF DiagTyped, Sidecars
<1> QED BY <1>2, <1>3, ShortTurns, ChecksTurn, ReadingsTurn, ProbeTurns DEF DiagNext

(***************************************************************************)
(* The types of the diagnosis hold in every state of its commands.          *)
(***************************************************************************)
THEOREM DiagnosisTypeCorrect == DiagSpec => []DiagTypeOK
<1>1. DiagInit => DiagTyped
  BY DiagTypedFirst
<1>2. DiagTyped /\ [DiagNext]_diagVars => DiagTyped'
  BY DiagTypedStep
<1>3. DiagTyped => DiagTypeOK
  BY DiagTypedIs
<1> QED BY <1>1, <1>2, <1>3, PTL DEF DiagSpec
=============================================================================
