------------------------- MODULE OverlayHostProofs -------------------------
(***************************************************************************)
(* Proofs about OverlayHost and the registry it reads, for any overlays,   *)
(* configurations and bounds.                                              *)
(*                                                                         *)
(* The order needs WalkInv: the stack is a path of dependencies, so that   *)
(* an overlay whose dependency is still being visited when it is appended  *)
(* is one the dependency leads back to. The registry and the isolation of  *)
(* failures do not depend on the order.                                    *)
(***************************************************************************)
EXTENDS OverlayHost, TLAPS

\* A file of versions, one for each overlay.
Versioned == [Overlays -> Versions]

\* TypeOK without the walk.
HostTypes ==
    /\ cfg \in Configs
    /\ current \in Versioned /\ previous \in Versioned /\ attempt \in Versioned
    /\ units \in Versioned /\ running \in Versioned
    /\ snapshot \in [Packages -> Versions]
    /\ manager \in {"idle", "check", "refresh", "boot", "start"}
    /\ todo \subseteq Overlays /\ skipped \subseteq Overlays

\* The registry's memory is ahead of its file, and the file of the answers.
AckedInv ==
    /\ RegistryTypeOK
    /\ \A p \in Packages : acked[p] <= dataFile[p] /\ dataFile[p] <= entries[p] /\ entries[p] <= published

\* How far the manager has got with an overlay that no step of its own failed:
\* it is still to be handled, or has units, or runs.
StartedInv ==
    \A o \in cfg.enabled \ skipped : current[o] # 0 =>
        /\ manager = "boot" => o \in todo \/ units[o] # 0
        /\ manager = "start" => units[o] # 0 /\ (o \in todo \/ running[o] # 0)
        /\ manager \in {"idle", "check", "refresh"} => running[o] # 0

\* An overlay that a check of all overlays has passed is where the registry
\* wants it, or that was tried.
LandedInv ==
    manager = "check" =>
        \A d \in cfg.enabled : d \in todo \/ snapshot[d] \in {0, current[d], attempt[d]}

\* In place i of the order: the overlay's dependencies are before it, but for
\* those that lead back to it.
After(i) ==
    \A d \in cfg.deps[order[i]] :
        (\E j \in 1 .. i - 1 : order[j] = d) \/ order[i] \in Below(cfg.deps, d, Overlays)

\* An overlay is on the stack once or in the order once, the stack is a path of
\* dependencies, and what is in the order is after its dependencies.
WalkInv ==
    /\ stack \in Seq(Overlays) /\ order \in Seq(Overlays)
    /\ manager = "idle" => stack = <<>> /\ order = <<>>
    /\ \A i, j \in DOMAIN stack : stack[i] = stack[j] => i = j
    /\ \A i, j \in DOMAIN order : order[i] = order[j] => i = j
    /\ \A i \in DOMAIN stack, j \in DOMAIN order : stack[i] # order[j]
    /\ \A i, j \in DOMAIN stack : i < j => stack[j] \in Below(cfg.deps, stack[i], Overlays)
    /\ \A i \in DOMAIN order : After(i)

IInv == HostTypes /\ AckedInv /\ StartedInv /\ LandedInv /\ WalkInv
----------------------------------------------------------------------------
(* Facts about the operators.                                              *)

LEMMA Constants ==
    /\ N \in Nat /\ N >= 1 /\ Packages = Overlays /\ MaxPublish \in Nat /\ 2 \in Versions /\ 1 \in Versions /\ 0 \in Versions
    /\ MaxDisturb \in Nat /\ Versions \subseteq Nat
    /\ \A c \in Configs : c.enabled \subseteq Overlays /\ c.deps \in [Overlays -> SUBSET Overlays]
BY HostAssumption, RegistryAssumption DEF Versions

LEMMA DisturbType ==
    ASSUME disturbed \in 0 .. MaxDisturb, NEW kind, Disturb(kind) PROVE disturbed' \in 0 .. MaxDisturb
BY Constants DEF Disturb

\* systemctl start: the target runs if it has units, and nothing that runs
\* stops or changes.
LEMMA StartedRuns ==
    ASSUME NEW o \in Overlays, NEW u \in Versioned, NEW r \in Versioned
    PROVE  /\ Started(o, u, r) \in Versioned
           /\ u[o] # 0 => Started(o, u, r)[o] = u[o]
           /\ \A x \in Overlays : r[x] # 0 => Started(o, u, r)[x] # 0
<1>1. CASE u[o] = 0
  BY <1>1 DEF Started
<1>2. CASE u[o] # 0
  <2> DEFINE f == [x \in Overlays |-> IF x = o \/ (x \in Below(cfg.deps, o, Loaded(u)) /\ r[x] = 0) THEN u[x] ELSE r[x]]
  <2>1. Started(o, u, r) = f
    BY <1>2 DEF Started
  <2>2. f \in Versioned /\ f[o] = u[o] /\ \A x \in Overlays : r[x] # 0 => f[x] # 0
    BY <1>2 DEF Versioned
  <2> HIDE DEF f
  <2> QED BY <2>1, <2>2
<1> QED BY <1>1, <1>2

\* What is below an overlay: its dependencies, and theirs.
LEMMA BelowCloses ==
    ASSUME NEW deps \in [Overlays -> SUBSET Overlays], NEW o \in Overlays
    PROVE  /\ deps[o] \subseteq Below(deps, o, Overlays)
           /\ \A x \in Below(deps, o, Overlays) : deps[x] \subseteq Below(deps, o, Overlays)
<1>1. deps[o] \subseteq Below(deps, o, Overlays)
  BY DEF Below
<1>2. ASSUME NEW x \in Below(deps, o, Overlays), NEW d \in deps[x] PROVE d \in Below(deps, o, Overlays)
  <2>1. x \in Overlays /\ d \in Overlays
    BY <1>2 DEF Below
  <2>2. ASSUME NEW S \in SUBSET Overlays, deps[o] \subseteq S, \A y \in S \cap Overlays : deps[y] \subseteq S
        PROVE  d \in S
    <3>1. x \in S
      BY <1>2, <2>2 DEF Below
    <3> QED BY <1>2, <2>1, <2>2, <3>1
  <2> QED BY <2>1, <2>2 DEF Below
<1> QED BY <1>1, <1>2

\* The last overlay on a stack, and the stack without it.
LEMMA Pop ==
    ASSUME NEW s \in Seq(Overlays), s # <<>>
    PROVE  /\ Len(s) \in Nat /\ Len(s) >= 1 /\ DOMAIN s = 1 .. Len(s)
           /\ Last(s) = s[Len(s)] /\ Last(s) \in Overlays
           /\ Front(s) \in Seq(Overlays) /\ DOMAIN Front(s) = 1 .. Len(s) - 1
           /\ \A i \in 1 .. Len(s) - 1 : Front(s)[i] = s[i]
BY DEF Last, Front

\* One more at the end of a sequence.
LEMMA Push ==
    ASSUME NEW s \in Seq(Overlays), NEW o \in Overlays, NEW t, t = Append(s, o)
    PROVE  /\ t \in Seq(Overlays) /\ Len(s) \in Nat
           /\ DOMAIN s = 1 .. Len(s) /\ DOMAIN t = 1 .. Len(s) + 1
           /\ t[Len(s) + 1] = o /\ \A i \in 1 .. Len(s) : t[i] = s[i]
OBVIOUS
----------------------------------------------------------------------------
(* The registry.                                                           *)

LEMMA RegistryStep ==
    ASSUME AckedInv, RegistryNext PROVE AckedInv'
<1>1. /\ entries \in [Packages -> Versions] /\ dataFile \in [Packages -> Versions] /\ acked \in [Packages -> Versions]
      /\ published \in Versions /\ disturbed \in 0 .. MaxDisturb
  BY DEF AckedInv, RegistryTypeOK
<1>2. ASSUME NEW p \in Packages, Post(p) PROVE AckedInv'
  <2>1. published' \in Versions /\ published' = published + 1
    BY <1>1, <1>2, Constants DEF Post, Versions
  <2>2. /\ entries' \in [Packages -> Versions] /\ entries'[p] = published'
        /\ \A q \in Packages : q # p => entries'[q] = entries[q]
    BY <1>1, <1>2, <2>1 DEF Post
  <2>3. RegistryTypeOK'
    BY <1>1, <1>2, <2>1, <2>2 DEF Post, RegistryTypeOK
  <2>4. ASSUME NEW q \in Packages PROVE acked[q] <= dataFile[q] /\ dataFile[q] <= entries'[q] /\ entries'[q] <= published'
    <3>1. acked[q] <= dataFile[q] /\ dataFile[q] <= entries[q] /\ entries[q] <= published
      BY DEF AckedInv
    <3>2. dataFile[q] \in Nat /\ entries[q] \in Nat /\ published \in Nat
      BY <1>1, Constants
    <3> QED BY <2>1, <2>2, <3>1, <3>2
  <2> QED BY <1>2, <2>3, <2>4 DEF Post, AckedInv
<1>3. ASSUME Saves PROVE AckedInv'
  <2>1. \A q \in Packages : acked'[q] \in {acked[q], entries[q]} /\ acked'[q] \in Versions
    BY <1>1, <1>3 DEF Saves
  <2>2. acked' \in [Packages -> Versions]
    BY <1>1, <1>3 DEF Saves
  <2>3. RegistryTypeOK'
    BY <1>1, <1>3, <2>2 DEF Saves, RegistryTypeOK
  <2>4. ASSUME NEW q \in Packages PROVE acked'[q] <= dataFile'[q] /\ dataFile'[q] <= entries'[q] /\ entries'[q] <= published'
    <3>1. acked[q] <= dataFile[q] /\ dataFile[q] <= entries[q] /\ entries[q] <= published
      BY DEF AckedInv
    <3>2. dataFile[q] \in Nat /\ entries[q] \in Nat /\ published \in Nat /\ acked[q] \in Nat
      BY <1>1, Constants
    <3>3. dataFile'[q] = entries[q] /\ entries'[q] = entries[q] /\ published' = published
      BY <1>3 DEF Saves
    <3> QED BY <2>1, <3>1, <3>2, <3>3
  <2> QED BY <2>3, <2>4 DEF AckedInv
<1>4. ASSUME SaveFails PROVE AckedInv'
  BY <1>1, <1>4, DisturbType DEF SaveFails, AckedInv, RegistryTypeOK
<1>5. ASSUME RegistryRestarts PROVE AckedInv'
  <2>1. RegistryTypeOK'
    BY <1>1, <1>5, DisturbType DEF RegistryRestarts, RegistryTypeOK
  <2>2. ASSUME NEW q \in Packages PROVE acked[q] <= dataFile[q] /\ dataFile[q] <= dataFile[q] /\ dataFile[q] <= published
    <3>1. acked[q] <= dataFile[q] /\ dataFile[q] <= entries[q] /\ entries[q] <= published
      BY DEF AckedInv
    <3>2. dataFile[q] \in Nat /\ entries[q] \in Nat /\ published \in Nat
      BY <1>1, Constants
    <3> QED BY <3>1, <3>2
  <2> QED BY <1>5, <2>1, <2>2 DEF RegistryRestarts, AckedInv
<1> QED BY <1>2, <1>3, <1>4, <1>5 DEF RegistryNext

\* The manager only reads the registry.
LEMMA HostKeepsRegistry ==
    ASSUME AckedInv, Check \/ Boot \/ Exits \/ Leaves \/ \E o \in Overlays : Visits(o) PROVE AckedInv'
<1>1. UNCHANGED registryVars /\ disturbed' \in 0 .. MaxDisturb
  <2>1. disturbed \in 0 .. MaxDisturb
    BY DEF AckedInv, RegistryTypeOK
  <2>2. CASE Check
    <3>1. CASE \E o \in Overlays, v \in Versions : Commits(o, v) \/ Refused(o, v)
      BY <2>1, <3>1, DisturbType DEF Activates, Commits, Refused
    <3>2. CASE \E o \in Overlays, v \in Versions : Unhealthy(o, v) \/ RollbackFails(o, v)
      BY <2>1, <3>2, DisturbType DEF Activates, Unhealthy, RollbackFails
    <3> QED BY <2>1, <2>2, <3>1, <3>2 DEF Check, CheckStarts, SkipsOverlay
  <2>3. CASE Boot
    BY <2>1, <2>3, DisturbType DEF Boot, Reboot, Booting, BootSkips, Regenerates, BootReloads, BootStarts
  <2> QED BY <2>1, <2>2, <2>3 DEF Exits, Leaves, Visits
<1> QED BY <1>1 DEF AckedInv, RegistryTypeOK, registryVars

LEMMA InitRegistry == Init => AckedInv
<1> SUFFICES ASSUME RegistryInit PROVE AckedInv
  BY DEF Init
<1>1. /\ entries \in [Packages -> Versions] /\ dataFile = entries /\ acked = entries /\ published = 2
      /\ \A p \in Packages : entries[p] \in {0, 2}
  BY Constants DEF RegistryInit
<1>2. RegistryTypeOK
  BY <1>1, Constants DEF RegistryInit, RegistryTypeOK
<1> QED BY <1>1, <1>2 DEF AckedInv

LEMMA NextRegistry == AckedInv /\ [Next]_vars => AckedInv'
<1> SUFFICES ASSUME AckedInv, [Next]_vars PROVE AckedInv'
  OBVIOUS
<1>1. CASE UNCHANGED vars
  BY <1>1 DEF vars, registryVars, AckedInv, RegistryTypeOK
<1> QED BY <1>1, RegistryStep, HostKeepsRegistry DEF Next

\* A store path that CI was told is published is in registry.json or replaced
\* there by a later one, through any failed saves and restarts of the registry
\* (ServeHTTP sets the entry before it saves and answers 200 after it).
THEOREM PublishedSurvives == Spec => []AckedSurvives
<1>1. AckedInv => AckedSurvives
  <2> SUFFICES ASSUME AckedInv, NEW p \in Packages PROVE acked[p] <= dataFile[p] /\ acked[p] <= entries[p]
    BY DEF AckedSurvives
  <2>1. acked[p] <= dataFile[p] /\ dataFile[p] <= entries[p]
    BY DEF AckedInv
  <2>2. acked[p] \in Nat /\ dataFile[p] \in Nat /\ entries[p] \in Nat
    BY Constants DEF AckedInv, RegistryTypeOK
  <2> QED BY <2>1, <2>2
<1> QED BY <1>1, InitRegistry, NextRegistry, PTL DEF Spec
----------------------------------------------------------------------------
(* The host.                                                               *)

HostInv == HostTypes /\ StartedInv /\ LandedInv

LEMMA InitHost == Init => HostInv
<1> SUFFICES ASSUME Init PROVE HostInv
  OBVIOUS
<1>1. current \in Versioned /\ previous \in Versioned /\ attempt \in Versioned
  BY Constants DEF Init, Versioned
<1>2. snapshot \in [Packages -> Versions]
  BY Constants DEF Init
<1>3. HostTypes
  BY <1>1, <1>2 DEF Init, HostTypes
<1>4. StartedInv /\ LandedInv
  BY DEF Init, StartedInv, LandedInv
<1> QED BY <1>3, <1>4 DEF HostInv

\* A manager starts, ends, or passes on to the second loop of the boot.
LEMMA TurnsHost ==
    ASSUME HostInv, AckedInv,
           BootReloads \/ Exits \/ Reboot \/ CheckStarts("check", Overlays) \/ \E o \in Overlays : CheckStarts("refresh", {o})
    PROVE  HostInv'
<1>1. cfg.enabled \subseteq Overlays
  BY Constants DEF HostInv, HostTypes
<1>2. snapshot' \in [Packages -> Versions] /\ todo' \subseteq Overlays
  BY <1>1, Constants DEF HostInv, HostTypes, AckedInv, RegistryTypeOK, BootReloads, Exits, Reboot, CheckStarts, Plan
<1>3. CASE Reboot
  <2>1. units' \in Versioned /\ running' \in Versioned
    BY <1>3, Constants DEF Reboot, Versioned
  <2>2. HostTypes'
    BY <1>2, <1>3, <2>1 DEF Reboot, HostInv, HostTypes, fileVars
  <2>3. todo' = cfg.enabled /\ manager' = "boot" /\ cfg' = cfg
    BY <1>1, <1>3 DEF Reboot, Plan
  <2> QED BY <2>2, <2>3 DEF HostInv, StartedInv, LandedInv
<1>4. CASE BootReloads
  <2>1. /\ todo' = {o \in Overlays : current[o] # 0} \cap cfg.enabled /\ todo = {}
        /\ manager = "boot" /\ manager' = "start" /\ UNCHANGED <<cfg, current, previous, attempt, units, running, skipped>>
    BY <1>4 DEF BootReloads, Plan, hostVars, fileVars
  <2>2. HostTypes'
    BY <1>2, <2>1 DEF HostInv, HostTypes
  <2>3. StartedInv'
    BY <1>1, <2>1 DEF HostInv, StartedInv
  <2> QED BY <2>1, <2>2, <2>3 DEF HostInv, LandedInv
<1>5. CASE Exits
  <2>1. /\ todo = {} /\ manager \in {"check", "refresh", "start"} /\ manager' = "idle"
        /\ UNCHANGED <<cfg, current, previous, attempt, units, running, skipped>>
    BY <1>5 DEF Exits, hostVars, fileVars
  <2>2. HostTypes'
    BY <1>2, <2>1 DEF HostInv, HostTypes
  <2>3. StartedInv'
    BY <2>1 DEF HostInv, StartedInv
  <2> QED BY <2>1, <2>2, <2>3 DEF HostInv, LandedInv
<1>6. CASE CheckStarts("check", Overlays) \/ \E o \in Overlays : CheckStarts("refresh", {o})
  <2>1. /\ manager = "idle" /\ manager' \in {"check", "refresh"} /\ (manager' = "check" => todo' = cfg.enabled)
        /\ UNCHANGED <<cfg, current, previous, attempt, units, running, skipped>>
    BY <1>1, <1>6 DEF CheckStarts, Plan, hostVars, fileVars
  <2>2. HostTypes'
    BY <1>2, <2>1 DEF HostInv, HostTypes
  <2>3. StartedInv'
    BY <2>1 DEF HostInv, StartedInv
  <2> QED BY <2>1, <2>2, <2>3 DEF HostInv, LandedInv
<1> QED BY <1>3, <1>4, <1>5, <1>6

\* A step of the boot for one overlay.
LEMMA BootHost ==
    ASSUME HostInv, NEW o \in Overlays, BootSkips(o) \/ Regenerates(o) \/ BootStarts(o)
    PROVE  HostInv'
<1>1. UNCHANGED <<cfg, current, previous, manager, snapshot>> /\ todo' = todo \ {o} /\ manager \in {"boot", "start"}
  BY DEF BootSkips, Regenerates, BootStarts, Booting, fileVars
<1>2. CASE BootStarts(o)
  <2>1. running' = Started(o, units, running) /\ manager = "start" /\ UNCHANGED <<attempt, units, skipped>>
    BY <1>2 DEF BootStarts, fileVars
  <2>2. /\ running' \in Versioned /\ (units[o] # 0 => running'[o] # 0)
        /\ \A x \in Overlays : running[x] # 0 => running'[x] # 0
    BY <2>1, StartedRuns DEF HostInv, HostTypes
  <2>3. HostTypes'
    BY <1>1, <2>1, <2>2 DEF HostInv, HostTypes
  <2>4. cfg.enabled \subseteq Overlays
    BY Constants DEF HostInv, HostTypes
  <2>5. StartedInv'
    BY <1>1, <2>1, <2>2, <2>4 DEF HostInv, StartedInv
  <2> QED BY <1>1, <2>1, <2>3, <2>5 DEF HostInv, LandedInv
<1>3. CASE BootSkips(o)
  <2>1. manager = "boot" /\ skipped' = skipped \cup {o} /\ UNCHANGED <<attempt, units, running>>
    BY <1>3 DEF BootSkips, Booting
  <2>2. HostTypes' /\ StartedInv'
    BY <1>1, <2>1 DEF HostInv, HostTypes, StartedInv
  <2> QED BY <1>1, <2>1, <2>2 DEF HostInv, LandedInv
<1>4. CASE Regenerates(o)
  <2>1. manager = "boot" /\ UNCHANGED <<skipped, running>>
    BY <1>4 DEF Regenerates, Booting
  <2>2. attempt' \in Versioned /\ units' \in Versioned
    BY <1>4, Constants DEF Regenerates, HostInv, HostTypes, Versioned
  <2>3. /\ current[o] # 0 => units'[o] = current[o]
        /\ \A x \in Overlays : x # o => units'[x] = units[x]
    BY <1>4 DEF Regenerates, HostInv, HostTypes, Versioned
  <2>4. HostTypes'
    BY <1>1, <2>1, <2>2 DEF HostInv, HostTypes
  <2>5. cfg.enabled \subseteq Overlays
    BY Constants DEF HostInv, HostTypes
  <2>6. StartedInv'
    BY <1>1, <2>1, <2>3, <2>5 DEF HostInv, StartedInv
  <2> QED BY <1>1, <2>1, <2>4, <2>6 DEF HostInv, LandedInv
<1> QED BY <1>2, <1>3, <1>4

\* A check passes one overlay: what runs goes on running, but for an overlay
\* whose own rollback fails; the version is current then, or was tried.
LEMMA CheckHost ==
    ASSUME HostInv, NEW o \in Overlays,
           SkipsOverlay(o) \/ \E v \in Versions : Commits(o, v) \/ Refused(o, v) \/ Unhealthy(o, v) \/ RollbackFails(o, v)
    PROVE  HostInv' /\ Checking /\ IsNext(o) /\ \A x \in Overlays : x # o => units'[x] = units[x]
<1>1. UNCHANGED <<cfg, manager, snapshot>> /\ todo' = todo \ {o} /\ Checking /\ IsNext(o)
  BY DEF SkipsOverlay, Commits, Refused, Unhealthy, RollbackFails, Activates
<1>2. /\ cfg.enabled \subseteq Overlays /\ HostTypes
  BY Constants DEF HostInv, HostTypes
<1> DEFINE Good == /\ current' \in Versioned /\ previous' \in Versioned /\ attempt' \in Versioned
                   /\ units' \in Versioned /\ running' \in Versioned /\ skipped' \subseteq Overlays
           Only == /\ \A x \in Overlays : x # o =>
                        /\ current'[x] = current[x] /\ attempt'[x] = attempt[x] /\ units'[x] = units[x]
                        /\ x \in skipped' <=> x \in skipped
                        /\ running[x] # 0 => running'[x] # 0
           Own == /\ o \in skipped' \/ running'[o] # 0 \/ (running'[o] = running[o] /\ current'[o] = current[o] /\ o \notin skipped)
                  /\ snapshot[o] \in {0, current'[o], attempt'[o]}
<1>3. ASSUME NEW v \in Versions, Commits(o, v) PROVE Good /\ Only /\ Own
  <2>1. /\ v # 0 /\ v = snapshot[o]
        /\ current' = [current EXCEPT ![o] = v] /\ attempt' = [attempt EXCEPT ![o] = 0]
        /\ previous' = IF current[o] = 0 THEN previous ELSE [previous EXCEPT ![o] = current[o]]
        /\ units' = [units EXCEPT ![o] = v] /\ running' = Started(o, units', running) /\ skipped' = skipped \ {o}
    BY <1>3 DEF Commits, Activates
  <2>2. /\ current' \in Versioned /\ attempt' \in Versioned /\ units' \in Versioned /\ current'[o] = v /\ units'[o] = v
        /\ \A x \in Overlays : x # o => current'[x] = current[x] /\ attempt'[x] = attempt[x] /\ units'[x] = units[x]
    BY <1>2, <2>1, Constants DEF HostTypes, Versioned
  <2>3. previous' \in Versioned
    BY <1>2, <2>1 DEF HostTypes, Versioned
  <2>4. running' \in Versioned /\ running'[o] # 0 /\ \A x \in Overlays : running[x] # 0 => running'[x] # 0
    <3>1. PICK u : u = units'
      OBVIOUS
    <3>2. u \in Versioned /\ u[o] # 0 /\ running \in Versioned /\ running' = Started(o, u, running)
      BY <1>2, <2>1, <2>2, <3>1 DEF HostTypes
    <3> QED BY <3>2, StartedRuns
  <2> QED BY <1>2, <2>1, <2>2, <2>3, <2>4 DEF HostTypes
<1>4. ASSUME NEW v \in Versions, Refused(o, v) PROVE Good /\ Only /\ Own
  <2>1. v = snapshot[o] /\ attempt' = [attempt EXCEPT ![o] = v] /\ UNCHANGED <<current, previous, units, running, skipped>>
    BY <1>4 DEF Refused, Activates
  <2>2. attempt' \in Versioned /\ attempt'[o] = v /\ \A x \in Overlays : x # o => attempt'[x] = attempt[x]
    BY <1>2, <2>1 DEF HostTypes, Versioned
  <2> QED BY <1>2, <2>1, <2>2 DEF HostTypes
<1>5. ASSUME NEW v \in Versions, Unhealthy(o, v) PROVE Good /\ Only /\ Own
  <2>1. /\ v # 0 /\ v = snapshot[o] /\ attempt' = [attempt EXCEPT ![o] = v]
        /\ running' = Started(o, units', Started(o, [units EXCEPT ![o] = v], running)) /\ skipped' = skipped \ {o}
    BY <1>5 DEF Unhealthy, Activates
  <2>2. attempt' \in Versioned /\ attempt'[o] = v /\ \A x \in Overlays : x # o => attempt'[x] = attempt[x]
    BY <1>2, <2>1 DEF HostTypes, Versioned
  <2>3. /\ units' \in Versioned /\ units'[o] # 0 /\ \A x \in Overlays : x # o => units'[x] = units[x] /\ current'[x] = current[x]
        /\ current' \in Versioned /\ previous' \in Versioned
    BY <1>2, <1>5, <2>1, Constants DEF Unhealthy, HostTypes, Versioned
  <2>4. PICK r : r = Started(o, [units EXCEPT ![o] = v], running)
    OBVIOUS
  <2>5. [units EXCEPT ![o] = v] \in Versioned
    BY <1>2 DEF HostTypes, Versioned
  <2>6. r \in Versioned /\ \A x \in Overlays : running[x] # 0 => r[x] # 0
    <3>1. PICK u : u = [units EXCEPT ![o] = v]
      OBVIOUS
    <3>2. u \in Versioned /\ running \in Versioned /\ r = Started(o, u, running)
      BY <1>2, <2>4, <2>5, <3>1 DEF HostTypes
    <3> QED BY <3>2, StartedRuns
  <2>7. running' \in Versioned /\ running'[o] # 0 /\ \A x \in Overlays : running[x] # 0 => running'[x] # 0
    <3>1. PICK u : u = units'
      OBVIOUS
    <3>2. u \in Versioned /\ u[o] # 0 /\ running' = Started(o, u, r)
      BY <2>1, <2>3, <2>4, <3>1
    <3>3. running' \in Versioned /\ running'[o] # 0 /\ \A x \in Overlays : r[x] # 0 => running'[x] # 0
      BY <2>6, <3>2, StartedRuns
    <3> QED BY <2>6, <3>3
  <2> QED BY <1>2, <2>1, <2>2, <2>3, <2>7 DEF HostTypes
<1>6. ASSUME NEW v \in Versions, RollbackFails(o, v) PROVE Good /\ Only /\ Own
  <2>1. /\ v = snapshot[o] /\ attempt' = [attempt EXCEPT ![o] = v] /\ units' = [units EXCEPT ![o] = v]
        /\ running' = [Started(o, units', running) EXCEPT ![o] = 0] /\ skipped' = skipped \cup {o}
        /\ UNCHANGED <<current, previous>>
    BY <1>6 DEF RollbackFails, Activates
  <2>2. /\ attempt' \in Versioned /\ attempt'[o] = v /\ \A x \in Overlays : x # o => attempt'[x] = attempt[x]
        /\ units' \in Versioned /\ \A x \in Overlays : x # o => units'[x] = units[x]
    BY <1>2, <2>1 DEF HostTypes, Versioned
  <2>3. PICK r : r = Started(o, units', running)
    OBVIOUS
  <2>4. r \in Versioned /\ \A x \in Overlays : running[x] # 0 => r[x] # 0
    BY <1>2, <2>2, <2>3, StartedRuns DEF HostTypes
  <2>5. running' \in Versioned /\ \A x \in Overlays : x # o /\ running[x] # 0 => running'[x] # 0
    BY <2>1, <2>3, <2>4, Constants DEF Versioned
  <2> QED BY <1>2, <2>1, <2>2, <2>5 DEF HostTypes
<1>7. ASSUME SkipsOverlay(o) PROVE Good /\ Only /\ Own
  <2>1. UNCHANGED <<current, previous, attempt, units, running, skipped>> /\ snapshot[o] \in {0, current[o], attempt[o]}
    BY <1>7 DEF SkipsOverlay, hostVars, fileVars
  <2> QED BY <1>2, <2>1 DEF HostTypes
<1>8. Good /\ Only /\ Own
  BY <1>3, <1>4, <1>5, <1>6, <1>7
<1>9. HostTypes'
  BY <1>1, <1>2, <1>8 DEF HostTypes
<1>10. StartedInv'
  BY <1>1, <1>2, <1>8 DEF HostInv, StartedInv, Checking
<1>11. LandedInv'
  BY <1>1, <1>2, <1>8 DEF HostInv, LandedInv, Checking
<1> QED BY <1>1, <1>8, <1>9, <1>10, <1>11 DEF HostInv

LEMMA NextHost == AckedInv /\ HostInv /\ [Next]_vars => HostInv'
<1> SUFFICES ASSUME AckedInv, HostInv, [Next]_vars PROVE HostInv'
  OBVIOUS
<1>1. CASE UNCHANGED <<cfg, hostVars, procVars>>
  <2>1. UNCHANGED <<cfg, current, previous, attempt, units, running, skipped, manager, todo, snapshot>>
    BY <1>1 DEF hostVars, fileVars, procVars
  <2> QED BY <2>1 DEF HostInv, HostTypes, StartedInv, LandedInv
<1>2. ASSUME Check PROVE HostInv'
  BY <1>2, TurnsHost, CheckHost DEF Check
<1>3. ASSUME Boot PROVE HostInv'
  BY <1>3, TurnsHost, BootHost DEF Boot
<1>4. ASSUME Exits PROVE HostInv'
  BY <1>4, TurnsHost
<1>5. ASSUME Leaves \/ \E o \in Overlays : Visits(o) PROVE HostInv'
  <2>1. UNCHANGED <<cfg, hostVars, manager, todo, snapshot>>
    BY <1>5 DEF Leaves, Visits
  <2> QED BY <2>1 DEF hostVars, fileVars, HostInv, HostTypes, StartedInv, LandedInv
<1> QED BY <1>1, <1>2, <1>3, <1>4, <1>5 DEF Next, vars
----------------------------------------------------------------------------
(* The walk.                                                               *)

LEMMA InitWalk == Init => WalkInv
BY DEF Init, WalkInv, After

\* A visit: the path goes on to a dependency of the overlay that is visited.
LEMMA VisitsWalk ==
    ASSUME HostInv, WalkInv, NEW o \in Overlays, Visits(o) PROVE WalkInv'
<1>1. /\ manager # "idle" /\ o \in Calls /\ stack' = Append(stack, o) /\ UNCHANGED <<cfg, manager, order>>
      /\ stack \in Seq(Overlays) /\ order \in Seq(Overlays) /\ cfg.deps \in [Overlays -> SUBSET Overlays]
  BY Constants DEF Visits, WalkInv, HostInv, HostTypes
<1>2. /\ o \notin Range(stack) /\ o \notin Range(order)
      /\ stack # <<>> => o \in cfg.deps[Last(stack)]
  BY <1>1 DEF Calls, Unvisited
<1>3. PICK t : t = stack'
  OBVIOUS
<1>4. /\ t \in Seq(Overlays) /\ Len(stack) \in Nat
      /\ DOMAIN stack = 1 .. Len(stack) /\ DOMAIN t = 1 .. Len(stack) + 1
      /\ t[Len(stack) + 1] = o /\ \A i \in 1 .. Len(stack) : t[i] = stack[i]
  BY <1>1, <1>3, Push
<1>5. /\ \A i \in 1 .. Len(stack) : stack[i] # o
      /\ \A j \in DOMAIN order : order[j] # o
  BY <1>2, <1>4 DEF Range
<1>6. \A i, j \in DOMAIN t : t[i] = t[j] => i = j
  BY <1>4, <1>5 DEF WalkInv
<1>7. \A i \in DOMAIN t, j \in DOMAIN order : t[i] # order[j]
  BY <1>4, <1>5 DEF WalkInv
<1>8. ASSUME NEW i \in 1 .. Len(stack) PROVE o \in Below(cfg.deps, stack[i], Overlays)
  <2>1. stack # <<>> /\ stack[i] \in Overlays /\ Last(stack) = stack[Len(stack)] /\ Len(stack) \in DOMAIN stack
    BY <1>1, <1>4, <1>8, Pop
  <2>2. CASE i = Len(stack)
    BY <1>1, <1>2, <2>1, <2>2, BelowCloses
  <2>3. CASE i < Len(stack)
    <3>1. Last(stack) \in Below(cfg.deps, stack[i], Overlays)
      BY <1>4, <1>8, <2>1, <2>3 DEF WalkInv
    <3> QED BY <1>1, <1>2, <2>1, <3>1, BelowCloses
  <2>4. \A n \in Nat : \A m \in 1 .. n : m = n \/ m < n
    OBVIOUS
  <2>5. Len(stack) \in Nat
    BY <1>4
  <2> QED BY <2>2, <2>3, <2>4, <2>5
<1>9. \A i, j \in DOMAIN t : i < j => t[j] \in Below(cfg.deps, t[i], Overlays)
  <2> SUFFICES ASSUME NEW i \in DOMAIN t, NEW j \in DOMAIN t, i < j PROVE t[j] \in Below(cfg.deps, t[i], Overlays)
    OBVIOUS
  <2>1. i \in 1 .. Len(stack) /\ t[i] = stack[i]
    BY <1>4
  <2>2. CASE j \in 1 .. Len(stack)
    BY <1>4, <2>1, <2>2 DEF WalkInv
  <2>3. CASE j = Len(stack) + 1
    BY <1>4, <1>8, <2>1, <2>3
  <2> QED BY <1>4, <2>2, <2>3
<1>10. \A i \in DOMAIN order : After(i)'
  BY <1>1 DEF WalkInv, After
<1> QED BY <1>1, <1>3, <1>4, <1>6, <1>7, <1>9, <1>10 DEF WalkInv

\* The overlay that is done has its dependencies in the order, or they are on
\* the stack, and the path leads from them to it.
LEMMA LeavesWalk ==
    ASSUME HostInv, WalkInv, Leaves PROVE WalkInv'
<1>1. /\ stack # <<>> /\ Calls = {} /\ UNCHANGED <<cfg, manager>>
      /\ stack' = Front(stack) /\ order' = Append(order, Last(stack))
      /\ stack \in Seq(Overlays) /\ order \in Seq(Overlays) /\ cfg.deps \in [Overlays -> SUBSET Overlays]
      /\ manager # "idle"
  BY Constants DEF Leaves, WalkInv, HostInv, HostTypes
<1>2. PICK o \in Overlays : o = Last(stack)
  BY <1>1, Pop
<1>3. PICK t, n : t = stack' /\ n = Len(stack) - 1
  OBVIOUS
<1>4. /\ n \in Nat /\ DOMAIN stack = 1 .. n + 1 /\ stack[n + 1] = o
      /\ t \in Seq(Overlays) /\ DOMAIN t = 1 .. n /\ \A i \in 1 .. n : t[i] = stack[i]
  BY <1>1, <1>2, <1>3, Pop
<1>5. PICK u, m : u = order' /\ m = Len(order)
  OBVIOUS
<1>6. /\ u \in Seq(Overlays) /\ m \in Nat /\ DOMAIN order = 1 .. m /\ DOMAIN u = 1 .. m + 1
      /\ u[m + 1] = o /\ \A i \in 1 .. m : u[i] = order[i]
  BY <1>1, <1>2, <1>5, Push
<1>7. /\ \A i \in 1 .. n : t[i] # o
      /\ \A j \in 1 .. m : order[j] # o
  <2>1. ASSUME NEW i \in 1 .. n PROVE t[i] # o
    <3>1. i \in DOMAIN stack /\ n + 1 \in DOMAIN stack /\ i # n + 1 /\ t[i] = stack[i]
      BY <1>4
    <3> QED BY <1>4, <3>1 DEF WalkInv
  <2>2. ASSUME NEW j \in 1 .. m PROVE order[j] # o
    <3>1. j \in DOMAIN order /\ n + 1 \in DOMAIN stack
      BY <1>4, <1>6
    <3> QED BY <1>4, <3>1 DEF WalkInv
  <2> QED BY <2>1, <2>2
<1>8. \A i, j \in DOMAIN t : (t[i] = t[j] => i = j) /\ (i < j => t[j] \in Below(cfg.deps, t[i], Overlays))
  BY <1>4 DEF WalkInv
<1>9. \A i, j \in DOMAIN u : u[i] = u[j] => i = j
  BY <1>6, <1>7 DEF WalkInv
<1>10. \A i \in DOMAIN t, j \in DOMAIN u : t[i] # u[j]
  BY <1>4, <1>6, <1>7 DEF WalkInv
<1> DEFINE Placed(i) == \A d \in cfg.deps[u[i]] :
                (\E j \in 1 .. i - 1 : u[j] = d) \/ u[i] \in Below(cfg.deps, d, Overlays)
<1>11. ASSUME NEW i \in 1 .. m PROVE Placed(i)
  <2>1. After(i) /\ u[i] = order[i] /\ \A j \in 1 .. i - 1 : u[j] = order[j]
    BY <1>6 DEF WalkInv
  <2> QED BY <2>1 DEF After
<1>12. ASSUME NEW d \in cfg.deps[o] PROVE (\E j \in 1 .. m : u[j] = d) \/ o \in Below(cfg.deps, d, Overlays)
  <2>1. d \in Overlays /\ d \in Range(stack) \cup Range(order)
    BY <1>1, <1>2, <1>12 DEF Calls, Unvisited
  <2>2. CASE d \in Range(order)
    BY <1>6, <2>2 DEF Range
  <2>3. CASE d \in Range(stack)
    <3>1. PICK k \in 1 .. n + 1 : stack[k] = d
      BY <1>4, <2>3 DEF Range
    <3>2. CASE k = n + 1
      BY <1>1, <1>4, <1>12, <3>1, <3>2, BelowCloses
    <3>3. CASE k < n + 1
      BY <1>4, <3>1, <3>3 DEF WalkInv
    <3> QED BY <1>4, <3>1, <3>2, <3>3
  <2> QED BY <2>1, <2>2, <2>3
<1>13. \A i \in DOMAIN u : Placed(i)
  <2>1. Placed(m + 1)
    BY <1>6, <1>12
  <2> HIDE DEF Placed
  <2> QED BY <1>6, <1>11, <2>1
<1>14. \A i \in DOMAIN order' : After(i)'
  BY <1>1, <1>5, <1>13 DEF After
<1> QED BY <1>1, <1>3, <1>4, <1>5, <1>6, <1>8, <1>9, <1>10, <1>14 DEF WalkInv

\* Any other step leaves the walk alone or starts a new one.
LEMMA OthersWalk ==
    ASSUME WalkInv, (RegistryNext /\ UNCHANGED <<cfg, hostVars, procVars>>) \/ Check \/ Boot \/ Exits \/ UNCHANGED vars
    PROVE  WalkInv'
<1>1. ASSUME UNCHANGED <<cfg, stack, order>>, manager' = "idle" => manager = "idle" PROVE WalkInv'
  BY <1>1 DEF WalkInv, After
<1>2. ASSUME stack' = <<>>, order' = <<>> PROVE WalkInv'
  BY <1>2 DEF WalkInv, After
<1>3. CASE (RegistryNext /\ UNCHANGED <<cfg, hostVars, procVars>>) \/ UNCHANGED vars
  BY <1>1, <1>3 DEF procVars, vars
<1>4. CASE Check
  <2>1. CASE \E kind \in {"check", "refresh"}, W \in SUBSET Overlays : CheckStarts(kind, W)
    BY <1>2, <2>1 DEF CheckStarts
  <2>2. CASE \E o \in Overlays : SkipsOverlay(o)
    BY <1>1, <2>2 DEF SkipsOverlay
  <2>3. CASE \E o \in Overlays, v \in Versions : Activates(o, v)
    BY <1>1, <2>3 DEF Activates
  <2> QED BY <1>4, <2>1, <2>2, <2>3 DEF Check, Commits, Refused, Unhealthy, RollbackFails
<1>5. CASE Boot
  <2>1. CASE Reboot
    BY <1>2, <2>1 DEF Reboot
  <2>2. CASE BootReloads
    BY <1>1, <2>2 DEF BootReloads
  <2>3. CASE \E o \in Overlays : BootSkips(o) \/ Regenerates(o) \/ BootStarts(o)
    BY <1>1, <2>3 DEF BootSkips, Regenerates, BootStarts, Booting
  <2> QED BY <1>5, <2>1, <2>2, <2>3 DEF Boot
<1>6. CASE Exits
  BY <1>2, <1>6 DEF Exits, Ordered
<1> QED BY <1>3, <1>4, <1>5, <1>6

LEMMA NextWalk == HostInv /\ WalkInv /\ [Next]_vars => WalkInv'
BY VisitsWalk, LeavesWalk, OthersWalk DEF Next

LEMMA Inductive == Spec => []IInv
<1>1. Init => IInv
  BY InitRegistry, InitHost, InitWalk DEF IInv, HostInv
<1>2. IInv /\ [Next]_vars => IInv'
  BY NextRegistry, NextHost, NextWalk DEF IInv, HostInv
<1> QED BY <1>1, <1>2, PTL DEF Spec

\* While no manager runs, an enabled overlay with a committed version is
\* stopped only if a step of its own failed, for any dependencies, failures of
\* others, reboots in the middle of a check and whatever order is computed
\* (cmdBoot and cmdCheck go on to the next overlay after an error).
THEOREM FailuresIsolated == Spec => []FailureIsolated
<1>1. IInv => FailureIsolated
  BY DEF IInv, StartedInv, FailureIsolated
<1> QED BY <1>1, Inductive, PTL

\* orderedOverlays, for any dependencies between any number of overlays: each
\* is in the order once, after each of its dependencies that does not depend on
\* it, and the loops start with an order that has them all.
THEOREM OrderSound == Spec => []OrderIsSound
<1>1. IInv => OrderIsSound
  <2> SUFFICES ASSUME IInv PROVE OrderIsSound
    OBVIOUS
  <2>1. /\ \A i, j \in DOMAIN order : order[i] = order[j] => i = j
        /\ \A i \in DOMAIN order : After(i)
        /\ order \in Seq(Overlays)
    BY DEF IInv, WalkInv
  <2>2. Ordered => Range(order) = Overlays
    BY <2>1 DEF Ordered, Unvisited, Range
  <2> QED BY <2>1, <2>2 DEF OrderIsSound, After
<1> QED BY <1>1, Inductive, PTL

\* A check of all overlays touches an overlay only after each dependency that
\* no cycle leads back from is at the registry's version or has been tried at
\* it, through any failures and concurrent publications (cmdCheck goes through
\* what orderedOverlays returns).
THEOREM DependenciesFirst == Spec => DependencyLandsFirst
<1> DEFINE Landed ==
        \A o \in Overlays : manager = "check" /\ units'[o] \notin {0, units[o]} =>
           \A d \in cfg.deps[o] \cap cfg.enabled :
              o \in Below(cfg.deps, d, Overlays) \/ snapshot[d] \in {0, current[d], attempt[d]}
<1>1. IInv /\ [Next]_vars => [Landed]_vars
  <2> SUFFICES ASSUME IInv, Next,
                      NEW o \in Overlays, manager = "check", units'[o] \notin {0, units[o]},
                      NEW d \in cfg.deps[o] \cap cfg.enabled, d \in todo
               PROVE  o \in Below(cfg.deps, d, Overlays)
    BY DEF IInv, LandedInv
  <2>1. \E x \in Overlays :
          SkipsOverlay(x) \/ \E v \in Versions : Commits(x, v) \/ Refused(x, v) \/ Unhealthy(x, v) \/ RollbackFails(x, v)
    <3>1. ~UNCHANGED units /\ manager # "boot" /\ manager # "idle"
      OBVIOUS
    <3>2. \A x \in Overlays : units'[x] # 0 \/ x # o
      OBVIOUS
    <3> QED BY <3>1, <3>2 DEF Next, Check, Boot, Exits, CheckStarts, BootReloads, BootStarts, BootSkips, Booting, Regenerates,
                          Reboot, Visits, Leaves, hostVars
  <2>2. IsNext(o)
    BY <2>1, CheckHost DEF IInv, HostInv
  <2>3. PICK i \in 1 .. Len(order) : order[i] = o /\ \A j \in 1 .. i - 1 : order[j] \notin todo
    BY <2>2 DEF IsNext
  <2>4. After(i)
    BY <2>3 DEF IInv, WalkInv
  <2> QED BY <2>3, <2>4 DEF After
<1> QED BY <1>1, Inductive, PTL DEF Spec, DependencyLandsFirst

\* The type invariant: what is written to a state file is a version, and a
\* process starts with no order of its own.
THEOREM TypeCorrect == Spec => []TypeOK
<1>1. IInv => TypeOK
  BY DEF IInv, TypeOK, AckedInv, HostTypes, WalkInv, Versioned
<1> QED BY <1>1, Inductive, PTL
=============================================================================
