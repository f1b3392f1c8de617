---------------------------- MODULE OverlayHost ----------------------------
(***************************************************************************)
(* The overlays of ONE host together (pkgs/fort-overlay-manager/main.go):  *)
(* the order in which `check` and `boot` go through them, composed with    *)
(* the registry they are published in.                                     *)
(*                                                                         *)
(* OverlayManager has every step of one overlay's activation; here an      *)
(* activation is one step with one of its outcomes, and one manager runs   *)
(* at a time. An overlay is the place of its name in the sorted list of    *)
(* names. A version is a store path; 0 stands for none.                    *)
(***************************************************************************)
EXTENDS OverlayRegistry, SequencesExt

CONSTANTS
    N,          \* the number of overlays in /etc/fort/overlays.json
    Configs     \* the configurations to consider: dependsOn and enabled

Overlays == 1 .. N
Kinds == {"save", "restart", "refused", "unhealthy", "evalfail", "reboot", "bootfail"}

ASSUME HostAssumption ==
    /\ N \in Nat \ {0}         \* a host without overlays has no manager
    /\ Packages = Overlays      \* each overlay is its own package
    /\ Configs \subseteq [deps : [Overlays -> SUBSET Overlays], enabled : SUBSET Overlays]
    /\ Disturbances \subseteq Kinds

VARIABLES
    cfg,        \* the configuration
    current, previous, attempt,     \* version in current.json, previous.json, last-attempt.json
    units,      \* units[o]: version of o's unit files, which systemd has loaded
    running,    \* running[o]: version whose services run
    manager,    \* what the manager process does
    stack,      \* the overlays it is visiting, each for the one before it
    order,      \* the overlays in the order it goes through them
    todo,       \* those it has yet to handle
    snapshot,   \* the registry's entries as the check has fetched them
    skipped     \* overlays one of whose own steps failed and left them stopped

fileVars == <<current, previous, attempt>>
hostVars == <<fileVars, units, running, skipped>>
procVars == <<manager, stack, order, todo, snapshot>>
vars == <<registryVars, disturbed, cfg, hostVars, procVars>>

(***************************************************************************)
(* orderedOverlays: depth first, dependencies before their dependents. An  *)
(* overlay on the stack is being visited (state 1 in the code), one in the *)
(* order is done (2), any other is unvisited (0).                          *)
(***************************************************************************)

Unvisited == Overlays \ (Range(stack) \cup Range(order))

\* visit has returned for every name.
Ordered == stack = <<>> /\ Unvisited = {}

\* What visit is called for next: the names, or the dependencies of the overlay
\* that is being visited, in the order of their names. A call for one that is
\* visited already returns at once, which cuts a cycle where it comes back.
Calls == (IF stack = <<>> THEN Overlays ELSE cfg.deps[Last(stack)]) \cap Unvisited

Visits(o) ==
    /\ manager # "idle"
    /\ o \in Calls /\ \A x \in Calls : o <= x
    /\ stack' = Append(stack, o)
    /\ UNCHANGED <<registryVars, disturbed, cfg, hostVars, manager, order, todo, snapshot>>

\* Mutant: an overlay is appended before its dependencies are visited.
LeavesEarly ==
    /\ stack # <<>>
    /\ stack' = Front(stack) /\ order' = Append(order, Last(stack))
    /\ UNCHANGED <<registryVars, disturbed, cfg, hostVars, manager, todo, snapshot>>

\* The last dependency's visit has returned.
Leaves ==
    /\ stack # <<>> /\ Calls = {}
    /\ stack' = Front(stack) /\ order' = Append(order, Last(stack))
    /\ UNCHANGED <<registryVars, disturbed, cfg, hostVars, manager, todo, snapshot>>

(***************************************************************************)
(* systemd.                                                                *)
(***************************************************************************)

\* The overlays that o depends on, through any number of others; `via` are
\* those that pass a dependency on.
Below(deps, o, via) ==
    {d \in Overlays : \A S \in SUBSET Overlays :
        /\ deps[o] \subseteq S
        /\ \A x \in S \cap via : deps[x] \subseteq S
        => d \in S}

Loaded(u) == {o \in Overlays : u[o] # 0}

\* systemctl start of o's target with the units u, where r runs: Wants= pulls
\* in the targets of the dependencies that have units.
Started(o, u, r) ==
    IF u[o] = 0 THEN r
    ELSE [x \in Overlays |->
            IF x = o \/ (x \in Below(cfg.deps, o, Loaded(u)) /\ r[x] = 0) THEN u[x] ELSE r[x]]

(***************************************************************************)
(* check                                                                   *)
(***************************************************************************)

\* The overlays a command goes through, those of the order that it wants and
\* that are enabled.
Plan(wanted) == wanted \cap cfg.enabled

\* Mutant: the overlays are taken in the order of their names.
IsNextByName(o) == Ordered /\ o \in todo /\ \A x \in todo : o <= x

\* The loops go through the order from its front.
IsNext(o) ==
    /\ o \in todo /\ Ordered
    /\ \E i \in 1 .. Len(order) : order[i] = o /\ \A j \in 1 .. i - 1 : order[j] \notin todo

\* cmdCheck: the timer's for all overlays, or a refresh's for one.
CheckStarts(kind, wanted) ==
    /\ manager = "idle" /\ Readable
    /\ manager' = kind
    /\ snapshot' = entries
    /\ stack' = <<>> /\ order' = <<>>
    /\ todo' = Plan(wanted)
    /\ UNCHANGED <<registryVars, disturbed, cfg, hostVars>>

Checking == manager \in {"check", "refresh"}

\* Not in the registry, or up to date; a version that failed before is skipped
\* while its backoff lasts.
SkipsOverlay(o) ==
    /\ Checking /\ IsNext(o)
    /\ snapshot[o] \in {0, current[o], attempt[o]}
    /\ todo' = todo \ {o}
    /\ UNCHANGED <<registryVars, disturbed, cfg, hostVars, manager, stack, order, snapshot>>

\* cmdActivate of the overlay that is next, at the registry's version.
Activates(o, v) ==
    /\ Checking /\ v = snapshot[o] /\ v \notin {0, current[o]} /\ IsNext(o)
    /\ todo' = todo \ {o}
    /\ UNCHANGED <<registryVars, cfg, manager, stack, order, snapshot>>

\* The new version passes its health checks and is committed.
Commits(o, v) ==
    /\ Activates(o, v)
    /\ previous' = IF current[o] = 0 THEN previous ELSE [previous EXCEPT ![o] = current[o]]
    /\ current' = [current EXCEPT ![o] = v]
    /\ attempt' = [attempt EXCEPT ![o] = 0]
    /\ units' = [units EXCEPT ![o] = v]
    /\ running' = Started(o, units', running)
    /\ skipped' = skipped \ {o}
    /\ UNCHANGED disturbed

\* It cannot be fetched or evaluated: what runs is not touched.
Refused(o, v) ==
    /\ Activates(o, v)
    /\ Disturb("refused")
    /\ attempt' = [attempt EXCEPT ![o] = v]
    /\ UNCHANGED <<current, previous, units, running, skipped>>

\* It fails its health checks: back to the previous version, if there is one.
Unhealthy(o, v) ==
    /\ Activates(o, v)
    /\ Disturb("unhealthy")
    /\ attempt' = [attempt EXCEPT ![o] = v]
    /\ IF previous[o] = 0
       THEN /\ units' = [units EXCEPT ![o] = v]
            /\ UNCHANGED <<current, previous>>
       ELSE /\ units' = [units EXCEPT ![o] = previous[o]]
            /\ current' = [current EXCEPT ![o] = previous[o]]
            /\ previous' = [previous EXCEPT ![o] = 0]
    /\ running' = Started(o, units', Started(o, [units EXCEPT ![o] = v], running))
    /\ skipped' = skipped \ {o}

\* It fails, and the previous version cannot be evaluated: nothing of the
\* overlay is left running.
RollbackFails(o, v) ==
    /\ Activates(o, v) /\ previous[o] # 0
    /\ Disturb("evalfail")
    /\ attempt' = [attempt EXCEPT ![o] = v]
    /\ units' = [units EXCEPT ![o] = v]
    /\ running' = [Started(o, units', running) EXCEPT ![o] = 0]
    /\ skipped' = skipped \cup {o}
    /\ UNCHANGED <<current, previous>>

(***************************************************************************)
(* boot                                                                    *)
(***************************************************************************)

\* The host goes down, whatever the manager is at; /run is empty afterwards,
\* and the boot service runs before any check.
Reboot ==
    /\ Disturb("reboot")
    /\ units' = [o \in Overlays |-> 0]
    /\ running' = [o \in Overlays |-> 0]
    /\ skipped' = {}
    /\ manager' = "boot"
    /\ stack' = <<>> /\ order' = <<>>
    /\ todo' = Plan(Overlays)
    /\ snapshot' = [p \in Packages |-> 0]
    /\ UNCHANGED <<registryVars, cfg, fileVars>>

Booting(o) ==
    /\ manager = "boot" /\ IsNext(o)
    /\ todo' = todo \ {o}
    /\ UNCHANGED <<registryVars, cfg, running, current, previous, manager, stack, order, snapshot>>

\* Mutant: the loop ends at the first failure.
BootStops(o) ==
    /\ manager = "boot" /\ IsNext(o) /\ current[o] # 0
    /\ Disturb("bootfail")
    /\ todo' = {}
    /\ skipped' = skipped \cup {o}
    /\ UNCHANGED <<registryVars, cfg, running, current, previous, manager, stack, order, snapshot, attempt, units>>

\* The store path is missing, cannot be evaluated or its units cannot be
\* written: the boot goes on with the next overlay.
BootSkips(o) ==
    /\ Booting(o) /\ current[o] # 0
    /\ Disturb("bootfail")
    /\ skipped' = skipped \cup {o}
    /\ UNCHANGED <<attempt, units>>

\* The units of the committed version are written again; without one, the
\* backoff of a failed attempt is dropped (resetStaleBackoffOnBoot).
Regenerates(o) ==
    /\ Booting(o)
    /\ IF current[o] = 0
       THEN attempt' = [attempt EXCEPT ![o] = 0] /\ UNCHANGED units
       ELSE units' = [units EXCEPT ![o] = current[o]] /\ UNCHANGED attempt
    /\ UNCHANGED <<disturbed, skipped>>

\* daemonReload; the second loop starts the targets in the same order.
BootReloads ==
    /\ manager = "boot" /\ Ordered /\ todo = {}
    /\ manager' = "start"
    /\ todo' = Plan({o \in Overlays : current[o] # 0})
    /\ UNCHANGED <<registryVars, disturbed, cfg, hostVars, stack, order, snapshot>>

BootStarts(o) ==
    /\ manager = "start" /\ IsNext(o)
    /\ running' = Started(o, units, running)
    /\ todo' = todo \ {o}
    /\ UNCHANGED <<registryVars, disturbed, cfg, fileVars, units, skipped, manager, stack, order, snapshot>>

\* Mutant: the order outlives the process.
ExitsKeepingOrder ==
    /\ manager \in {"check", "refresh", "start"} /\ Ordered /\ todo = {}
    /\ manager' = "idle" /\ order' = order
    /\ snapshot' = [p \in Packages |-> 0]
    /\ UNCHANGED <<registryVars, disturbed, cfg, hostVars, stack, todo>>

\* The process is done.
Exits ==
    /\ manager \in {"check", "refresh", "start"} /\ Ordered /\ todo = {}
    /\ manager' = "idle" /\ order' = <<>>
    /\ snapshot' = [p \in Packages |-> 0]
    /\ UNCHANGED <<registryVars, disturbed, cfg, hostVars, stack, todo>>

(***************************************************************************)
(* The specification.                                                      *)
(***************************************************************************)

\* A host in use: what was published is installed and runs, anything else is
\* new.
Init ==
    /\ RegistryInit
    /\ cfg \in Configs
    /\ current = [o \in Overlays |-> IF o \in Known \cap cfg.enabled THEN 2 ELSE 0]
    /\ previous = [o \in Overlays |-> IF o \in Known \cap cfg.enabled THEN 1 ELSE 0]
    /\ attempt = [o \in Overlays |-> 0]
    /\ units = current /\ running = current
    /\ manager = "idle" /\ stack = <<>> /\ order = <<>> /\ todo = {}
    /\ snapshot = [p \in Packages |-> 0]
    /\ skipped = {}

Check ==
    \/ CheckStarts("check", Overlays) \/ (\E o \in Overlays : CheckStarts("refresh", {o}))
    \/ \E o \in Overlays : SkipsOverlay(o)
    \/ \E o \in Overlays, v \in Versions :
         Commits(o, v) \/ Refused(o, v) \/ Unhealthy(o, v) \/ RollbackFails(o, v)

Boot ==
    \/ Reboot
    \/ \E o \in Overlays : BootSkips(o) \/ Regenerates(o) \/ BootStarts(o)
    \/ BootReloads

Next ==
    \/ RegistryNext /\ UNCHANGED <<cfg, hostVars, procVars>>
    \/ (\E o \in Overlays : Visits(o)) \/ Leaves
    \/ Check \/ Boot \/ Exits

Spec == Init /\ [][Next]_vars

(***************************************************************************)
(* Properties.                                                             *)
(***************************************************************************)

\* The type invariant: an order is a process's own, and is made anew by the next.
TypeOK ==
    /\ RegistryTypeOK
    /\ cfg \in Configs
    /\ {current, previous, attempt, units, running} \subseteq [Overlays -> Versions]
    /\ snapshot \in [Packages -> Versions]
    /\ manager \in {"idle", "check", "refresh", "boot", "start"}
    /\ {stack, order} \subseteq Seq(Overlays) /\ (manager = "idle" => stack = <<>> /\ order = <<>>)
    /\ todo \subseteq Overlays /\ skipped \subseteq Overlays

\* orderedOverlays against its description ("declared dependencies before
\* their dependents", main.go:159): whatever the dependencies, an overlay gets
\* into the order once, and after each of its dependencies unless a cycle leads
\* from the dependency back to it; none is missing when the loops start.
OrderIsSound ==
    /\ \A i, j \in DOMAIN order : order[i] = order[j] => i = j
    /\ \A i \in DOMAIN order : \A d \in cfg.deps[order[i]] :
         (\E j \in 1 .. i - 1 : order[j] = d) \/ order[i] \in Below(cfg.deps, d, Overlays)
    /\ Ordered => Range(order) = Overlays

\* "a new version of a dependency lands before its dependents are
\* (re)activated in the same check cycle" (main.go:207): when a check of all
\* overlays touches one, each enabled dependency is already at the version the
\* check has read from the registry, or that version has been tried.
DependencyLandsFirst ==
    [][\A o \in Overlays : manager = "check" /\ units'[o] \notin {0, units[o]} =>
         \A d \in cfg.deps[o] \cap cfg.enabled :
            o \in Below(cfg.deps, d, Overlays) \/ snapshot[d] \in {0, current[d], attempt[d]}]_vars

\* A failure is its own overlay's alone: while no manager runs, an enabled
\* overlay with a committed version is stopped only if one of its own steps
\* failed, never because a step of a dependency or of another overlay did.
FailureIsolated ==
    manager = "idle" =>
        \A o \in cfg.enabled \ skipped : current[o] # 0 => running[o] # 0
=============================================================================
