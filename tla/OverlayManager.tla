--------------------------- MODULE OverlayManager ---------------------------
(***************************************************************************)
(* The overlay manager (pkgs/fort-overlay-manager/main.go) for ONE overlay *)
(* of one host.                                                            *)
(*                                                                         *)
(* A manager is a short-lived process: `check` is run by a timer (Timer)   *)
(* and, in the background and without regard to other runs, by every       *)
(* `refresh` request (common/fort/overlays.nix:143); an operator runs      *)
(* `activate` and `rollback`; `boot` runs once after a reboot. They share, *)
(* with no lock, the overlay's directory under /var/lib (current.json,     *)
(* previous.json, last-attempt.json, state, the two gc roots), the unit    *)
(* files under /run and systemd.                                           *)
(*                                                                         *)
(* A version is a store path. Its services run, or do not; what a health   *)
(* check sees is what runs, whoever started it. Wall-clock time is counted *)
(* in poll intervals.                                                      *)
(***************************************************************************)
EXTENDS Naturals

CONSTANTS
    Versions,       \* store paths of the overlay's package
    Healthy,        \* the versions whose health checks pass
    Unprobed,       \* the versions whose manifest has no health check
    FirstVersion,   \* what the registry advertises at first
    Managers,       \* manager processes at once
    Timer,          \* the one the timer starts
    None,           \* no version
    NoFile, Torn,   \* current.json is missing; is truncated
    Ceiling,        \* maxRetryBackoff, in poll intervals
    MaxAttempts,    \* attempts after which the delay no longer grows
    Disturbances,   \* which kinds of disturbance may happen
    MaxDisturb      \* bound: how many of them in a behaviour

Kinds == {"publish", "revert", "activate", "rollback", "failure", "flaky", "reboot", "bootfail", "nixgc",
          "rootfail"}

\* backoffRemaining's loop: double from the poll interval while below the
\* ceiling.
Doubled[n \in Nat] ==
    IF n <= 1 THEN 1
    ELSE IF Doubled[n - 1] < Ceiling THEN 2 * Doubled[n - 1] ELSE Doubled[n - 1]

Delay(attempts) == IF Doubled[attempts] \in 1 .. Ceiling THEN Doubled[attempts] ELSE Ceiling

ASSUME ConstantsAssumption ==
    /\ Healthy \subseteq Versions /\ Unprobed \subseteq Versions /\ Healthy \cap Unprobed = {}
    /\ FirstVersion \in Versions
    /\ Timer \in Managers
    /\ {None, NoFile, Torn} \cap Versions = {} /\ NoFile # Torn
    /\ Ceiling \in Nat \ {0} /\ MaxAttempts \in Nat \ {0} /\ MaxDisturb \in Nat
    /\ Disturbances \subseteq Kinds

\* The delay has reached its ceiling when the count of attempts stops here.
ASSUME SaturationAssumption == Delay(MaxAttempts) = Ceiling

Files == Versions \cup {NoFile, Torn}
Maybe == Versions \cup {None}

\* loadStateFile: a missing file and one that does not parse are both nil.
LoadStateFile(f) == IF f \in Versions THEN f ELSE None

NoAttempt == [path |-> None, state |-> "none", attempts |-> 0]

VARIABLES
    registry,   \* the version the registry advertises
    published,  \* the versions it has advertised
    \* the overlay's directory, on persistent storage
    current, previous,      \* current.json, previous.json
    state,                  \* the file `state`
    attempt,                \* last-attempt.json
    rootCur, rootPrev,      \* gc-root-current, gc-root-previous
    \* the host
    store,      \* versions in the nix store
    refused,    \* versions for which nix has refused to register a gc root
    units,      \* version of the unit files in /run/systemd/system
    loaded,     \* version of the units systemd has loaded
    running,    \* version whose services run
    host,       \* "up" or "boot": the boot service has not finished
    \* the manager processes
    pc,         \* where each one is
    want,       \* the store path it activates; the failed one in a rollback
    back,       \* the version it rolls back to, or whose gc root it moves
    wait,       \* intervals until the recorded attempt may be repeated
    disturbed

dirVars  == <<current, previous, state, attempt, rootCur, rootPrev, refused, wait>>
hostVars == <<store, units, loaded, running, host>>
procVars == <<pc, want, back>>
vars == <<registry, published, dirVars, hostVars, procVars, disturbed>>

Disturb(kind) ==
    /\ kind \in Disturbances
    /\ disturbed < MaxDisturb
    /\ disturbed' = disturbed + 1

Goto(m, label) == pc' = [pc EXCEPT ![m] = label]

(***************************************************************************)
(* Starting: check, activate, rollback.                                    *)
(***************************************************************************)

\* cmdCheck fetches the registry. The timer's unit is ordered after the boot
\* unit, a refresh is not.
Check(m) ==
    /\ pc[m] = "idle"
    /\ m = Timer => host = "up"
    /\ want' = [want EXCEPT ![m] = registry]
    /\ Goto(m, "decide")
    /\ UNCHANGED <<registry, published, dirVars, hostVars, back, disturbed>>

UpToDate(v) == LoadStateFile(current) = v /\ v \in store

\* Mutant: the backoff is never over.
BackingOffForGood(v) == attempt.path = v

\* A store path that failed is not tried again until its backoff has passed.
BackingOff(v) == attempt.path = v /\ wait > 0

\* Mutant: what it rolled back to is kept.
ExitKeepsBack(m) ==
    /\ Goto(m, "idle")
    /\ want' = [want EXCEPT ![m] = None]
    /\ back' = back

\* The process is done.
Exit(m) ==
    /\ Goto(m, "idle")
    /\ want' = [want EXCEPT ![m] = None]
    /\ back' = [back EXCEPT ![m] = None]

\* The check decides from current.json and last-attempt.json; cmdActivate
\* starts with the state "fetching".
Decide(m) ==
    /\ pc[m] = "decide"
    /\ IF UpToDate(want[m]) \/ BackingOff(want[m])
       THEN Exit(m) /\ UNCHANGED state
       ELSE Goto(m, "fetch") /\ state' = "fetching" /\ UNCHANGED <<want, back>>
    /\ UNCHANGED <<registry, published, current, previous, attempt, rootCur, rootPrev, refused, wait, hostVars, disturbed>>

\* An operator's `activate` ignores the backoff.
Activate(m, v) ==
    /\ pc[m] = "idle" /\ host = "up"
    /\ Disturb("activate")
    /\ want' = [want EXCEPT ![m] = v]
    /\ state' = "fetching"
    /\ Goto(m, "fetch")
    /\ UNCHANGED <<registry, published, current, previous, attempt, rootCur, rootPrev, refused, wait, hostVars, back>>

\* An operator's `rollback`: there is no failed path to record.
OperatorRollback(m) ==
    /\ pc[m] = "idle" /\ host = "up"
    /\ Disturb("rollback")
    /\ Goto(m, "rollback")
    /\ UNCHANGED <<registry, published, dirVars, hostVars, want, back>>

(***************************************************************************)
(* The activation state machine (cmdActivate).                             *)
(***************************************************************************)

\* recordAttempt: a repeated path counts up, another one starts at 1.
RecordAttempt(v, how) ==
    LET n == IF attempt.path # v THEN 1
             ELSE IF attempt.attempts < MaxAttempts THEN attempt.attempts + 1 ELSE MaxAttempts
    IN  /\ attempt' = [path |-> v, state |-> how, attempts |-> n]
        /\ wait' = Delay(n)

\* failActivation.
FailActivation(m) ==
    /\ RecordAttempt(want[m], "failed")
    /\ state' = "failed"
    /\ Exit(m)
    /\ UNCHANGED <<current, previous, rootCur, rootPrev, refused>>

\* FETCHING: realiseStorePath.
Fetch(m) ==
    /\ pc[m] = "fetch"
    /\ store' = store \cup {want[m]}
    /\ state' = "validating"
    /\ Goto(m, "eval")
    /\ UNCHANGED <<registry, published, current, previous, attempt, rootCur, rootPrev, refused, wait,
                   units, loaded, running, host, want, back, disturbed>>

\* evalOverlay: nix evaluates the version's overlay.nix if its store path is
\* there; what fails beyond that is a disturbance.
Evaluates(v) == v \in store

\* generateUnits: the target and the services of the version, under /run.
GenerateUnits(v) == units' = v

\* VALIDATING and PROVISIONING: overlay.nix is evaluated, the units written.
\* A store path that is gone again fails here.
Provision(m) ==
    /\ pc[m] = "eval"
    /\ IF Evaluates(want[m])
       THEN /\ GenerateUnits(want[m])
            /\ state' = "provisioning"
            /\ Goto(m, "reload")
            /\ UNCHANGED <<current, previous, attempt, rootCur, rootPrev, refused, wait, want, back>>
       ELSE FailActivation(m) /\ UNCHANGED units
    /\ UNCHANGED <<registry, published, store, loaded, running, host, disturbed>>

\* A fetch, an evaluation, a write or a reload fails.
StepFails(m) ==
    /\ pc[m] \in {"fetch", "eval", "reload"}
    /\ Disturb("failure")
    /\ FailActivation(m)
    /\ UNCHANGED <<registry, published, hostVars>>

\* daemonReload, in an activation or a rollback.
Reload(m, at, next) ==
    /\ pc[m] = at
    /\ loaded' = units
    /\ Goto(m, next)
    /\ UNCHANGED <<registry, published, dirVars, store, units, running, host, want, back, disturbed>>

\* stopServices.
Stop(m) ==
    /\ pc[m] = "stop"
    /\ running' = None
    /\ Goto(m, "start")
    /\ UNCHANGED <<registry, published, dirVars, store, units, loaded, host, want, back, disturbed>>

\* What runs after `systemctl start`: a target that is already up is left
\* alone, and a service whose store path is gone does not run.
Started == IF running # None THEN running ELSE IF loaded \in store THEN loaded ELSE None

Start(m) ==
    /\ pc[m] = "start"
    /\ running' = Started
    /\ state' = "provisional"
    /\ Goto(m, "health")
    /\ UNCHANGED <<registry, published, current, previous, attempt, rootCur, rootPrev, refused, wait,
                   store, units, loaded, host, want, back, disturbed>>

StartFails(m) ==
    /\ pc[m] = "start"
    /\ Disturb("failure")
    /\ state' = "rolling-back"
    /\ Goto(m, "rollback")
    /\ UNCHANGED <<registry, published, current, previous, attempt, rootCur, rootPrev, refused, wait, hostVars, want, back>>

\* runHealthChecks probes an endpoint: what answers is what runs.
HealthChecksPass == running \in Healthy

\* Mutant: the verdict of the health checks is not looked at.
HealthIgnored(m) ==
    /\ pc[m] = "health"
    /\ state' = "permanent" /\ Goto(m, "rotate")
    /\ UNCHANGED <<registry, published, current, previous, attempt, rootCur, rootPrev, refused, wait,
                   hostVars, want, back, disturbed>>

\* PROVISIONAL: the checks stabilise, or a flaky check spoils them; a version
\* whose manifest has none is committed as it is.
Health(m) ==
    /\ pc[m] = "health"
    /\ \/ /\ want[m] \in Unprobed \/ HealthChecksPass
          /\ state' = "permanent" /\ Goto(m, "rotate")
          /\ UNCHANGED disturbed
       \/ /\ want[m] \notin Unprobed
          /\ IF HealthChecksPass THEN Disturb("flaky") ELSE UNCHANGED disturbed
          /\ state' = "rolling-back" /\ Goto(m, "rollback")
    /\ UNCHANGED <<registry, published, current, previous, attempt, rootCur, rootPrev, refused, wait,
                   hostVars, want, back>>

(***************************************************************************)
(* The commit. A state file is written by os.WriteFile, which truncates it *)
(* first; a gc root is a link that is removed, then registered with nix.   *)
(* Where nix refuses, a plain link stands in: it names the store path and  *)
(* keeps nothing.                                                          *)
(***************************************************************************)

Refused(v) == Disturb("rootfail") /\ refused' = refused \cup {v} /\ UNCHANGED store

\* nix-store --realise --add-root: it fetches a store path that is gone.
Registers(v) ==
    \/ store' = store \cup {v} /\ UNCHANGED <<refused, disturbed>>
    \/ Refused(v)

\* rotatePrevious: previous.json becomes a copy of current.json, if there is one.
RotateTruncates(m) ==
    /\ pc[m] = "rotate"
    /\ IF current = NoFile
       THEN Goto(m, "save") /\ UNCHANGED previous
       ELSE Goto(m, "rotating") /\ previous' = Torn
    /\ UNCHANGED <<registry, published, current, state, attempt, rootCur, rootPrev, refused, wait, hostVars, want, back, disturbed>>

RotateWrites(m) ==
    /\ pc[m] = "rotating"
    /\ previous' = current
    /\ back' = [back EXCEPT ![m] = rootCur]
    /\ Goto(m, IF rootCur = None THEN "save" ELSE "unprev")
    /\ UNCHANGED <<registry, published, current, state, attempt, rootCur, rootPrev, refused, wait, hostVars, want, disturbed>>

\* The gc root of the previous version moves to what the current one's names.
RotateUnroots(m) ==
    /\ pc[m] = "unprev"
    /\ rootPrev' = None
    /\ Goto(m, "prev")
    /\ UNCHANGED <<registry, published, current, previous, state, attempt, rootCur, refused, wait, hostVars, want, back, disturbed>>

\* Mutant: it is not registered again.
RotateRootsNothing(m) ==
    /\ pc[m] = "prev"
    /\ back' = [back EXCEPT ![m] = None]
    /\ Goto(m, "save")
    /\ UNCHANGED <<registry, published, dirVars, hostVars, want, disturbed>>

RotateRoots(m) ==
    /\ pc[m] = "prev"
    /\ rootPrev' = back[m]
    /\ Registers(back[m])
    /\ back' = [back EXCEPT ![m] = None]
    /\ Goto(m, "save")
    /\ UNCHANGED <<registry, published, current, previous, state, attempt, rootCur, wait,
                   units, loaded, running, host, want>>

\* saveCurrentState.
Truncate(m, at, next) ==
    /\ pc[m] = at
    /\ current' = Torn
    /\ Goto(m, next)
    /\ UNCHANGED <<registry, published, previous, state, attempt, rootCur, rootPrev, refused, wait, hostVars, want, back, disturbed>>

Write(m, at, v, next) ==
    /\ pc[m] = at
    /\ current' = v
    /\ Goto(m, next)
    /\ UNCHANGED <<registry, published, previous, state, attempt, rootCur, rootPrev, refused, wait, hostVars, want, back, disturbed>>

\* updateGCRoot.
Unroot(m, at, next) ==
    /\ pc[m] = at
    /\ rootCur' = None
    /\ Goto(m, next)
    /\ UNCHANGED <<registry, published, current, previous, state, attempt, rootPrev, refused, wait, hostVars, want, back, disturbed>>

Root(m, at, v, next) ==
    /\ pc[m] = at
    /\ rootCur' = v
    /\ Registers(v)
    /\ Goto(m, next)
    /\ UNCHANGED <<registry, published, current, previous, state, attempt, rootPrev, wait,
                   units, loaded, running, host, want, back>>

\* PERMANENT: clearAttempt ends the activation.
Committed(m) ==
    /\ pc[m] = "clear"
    /\ attempt' = NoAttempt /\ wait' = 0
    /\ Exit(m)
    /\ UNCHANGED <<registry, published, current, previous, state, rootCur, rootPrev, refused, hostVars, disturbed>>

(***************************************************************************)
(* Rolling back (rollbackOverlay).                                         *)
(***************************************************************************)

\* A rollback that is not possible: the failed path, if there is one, is
\* recorded, and what runs is left as it is.
RollbackFailed(m) ==
    /\ IF want[m] # None THEN RecordAttempt(want[m], "failed") ELSE UNCHANGED <<attempt, wait>>
    /\ state' = "failed"
    /\ Exit(m)
    /\ UNCHANGED <<current, previous, rootCur, rootPrev, refused>>

\* previous.json is loaded; with one, the target is stopped.
RollBack(m) ==
    /\ pc[m] = "rollback"
    /\ IF LoadStateFile(previous) = None
       THEN RollbackFailed(m) /\ UNCHANGED running
       ELSE /\ back' = [back EXCEPT ![m] = previous]
            /\ running' = None
            /\ Goto(m, "rbeval")
            /\ UNCHANGED <<dirVars, want>>
    /\ UNCHANGED <<registry, published, store, units, loaded, host, disturbed>>

\* The previous version is evaluated and its units are written.
RollbackProvision(m) ==
    /\ pc[m] = "rbeval"
    /\ IF Evaluates(back[m])
       THEN GenerateUnits(back[m]) /\ Goto(m, "rbreload") /\ UNCHANGED <<dirVars, want, back>>
       ELSE RollbackFailed(m) /\ UNCHANGED units
    /\ UNCHANGED <<registry, published, store, loaded, running, host, disturbed>>

RollbackEvalFails(m) ==
    /\ pc[m] = "rbeval"
    /\ Disturb("failure")
    /\ RollbackFailed(m)
    /\ UNCHANGED <<registry, published, hostVars>>

RollbackStart(m) ==
    /\ pc[m] = "rbstart"
    /\ running' = Started
    /\ Goto(m, "rbsave")
    /\ UNCHANGED <<registry, published, dirVars, store, units, loaded, host, want, back, disturbed>>

\* previous.json is removed, then its gc root.
RollbackDrops(m) ==
    /\ pc[m] = "rbdrop"
    /\ previous' = NoFile
    /\ Goto(m, "rbunprev")
    /\ UNCHANGED <<registry, published, current, state, attempt, rootCur, rootPrev, refused, wait, hostVars, want, back, disturbed>>

RollbackUnroots(m) ==
    /\ pc[m] = "rbunprev"
    /\ rootPrev' = None
    /\ Goto(m, "rbdone")
    /\ UNCHANGED <<registry, published, current, previous, state, attempt, rootCur, refused, wait, hostVars, want, back, disturbed>>

RolledBack(m) ==
    /\ pc[m] = "rbdone"
    /\ IF want[m] # None THEN RecordAttempt(want[m], "rolled-back")
       ELSE attempt' = NoAttempt /\ wait' = 0
    /\ state' = "rolled-back"
    /\ Exit(m)
    /\ UNCHANGED <<registry, published, current, previous, rootCur, rootPrev, refused, hostVars, disturbed>>

(***************************************************************************)
(* The host.                                                               *)
(***************************************************************************)

\* A reboot ends every process and empties /run.
Reboot ==
    /\ host = "up"
    /\ Disturb("reboot")
    /\ host' = "boot"
    /\ units' = None /\ loaded' = None /\ running' = None
    /\ pc' = [m \in Managers |-> "idle"]
    /\ want' = [m \in Managers |-> None]
    /\ back' = [m \in Managers |-> None]
    /\ UNCHANGED <<registry, published, dirVars, store>>

\* Mutant: the regenerated units are not loaded before the start.
BootWithoutReload ==
    LET v == LoadStateFile(current) IN
    /\ host = "boot"
    /\ host' = "up"
    /\ IF v \in store THEN rootCur' = v /\ units' = v ELSE UNCHANGED <<rootCur, units>>
    /\ running' = IF v # None THEN Started ELSE running
    /\ IF v = None THEN attempt' = NoAttempt /\ wait' = 0 ELSE UNCHANGED <<attempt, wait>>
    /\ UNCHANGED <<registry, published, current, previous, state, rootPrev, store, refused, loaded, procVars, disturbed>>

\* cmdBoot: the committed version's gc root is registered again, its units are
\* written and started; an overlay without one loses its backoff
\* (resetStaleBackoffOnBoot).
Boot ==
    LET v == LoadStateFile(current) IN
    /\ host = "boot"
    /\ host' = "up"
    /\ IF Evaluates(v)
       THEN /\ rootCur' = v
            /\ Registers(v)
            /\ GenerateUnits(v) /\ loaded' = v
            /\ running' = IF running = None THEN v ELSE running
       ELSE /\ UNCHANGED <<rootCur, store, refused, units, disturbed>>
            /\ loaded' = units
            /\ running' = IF v # None THEN Started ELSE running
    /\ IF v = None THEN attempt' = NoAttempt /\ wait' = 0 ELSE UNCHANGED <<attempt, wait>>
    /\ UNCHANGED <<registry, published, current, previous, state, rootPrev, procVars>>

\* The evaluation of the committed version fails at boot: no units are written
\* for it, and its target is started all the same.
BootEvalFails ==
    /\ host = "boot"
    /\ LoadStateFile(current) # None
    /\ Disturb("bootfail")
    /\ host' = "up"
    /\ loaded' = units
    /\ running' = Started
    /\ UNCHANGED <<registry, published, dirVars, store, units, procVars>>

\* The nix store is collected: gc roots and what runs keep their paths. The
\* links of a version that was once refused a root may keep it or not.
NixGC ==
    /\ host = "up"
    /\ Disturb("nixgc")
    /\ \E loose \in SUBSET refused :
          store' = store \cap (({rootCur, rootPrev} \ loose) \cup {running})
    /\ UNCHANGED <<registry, published, dirVars, units, loaded, running, host, procVars>>

\* CI publishes a version: a new one, or one it published before.
Publish(v) ==
    /\ v # registry
    /\ IF v \in published THEN Disturb("revert") ELSE Disturb("publish")
    /\ registry' = v
    /\ published' = published \cup {v}
    /\ UNCHANGED <<dirVars, hostVars, procVars>>

\* A poll interval passes.
Tick ==
    /\ wait > 0
    /\ wait' = wait - 1
    /\ UNCHANGED <<registry, published, current, previous, state, attempt, rootCur, rootPrev, refused, hostVars, procVars, disturbed>>

(***************************************************************************)
(* The specification.                                                      *)
(***************************************************************************)

\* A host that has never activated the overlay.
Init ==
    /\ registry = FirstVersion /\ published = {FirstVersion}
    /\ current = NoFile /\ previous = NoFile
    /\ state = "idle"
    /\ attempt = NoAttempt /\ wait = 0
    /\ rootCur = None /\ rootPrev = None
    /\ store = {} /\ refused = {}
    /\ units = None /\ loaded = None /\ running = None
    /\ host = "up"
    /\ pc = [m \in Managers |-> "idle"]
    /\ want = [m \in Managers |-> None]
    /\ back = [m \in Managers |-> None]
    /\ disturbed = 0

Rotation(m) == RotateTruncates(m) \/ RotateWrites(m) \/ RotateUnroots(m) \/ RotateRoots(m)

ActivationStep(m) ==
    \/ Decide(m) \/ Fetch(m) \/ Provision(m)
    \/ Reload(m, "reload", "stop") \/ Stop(m) \/ Start(m) \/ Health(m)
    \/ Rotation(m)
    \/ Truncate(m, "save", "saving") \/ Write(m, "saving", want[m], "unroot")
    \/ Unroot(m, "unroot", "root") \/ Root(m, "root", want[m], "clear")
    \/ Committed(m)

RollbackStep(m) ==
    \/ RollBack(m) \/ RollbackProvision(m)
    \/ Reload(m, "rbreload", "rbstart") \/ RollbackStart(m)
    \/ Truncate(m, "rbsave", "rbsaving") \/ Write(m, "rbsaving", back[m], "rbunroot")
    \/ Unroot(m, "rbunroot", "rbroot") \/ Root(m, "rbroot", back[m], "rbdrop")
    \/ RollbackDrops(m) \/ RollbackUnroots(m) \/ RolledBack(m)

Operator(m) ==
    \/ \E v \in Versions : Activate(m, v)
    \/ OperatorRollback(m)

Failure(m) == StepFails(m) \/ StartFails(m) \/ RollbackEvalFails(m)

Next ==
    \/ \E m \in Managers : Check(m) \/ ActivationStep(m) \/ RollbackStep(m) \/ Operator(m) \/ Failure(m)
    \/ Reboot \/ Boot \/ BootEvalFails \/ NixGC \/ Tick
    \/ \E v \in Versions : Publish(v)

Spec == Init /\ [][Next]_vars

\* The timer starts a check every five minutes, a started process runs on to
\* its end, the boot unit runs, and time passes.
Fairness ==
    /\ WF_vars(Check(Timer))
    /\ \A m \in Managers : WF_vars(ActivationStep(m) \/ RollbackStep(m))
    /\ WF_vars(Boot) /\ WF_vars(Tick)

FairSpec == Spec /\ Fairness

(***************************************************************************)
(* Properties.                                                             *)
(***************************************************************************)

\* Where a process is on its way to a version; where it has one to go back to.
Activating == {"decide", "fetch", "eval", "reload", "stop", "start", "health",
               "rotate", "rotating", "unprev", "prev", "save", "saving", "unroot", "root", "clear"}

Returning == {"rbeval", "rbreload", "rbstart", "rbsave", "rbsaving", "rbunroot", "rbroot",
              "rbdrop", "rbunprev", "rbdone"}

Labels == Activating \cup Returning \cup {"idle", "rollback"}

\* The type invariant: a process that activates knows what, one that goes back
\* or moves a gc root knows which version, and the backoff never exceeds its
\* ceiling.
TypeOK ==
    /\ registry \in Versions /\ published \in SUBSET Versions
    /\ current \in Files /\ previous \in Files
    /\ state \in {"idle", "fetching", "validating", "provisioning", "provisional", "permanent",
                  "rolling-back", "rolled-back", "failed"}
    /\ attempt \in [path : Maybe, state : {"none", "failed", "rolled-back"}, attempts : 0 .. MaxAttempts]
    /\ wait \in 0 .. Ceiling
    /\ rootCur \in Maybe /\ rootPrev \in Maybe
    /\ store \in SUBSET Versions /\ refused \in SUBSET Versions
    /\ units \in Maybe /\ loaded \in Maybe /\ running \in Maybe
    /\ host \in {"up", "boot"}
    /\ pc \in [Managers -> Labels]
    /\ want \in [Managers -> Maybe] /\ back \in [Managers -> Maybe]
    /\ \A m \in Managers : /\ pc[m] \in Activating => want[m] # None
                           /\ back[m] # None <=> pc[m] \in Returning \cup {"unprev", "prev"}
    /\ disturbed \in 0 .. MaxDisturb

\* No manager is at work.
Quiet == host = "up" /\ \A m \in Managers : pc[m] = "idle"

\* Only a version that passed its health checks, or has none, is ever
\* committed, as current or as the one to go back to: a boot and a rollback
\* start nothing else.
CommittedIsHealthy ==
    /\ LoadStateFile(current) \in Healthy \cup Unprobed \cup {None}
    /\ LoadStateFile(previous) \in Healthy \cup Unprobed \cup {None}

\* Versions that were seen to run before they were committed, and whose gc
\* roots nix has never refused.
Sure == Versions \ (Unprobed \cup refused)

\* Neither a crash nor a store collection takes away what the next boot or
\* rollback needs: whenever nothing is going on, the store paths of
\* current.json and previous.json are there.
CommittedIsKept == Quiet => {current, previous} \cap Sure \subseteq store

\* The status surface tells what runs ("lets CI (and agents) observe what a
\* host is actually running", overlays.nix:155): when nothing is going on, an
\* overlay in the state "permanent" runs the version of current.json.
StatusIsTruthful ==
    Quiet /\ state = "permanent" /\ current \notin Unprobed \cup refused => running = LoadStateFile(current)

\* The overlay converges: in the end a healthy version that the registry goes
\* on advertising is committed and runs, whatever failed on the way.
Converges ==
    <>[](registry \in Healthy => LoadStateFile(current) = registry /\ running = registry)

=============================================================================
