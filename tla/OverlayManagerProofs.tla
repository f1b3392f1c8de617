------------------------ MODULE OverlayManagerProofs ------------------------
(***************************************************************************)
(* Proofs about OverlayManager, for every set of versions and every bound. *)
(*                                                                         *)
(* TypeOK is inductive as it stands, for any number of manager processes.  *)
(* CommittedIsHealthy needs that no two of them overlap (Alone): a health  *)
(* check says something about the version being activated only because the *)
(* units on disk, the loaded ones and what runs are that version's, step   *)
(* after step (OwnUnits), and what is then written into current.json is    *)
(* the version that passed (Passed).                                       *)
(*                                                                         *)
(* CommittedIsKept and StatusIsTruthful need in addition that no           *)
(* evaluation fails at boot (BootsWell): a committed store path is kept by *)
(* a gc root or, while the root is being replaced, by the services that    *)
(* run or by the other root, also where a crash leaves a commit or a       *)
(* rollback half done (Rooted, RunsStored, Carried); and the state         *)
(* "permanent" goes with what runs (Truthful).                             *)
(***************************************************************************)
EXTENDS OverlayManager, TLAPS

\* Manager runs do not overlap.
Alone == Managers = {Timer}

\* From the moment its units are written, everything that starts is the
\* version in hand.
OwnUnits(m) ==
    /\ pc[m] = "reload" => units = want[m]
    /\ pc[m] = "stop" => loaded = want[m]
    /\ pc[m] = "start" => loaded = want[m] /\ running = None
    /\ pc[m] = "health" => running \in {want[m], None}

\* The commit up to the write of current.json.
Committing == {"rotate", "rotating", "unprev", "prev", "save", "saving"}

\* A version on its way into current.json or previous.json has passed.
Passed(m) ==
    /\ pc[m] \in Committing => want[m] \in Healthy \cup Unprobed
    /\ pc[m] \in Returning => back[m] \in Healthy \cup Unprobed

\* The inductive invariant of a manager that runs alone.
IInv ==
    /\ TypeOK
    /\ CommittedIsHealthy
    /\ \A m \in Managers : OwnUnits(m) /\ Passed(m) /\ (host = "boot" => pc[m] = "idle")
----------------------------------------------------------------------------
(* Facts about the operators.                                              *)

\* A backoff is between one poll interval and the ceiling.
LEMMA DelayType == \A n : Delay(n) \in 1 .. Ceiling
BY ConstantsAssumption DEF Delay

\* The record of an attempt is well formed.
LEMMA RecordType ==
    ASSUME TypeOK, NEW v \in Versions, NEW how \in {"failed", "rolled-back"}, RecordAttempt(v, how)
    PROVE  /\ attempt' \in [path : Maybe, state : {"none", "failed", "rolled-back"}, attempts : 0 .. MaxAttempts]
           /\ wait' \in 0 .. Ceiling
<1> DEFINE n == IF attempt.path # v THEN 1
                ELSE IF attempt.attempts < MaxAttempts THEN attempt.attempts + 1 ELSE MaxAttempts
<1>1. attempt.attempts \in 0 .. MaxAttempts
  BY DEF TypeOK
<1>2. n \in 0 .. MaxAttempts
  BY <1>1, ConstantsAssumption
<1>3. attempt' = [path |-> v, state |-> how, attempts |-> n] /\ wait' = Delay(n)
  BY DEF RecordAttempt
<1>4. wait' \in 0 .. Ceiling
  BY <1>3, DelayType, ConstantsAssumption
<1> QED BY <1>2, <1>3, <1>4 DEF Maybe

\* Erasing the record leaves it well formed.
LEMMA NoAttemptType ==
    NoAttempt \in [path : Maybe, state : {"none", "failed", "rolled-back"}, attempts : 0 .. MaxAttempts]
BY ConstantsAssumption DEF NoAttempt, Maybe

\* A disturbance stays within its bound.
LEMMA DisturbType ==
    ASSUME TypeOK, NEW kind, Disturb(kind)
    PROVE  disturbed' \in 0 .. MaxDisturb
BY ConstantsAssumption DEF TypeOK, Disturb

\* What a state file holds, and what runs after a start, is a version or none.
LEMMA LoadType == \A f : LoadStateFile(f) \in Maybe /\ (LoadStateFile(f) # None => LoadStateFile(f) = f)
BY DEF LoadStateFile, Maybe

LEMMA StartedType == TypeOK => Started \in Maybe
BY DEF TypeOK, Started

\* A gc root is registered, which brings its store path back, or refused.
LEMMA RegistersFacts ==
    ASSUME TypeOK, NEW v \in Versions, Registers(v)
    PROVE  /\ store' \in SUBSET Versions /\ refused' \in SUBSET Versions /\ disturbed' \in 0 .. MaxDisturb
           /\ store \subseteq store' /\ refused \subseteq refused'
           /\ v \in store' \/ v \in refused'
<1>1. CASE store' = store \cup {v} /\ UNCHANGED <<refused, disturbed>>
  BY <1>1 DEF TypeOK
<1>2. CASE Refused(v)
  BY <1>2, DisturbType DEF TypeOK, Refused
<1> QED BY <1>1, <1>2 DEF Registers

----------------------------------------------------------------------------
(* Type correctness.                                                       *)

LEMMA InitType == Init => TypeOK
BY ConstantsAssumption, NoAttemptType DEF Init, TypeOK, Files, Maybe, Labels, Activating, Returning

\* The steps that start a process.
LEMMA StartingType ==
    ASSUME TypeOK, NEW m \in Managers,
           Check(m) \/ Decide(m) \/ OperatorRollback(m) \/ \E v \in Versions : Activate(m, v)
    PROVE  TypeOK'
<1>1. CASE Check(m)
  BY <1>1, ConstantsAssumption DEF TypeOK, Check, Goto, Labels, Activating, Returning, Maybe, dirVars, hostVars
<1>2. CASE Decide(m)
  BY <1>2, ConstantsAssumption
  DEF TypeOK, Decide, Exit, Goto, Labels, Activating, Returning, Maybe, hostVars
<1>3. CASE OperatorRollback(m)
  BY <1>3, DisturbType, ConstantsAssumption
  DEF TypeOK, OperatorRollback, Goto, Labels, Activating, Returning, Maybe, dirVars, hostVars
<1>4. ASSUME NEW v \in Versions, Activate(m, v) PROVE TypeOK'
  BY <1>4, DisturbType, ConstantsAssumption
  DEF TypeOK, Activate, Goto, Labels, Activating, Returning, Maybe, hostVars
<1> QED BY <1>1, <1>2, <1>3, <1>4

\* An activation that fails before its start.
LEMMA FailActivationType ==
    ASSUME TypeOK, NEW m \in Managers, pc[m] \in Activating, FailActivation(m),
           disturbed' \in 0 .. MaxDisturb, UNCHANGED <<registry, published, hostVars>>
    PROVE  TypeOK'
<1>1. want[m] \in Versions
  BY DEF TypeOK, Maybe
<1>2. /\ attempt' \in [path : Maybe, state : {"none", "failed", "rolled-back"}, attempts : 0 .. MaxAttempts]
      /\ wait' \in 0 .. Ceiling
  BY <1>1, RecordType DEF FailActivation
<1> QED BY <1>2, ConstantsAssumption
  DEF TypeOK, FailActivation, Exit, Goto, Labels, Activating, Returning, Maybe, hostVars

\* The activation up to its health checks.
LEMMA ActivationType ==
    ASSUME TypeOK, NEW m \in Managers,
           \/ Fetch(m) \/ Provision(m) \/ StepFails(m) \/ Reload(m, "reload", "stop")
           \/ Stop(m) \/ Start(m) \/ StartFails(m) \/ Health(m)
    PROVE  TypeOK'
<1>1. CASE Fetch(m)
  BY <1>1, ConstantsAssumption DEF TypeOK, Fetch, Goto, Labels, Activating, Returning, Maybe
<1>2. CASE Provision(m)
  <2>1. CASE want[m] \in store
    BY <1>2, <2>1, ConstantsAssumption DEF TypeOK, Provision, Evaluates, GenerateUnits, Goto, Labels, Activating, Returning, Maybe
  <2>2. CASE want[m] \notin store
    <3>1. pc[m] \in Activating /\ FailActivation(m) /\ UNCHANGED <<registry, published, hostVars>>
      BY <1>2, <2>2 DEF Provision, Evaluates, Activating, hostVars
    <3>2. disturbed' \in 0 .. MaxDisturb
      BY <1>2 DEF Provision, TypeOK
    <3> QED BY <3>1, <3>2, FailActivationType
  <2> QED BY <2>1, <2>2
<1>3. CASE StepFails(m)
  <2>1. pc[m] \in Activating
    BY <1>3 DEF StepFails, Activating
  <2> QED BY <1>3, <2>1, DisturbType, FailActivationType DEF StepFails
<1>4. CASE Reload(m, "reload", "stop")
  BY <1>4, ConstantsAssumption DEF TypeOK, Reload, Goto, Labels, Activating, Returning, Maybe, dirVars
<1>5. CASE Stop(m)
  BY <1>5, ConstantsAssumption DEF TypeOK, Stop, Goto, Labels, Activating, Returning, Maybe, dirVars
<1>6. CASE Start(m)
  BY <1>6, StartedType, ConstantsAssumption DEF TypeOK, Start, Goto, Labels, Activating, Returning, Maybe
<1>7. CASE StartFails(m)
  BY <1>7, DisturbType, ConstantsAssumption
  DEF TypeOK, StartFails, Goto, Labels, Activating, Returning, Maybe, hostVars
<1>8. CASE Health(m)
  <2>1. disturbed' \in 0 .. MaxDisturb
    BY <1>8, DisturbType DEF Health, TypeOK
  <2> QED BY <1>8, <2>1, ConstantsAssumption
    DEF TypeOK, Health, Goto, Labels, Activating, Returning, Maybe, hostVars
<1> QED BY <1>1, <1>2, <1>3, <1>4, <1>5, <1>6, <1>7, <1>8

\* The commit.
LEMMA CommitType ==
    ASSUME TypeOK, NEW m \in Managers,
           \/ Rotation(m) \/ Truncate(m, "save", "saving") \/ Write(m, "saving", want[m], "unroot")
           \/ Unroot(m, "unroot", "root") \/ Root(m, "root", want[m], "clear") \/ Committed(m)
    PROVE  TypeOK'
<1>1. CASE Rotation(m)
  <2>1. CASE RotateTruncates(m)
    BY <1>1, <2>1, ConstantsAssumption
    DEF TypeOK, RotateTruncates, Goto, Labels, Activating, Returning, Files, Maybe, hostVars
  <2>2. CASE RotateWrites(m)
    BY <1>1, <2>2, ConstantsAssumption DEF TypeOK, RotateWrites, Goto, Labels, Activating, Returning, Maybe, hostVars
  <2>3. CASE RotateUnroots(m)
    BY <1>1, <2>3, ConstantsAssumption DEF TypeOK, RotateUnroots, Goto, Labels, Activating, Returning, Maybe, hostVars
  <2>4. CASE RotateRoots(m)
    <3>1. back[m] \in Versions
      BY <2>4 DEF TypeOK, RotateRoots, Maybe
    <3>2. store' \in SUBSET Versions /\ refused' \in SUBSET Versions /\ disturbed' \in 0 .. MaxDisturb
      BY <2>4, <3>1, RegistersFacts DEF RotateRoots
    <3> QED BY <2>4, <3>1, <3>2, ConstantsAssumption
      DEF TypeOK, RotateRoots, Goto, Labels, Activating, Returning, Maybe
  <2> QED BY <1>1, <2>1, <2>2, <2>3, <2>4 DEF Rotation
<1>2. CASE Truncate(m, "save", "saving")
  BY <1>2, ConstantsAssumption DEF TypeOK, Truncate, Goto, Labels, Activating, Returning, Files, hostVars
<1>3. CASE Write(m, "saving", want[m], "unroot")
  BY <1>3, ConstantsAssumption DEF TypeOK, Write, Goto, Labels, Activating, Returning, Files, Maybe, hostVars
<1>4. CASE Unroot(m, "unroot", "root")
  BY <1>4, ConstantsAssumption DEF TypeOK, Unroot, Goto, Labels, Activating, Returning, Maybe, hostVars
<1>5. CASE Root(m, "root", want[m], "clear")
  <2>1. want[m] \in Versions
    BY <1>5 DEF TypeOK, Root, Activating, Maybe
  <2>2. store' \in SUBSET Versions /\ refused' \in SUBSET Versions /\ disturbed' \in 0 .. MaxDisturb
    BY <1>5, <2>1, RegistersFacts DEF Root
  <2> QED BY <1>5, <2>1, <2>2, ConstantsAssumption DEF TypeOK, Root, Goto, Labels, Activating, Returning, Maybe
<1>6. CASE Committed(m)
  BY <1>6, NoAttemptType, ConstantsAssumption
  DEF TypeOK, Committed, Exit, Goto, Labels, Activating, Returning, Maybe, hostVars
<1> QED BY <1>1, <1>2, <1>3, <1>4, <1>5, <1>6

\* A rollback that is not possible.
LEMMA RollbackFailedType ==
    ASSUME TypeOK, NEW m \in Managers, RollbackFailed(m),
           disturbed' \in 0 .. MaxDisturb, UNCHANGED <<registry, published, hostVars>>
    PROVE  TypeOK'
<1>1. /\ attempt' \in [path : Maybe, state : {"none", "failed", "rolled-back"}, attempts : 0 .. MaxAttempts]
      /\ wait' \in 0 .. Ceiling
  <2>1. CASE want[m] = None
    BY <2>1 DEF RollbackFailed, TypeOK
  <2>2. CASE want[m] # None
    <3>1. want[m] \in Versions
      BY <2>2 DEF TypeOK, Maybe
    <3> QED BY <2>2, <3>1, RecordType DEF RollbackFailed
  <2> QED BY <2>1, <2>2
<1> QED BY <1>1, ConstantsAssumption
  DEF TypeOK, RollbackFailed, Exit, Goto, Labels, Activating, Returning, Maybe, hostVars

\* The rollback.
LEMMA RollbackType ==
    ASSUME TypeOK, NEW m \in Managers, RollbackStep(m) \/ RollbackEvalFails(m)
    PROVE  TypeOK'
<1>1. CASE RollBack(m)
  <2>1. CASE LoadStateFile(previous) = None
    <3>1. RollbackFailed(m) /\ UNCHANGED <<registry, published, hostVars>>
      BY <1>1, <2>1 DEF RollBack, hostVars
    <3>2. disturbed' \in 0 .. MaxDisturb
      BY <1>1 DEF RollBack, TypeOK
    <3> QED BY <3>1, <3>2, RollbackFailedType
  <2>2. CASE LoadStateFile(previous) # None
    <3>1. previous \in Versions
      BY <2>2 DEF LoadStateFile
    <3> QED BY <1>1, <2>2, <3>1, ConstantsAssumption
      DEF TypeOK, RollBack, Goto, Labels, Activating, Returning, Maybe, dirVars
  <2> QED BY <2>1, <2>2
<1>2. CASE RollbackProvision(m)
  <2>1. CASE back[m] \in store
    BY <1>2, <2>1, ConstantsAssumption
    DEF TypeOK, RollbackProvision, Evaluates, GenerateUnits, Goto, Labels, Activating, Returning, Maybe, dirVars
  <2>2. CASE back[m] \notin store
    <3>1. RollbackFailed(m) /\ UNCHANGED <<registry, published, hostVars>>
      BY <1>2, <2>2 DEF RollbackProvision, Evaluates, hostVars
    <3>2. disturbed' \in 0 .. MaxDisturb
      BY <1>2 DEF RollbackProvision, TypeOK
    <3> QED BY <3>1, <3>2, RollbackFailedType
  <2> QED BY <2>1, <2>2
<1>3. CASE RollbackEvalFails(m)
  BY <1>3, DisturbType, RollbackFailedType DEF RollbackEvalFails
<1>4. CASE Reload(m, "rbreload", "rbstart")
  BY <1>4, ConstantsAssumption DEF TypeOK, Reload, Goto, Labels, Activating, Returning, Maybe, dirVars
<1>5. CASE RollbackStart(m)
  BY <1>5, StartedType, ConstantsAssumption
  DEF TypeOK, RollbackStart, Goto, Labels, Activating, Returning, Maybe, dirVars
<1>6. CASE Truncate(m, "rbsave", "rbsaving")
  BY <1>6, ConstantsAssumption DEF TypeOK, Truncate, Goto, Labels, Activating, Returning, Files, hostVars
<1>7. CASE Write(m, "rbsaving", back[m], "rbunroot")
  BY <1>7, ConstantsAssumption DEF TypeOK, Write, Goto, Labels, Activating, Returning, Files, Maybe, hostVars
<1>8. CASE Unroot(m, "rbunroot", "rbroot")
  BY <1>8, ConstantsAssumption DEF TypeOK, Unroot, Goto, Labels, Activating, Returning, Maybe, hostVars
<1>9. CASE Root(m, "rbroot", back[m], "rbdrop")
  <2>1. back[m] \in Versions
    BY <1>9 DEF TypeOK, Root, Returning, Maybe
  <2>2. store' \in SUBSET Versions /\ refused' \in SUBSET Versions /\ disturbed' \in 0 .. MaxDisturb
    BY <1>9, <2>1, RegistersFacts DEF Root
  <2> QED BY <1>9, <2>1, <2>2, ConstantsAssumption DEF TypeOK, Root, Goto, Labels, Activating, Returning, Maybe
<1>10. CASE RollbackDrops(m) \/ RollbackUnroots(m)
  BY <1>10, ConstantsAssumption
  DEF TypeOK, RollbackDrops, RollbackUnroots, Goto, Labels, Activating, Returning, Files, Maybe, hostVars
<1>11. CASE RolledBack(m)
  <2>1. /\ attempt' \in [path : Maybe, state : {"none", "failed", "rolled-back"}, attempts : 0 .. MaxAttempts]
        /\ wait' \in 0 .. Ceiling
    <3>1. CASE want[m] = None
      BY <1>11, <3>1, NoAttemptType, ConstantsAssumption DEF RolledBack
    <3>2. CASE want[m] # None
      <4>1. want[m] \in Versions
        BY <3>2 DEF TypeOK, Maybe
      <4> QED BY <1>11, <3>2, <4>1, RecordType DEF RolledBack
    <3> QED BY <3>1, <3>2
  <2> QED BY <1>11, <2>1, ConstantsAssumption
    DEF TypeOK, RolledBack, Exit, Goto, Labels, Activating, Returning, Maybe, hostVars
<1> QED BY <1>1, <1>2, <1>3, <1>4, <1>5, <1>6, <1>7, <1>8, <1>9, <1>10, <1>11 DEF RollbackStep

\* The host and the registry.
LEMMA HostType ==
    ASSUME TypeOK, Reboot \/ Boot \/ BootEvalFails \/ NixGC \/ Tick \/ \E v \in Versions : Publish(v)
    PROVE  TypeOK'
<1>1. CASE Reboot
  BY <1>1, DisturbType, ConstantsAssumption
  DEF TypeOK, Reboot, Labels, Activating, Returning, Maybe, dirVars
<1>2. CASE Boot
  <2>1. attempt' \in [path : Maybe, state : {"none", "failed", "rolled-back"}, attempts : 0 .. MaxAttempts]
        /\ wait' \in 0 .. Ceiling
    BY <1>2, NoAttemptType, ConstantsAssumption DEF Boot, TypeOK
  <2>2. rootCur' \in Maybe /\ units' \in Maybe /\ loaded' \in Maybe /\ running' \in Maybe
    BY <1>2, LoadType, StartedType DEF Boot, GenerateUnits, TypeOK
  <2>3. store' \in SUBSET Versions /\ refused' \in SUBSET Versions /\ disturbed' \in 0 .. MaxDisturb
    <3>1. CASE LoadStateFile(current) \in store
      <4>1. LoadStateFile(current) \in Versions
        BY <3>1 DEF TypeOK
      <4> QED BY <1>2, <3>1, <4>1, RegistersFacts DEF Boot, Evaluates
    <3>2. CASE LoadStateFile(current) \notin store
      BY <1>2, <3>2 DEF Boot, Evaluates, TypeOK
    <3> QED BY <3>1, <3>2
  <2> QED BY <1>2, <2>1, <2>2, <2>3 DEF TypeOK, Boot, procVars
<1>3. CASE BootEvalFails
  BY <1>3, DisturbType, StartedType DEF TypeOK, BootEvalFails, dirVars, procVars
<1>4. CASE NixGC
  BY <1>4, DisturbType DEF TypeOK, NixGC, dirVars, procVars
<1>5. CASE Tick
  BY <1>5, ConstantsAssumption DEF TypeOK, Tick, hostVars, procVars
<1>6. ASSUME NEW v \in Versions, Publish(v) PROVE TypeOK'
  BY <1>6, DisturbType DEF TypeOK, Publish, dirVars, hostVars, procVars
<1> QED BY <1>1, <1>2, <1>3, <1>4, <1>5, <1>6

\* Every step keeps the types.
LEMMA NextType == TypeOK /\ [Next]_vars => TypeOK'
<1> SUFFICES ASSUME TypeOK, [Next]_vars PROVE TypeOK'
  OBVIOUS
<1>1. CASE UNCHANGED vars
  BY <1>1 DEF TypeOK, vars, dirVars, hostVars, procVars
<1>2. ASSUME NEW m \in Managers,
             Check(m) \/ ActivationStep(m) \/ RollbackStep(m) \/ Operator(m) \/ Failure(m)
      PROVE  TypeOK'
  BY <1>2, StartingType, ActivationType, CommitType, RollbackType
  DEF ActivationStep, Operator, Failure
<1> QED BY <1>1, <1>2, HostType DEF Next

\* Type correctness, for any number of overlapping managers: an activation
\* always knows its version, a rollback its target, and the recorded backoff
\* stays within the ceiling of backoffRemaining.
THEOREM TypeCorrect == Spec => []TypeOK
BY InitType, NextType, PTL DEF Spec
----------------------------------------------------------------------------
(* Only healthy versions are committed.                                    *)

\* What IInv adds to the types.
Inner == CommittedIsHealthy /\ \A m \in Managers : OwnUnits(m) /\ Passed(m) /\ (host = "boot" => pc[m] = "idle")

\* A process at rest owes nothing.
LEMMA IdleFacts ==
    ASSUME NEW m \in Managers, pc[m] = "idle"
    PROVE  OwnUnits(m) /\ Passed(m)
BY DEF OwnUnits, Passed, Committing, Returning

\* The committed files as they are loaded.
LEMMA CommittedLoads ==
    CommittedIsHealthy <=> /\ current \in Versions => current \in Healthy \cup Unprobed
                           /\ previous \in Versions => previous \in Healthy \cup Unprobed
BY ConstantsAssumption DEF CommittedIsHealthy, LoadStateFile

LEMMA CommittedLoadsNext ==
    CommittedIsHealthy' <=> /\ current' \in Versions => current' \in Healthy \cup Unprobed
                            /\ previous' \in Versions => previous' \in Healthy \cup Unprobed
BY ConstantsAssumption DEF CommittedIsHealthy, LoadStateFile

LEMMA InitHolds == Init => IInv
<1> SUFFICES ASSUME Init PROVE IInv
  OBVIOUS
<1>1. CommittedIsHealthy
  BY ConstantsAssumption, CommittedLoads DEF Init
<1>2. \A m \in Managers : pc[m] = "idle"
  BY DEF Init
<1> QED BY <1>1, <1>2, InitType, IdleFacts DEF IInv

\* The steps of a process up to its health checks and those of the operator:
\* the files stay, and what is loaded and started is the version in hand.
LEMMA UncommittedSteps ==
    ASSUME Alone, IInv, NEW m \in Managers,
           \/ Check(m) \/ Decide(m) \/ Operator(m) \/ Fetch(m) \/ Provision(m) \/ Failure(m)
           \/ Reload(m, "reload", "stop") \/ Stop(m) \/ Start(m) \/ Health(m)
    PROVE  Inner'
<1>1. m = Timer /\ Managers = {m} /\ pc[m] \in Labels
  BY DEF Alone, IInv, TypeOK
<1>2. OwnUnits(m) /\ Passed(m) /\ TypeOK /\ CommittedIsHealthy
  BY DEF IInv
<1>3. current' = current /\ previous' = previous /\ (host' = "boot" => pc'[m] = "idle")
  BY <1>1, ConstantsAssumption
  DEF IInv, TypeOK, Check, Decide, Operator, Activate, OperatorRollback, Fetch, Provision, Failure, StepFails,
      StartFails, RollbackEvalFails, Reload, Stop, Start, Health, FailActivation, RollbackFailed, Exit,
      Goto, dirVars, hostVars
<1>4. CommittedIsHealthy'
  BY <1>2, <1>3, CommittedLoads, CommittedLoadsNext
<1>5. OwnUnits(m)' /\ Passed(m)'
  <2>1. CASE Check(m)
    BY <1>1, <2>1 DEF IInv, TypeOK, Check, Goto, OwnUnits, Passed, Committing, Returning
  <2>2. CASE Decide(m)
    BY <1>1, <2>2 DEF IInv, TypeOK, Decide, Exit, Goto, OwnUnits, Passed, Committing, Returning
  <2>3. CASE Operator(m)
    BY <1>1, <2>3 DEF IInv, TypeOK, Operator, Activate, OperatorRollback, Goto, OwnUnits, Passed, Committing, Returning
  <2>4. CASE Fetch(m)
    BY <1>1, <2>4 DEF IInv, TypeOK, Fetch, Goto, OwnUnits, Passed, Committing, Returning
  <2>5. CASE Provision(m)
    BY <1>1, <2>5 DEF IInv, TypeOK, Provision, GenerateUnits, FailActivation, Exit, Goto, OwnUnits, Passed, Committing, Returning
  <2>6. CASE Failure(m)
    BY <1>1, <2>6 DEF IInv, TypeOK, Failure, StepFails, StartFails, RollbackEvalFails, FailActivation,
                      RollbackFailed, Exit, Goto, OwnUnits, Passed, Committing, Returning
  <2>7. CASE Reload(m, "reload", "stop")
    BY <1>1, <1>2, <2>7 DEF TypeOK, Reload, Goto, OwnUnits, Passed, Committing, Returning
  <2>8. CASE Stop(m)
    BY <1>1, <1>2, <2>8 DEF TypeOK, Stop, Goto, OwnUnits, Passed, Committing, Returning
  <2>9. CASE Start(m)
    BY <1>1, <1>2, <2>9 DEF TypeOK, Start, Started, Goto, OwnUnits, Passed, Committing, Returning
  <2>10. CASE Health(m)
    BY <1>1, <1>2, <2>10, ConstantsAssumption DEF TypeOK, Health, HealthChecksPass, Goto, OwnUnits, Passed, Committing, Returning
  <2> QED BY <2>1, <2>2, <2>3, <2>4, <2>5, <2>6, <2>7, <2>8, <2>9, <2>10
<1> QED BY <1>1, <1>3, <1>4, <1>5 DEF Inner

\* The commit: what passed becomes current, what was current becomes previous.
LEMMA CommitSteps ==
    ASSUME Alone, IInv, NEW m \in Managers,
           \/ Rotation(m) \/ Truncate(m, "save", "saving") \/ Write(m, "saving", want[m], "unroot")
           \/ Unroot(m, "unroot", "root") \/ Root(m, "root", want[m], "clear") \/ Committed(m)
    PROVE  Inner'
<1>1. Managers = {m} /\ TypeOK /\ Passed(m) /\ (host = "boot" => pc[m] = "idle")
  BY DEF Alone, IInv
<1>2. /\ current \in Versions => current \in Healthy \cup Unprobed
      /\ previous \in Versions => previous \in Healthy \cup Unprobed
  BY CommittedLoads DEF IInv
<1>3. host' = host /\ pc[m] # "idle"
  BY DEF Rotation, RotateTruncates, RotateWrites, RotateUnroots, RotateRoots, Truncate, Write, Unroot, Root,
         Committed, hostVars
<1>4. CommittedIsHealthy'
  <2>1. /\ current' \in Versions => current' \in Healthy \cup Unprobed
        /\ previous' \in Versions => previous' \in Healthy \cup Unprobed
    BY <1>1, <1>2, ConstantsAssumption
    DEF Passed, Committing, Rotation, RotateTruncates, RotateWrites, RotateUnroots, RotateRoots, Truncate, Write,
        Unroot, Root, Committed
  <2> QED BY <2>1, CommittedLoadsNext
<1>5. OwnUnits(m)' /\ Passed(m)'
  BY <1>1 DEF TypeOK, OwnUnits, Passed, Committing, Returning, Rotation, RotateTruncates, RotateWrites,
              RotateUnroots, RotateRoots, Truncate, Write, Unroot, Root, Committed, Exit, Goto
<1> QED BY <1>1, <1>3, <1>4, <1>5 DEF Inner

\* The rollback: its target comes from previous.json.
LEMMA RollbackSteps ==
    ASSUME Alone, IInv, NEW m \in Managers, RollbackStep(m)
    PROVE  Inner'
<1>1. Managers = {m} /\ TypeOK /\ Passed(m) /\ (host = "boot" => pc[m] = "idle")
  BY DEF Alone, IInv
<1>2. /\ current \in Versions => current \in Healthy \cup Unprobed
      /\ previous \in Versions => previous \in Healthy \cup Unprobed
  BY CommittedLoads DEF IInv
<1>3. host' = host /\ pc[m] # "idle"
  BY DEF RollbackStep, RollBack, RollbackProvision, Reload, RollbackStart, Truncate, Write, Unroot, Root,
         RollbackDrops, RollbackUnroots, RolledBack, hostVars
<1>4. CommittedIsHealthy'
  <2>1. /\ current' \in Versions => current' \in Healthy \cup Unprobed
        /\ previous' \in Versions => previous' \in Healthy \cup Unprobed
    BY <1>1, <1>2, ConstantsAssumption
    DEF Passed, Returning, RollbackStep, RollBack, RollbackProvision, RollbackFailed, Reload, RollbackStart,
        Truncate, Write, Unroot, Root, RollbackDrops, RollbackUnroots, RolledBack, dirVars
  <2> QED BY <2>1, CommittedLoadsNext
<1>5. OwnUnits(m)' /\ Passed(m)'
  <2>1. CASE RollBack(m)
    <3>1. LoadStateFile(previous) # None => previous \in Healthy \cup Unprobed
      BY <1>2 DEF LoadStateFile
    <3> QED BY <1>1, <2>1, <3>1 DEF TypeOK, OwnUnits, Passed, Committing, Returning, RollBack, RollbackFailed, Exit, Goto
  <2>2. CASE RollbackProvision(m)
    BY <1>1, <2>2 DEF TypeOK, OwnUnits, Passed, Committing, Returning, RollbackProvision, RollbackFailed, Exit, Goto
  <2>3. CASE \/ Reload(m, "rbreload", "rbstart") \/ RollbackStart(m) \/ RollbackDrops(m)
             \/ RollbackUnroots(m) \/ RolledBack(m)
    BY <1>1, <2>3 DEF TypeOK, OwnUnits, Passed, Committing, Returning, Reload, RollbackStart, RollbackDrops,
                      RollbackUnroots, RolledBack, Exit, Goto
  <2>4. CASE \/ Truncate(m, "rbsave", "rbsaving") \/ Write(m, "rbsaving", back[m], "rbunroot")
             \/ Unroot(m, "rbunroot", "rbroot") \/ Root(m, "rbroot", back[m], "rbdrop")
    BY <1>1, <2>4 DEF TypeOK, OwnUnits, Passed, Committing, Returning, Truncate, Write, Unroot, Root, Goto
  <2> QED BY <2>1, <2>2, <2>3, <2>4 DEF RollbackStep
<1> QED BY <1>1, <1>3, <1>4, <1>5 DEF Inner

\* The host and the registry touch neither file, and no manager is at work
\* when the units are rewritten by a boot.
LEMMA HostSteps ==
    ASSUME IInv, Reboot \/ Boot \/ BootEvalFails \/ NixGC \/ Tick \/ \E v \in Versions : Publish(v)
    PROVE  Inner'
<1>1. current' = current /\ previous' = previous
  BY DEF Reboot, Boot, BootEvalFails, NixGC, Tick, Publish, dirVars
<1>2. CommittedIsHealthy'
  BY <1>1, CommittedLoads, CommittedLoadsNext DEF IInv
<1>3. CASE Reboot \/ Boot \/ BootEvalFails
  <2>1. \A m \in Managers : pc'[m] = "idle"
    BY <1>3 DEF IInv, Reboot, Boot, BootEvalFails, procVars
  <2> QED BY <1>2, <2>1 DEF Inner, OwnUnits, Passed, Committing, Returning
<1>4. CASE NixGC \/ Tick \/ \E v \in Versions : Publish(v)
  BY <1>2, <1>4 DEF IInv, Inner, OwnUnits, Passed, NixGC, Tick, Publish, dirVars, hostVars, procVars
<1> QED BY <1>2, <1>3, <1>4

LEMMA NextHolds == Alone /\ IInv /\ [Next]_vars => IInv'
<1> SUFFICES ASSUME Alone, IInv, [Next]_vars PROVE IInv'
  OBVIOUS
<1>1. TypeOK'
  BY NextType DEF IInv
<1>2. Inner'
  <2>1. CASE UNCHANGED vars
    BY <2>1 DEF IInv, Inner, CommittedIsHealthy, OwnUnits, Passed, vars, dirVars, hostVars, procVars
  <2>2. ASSUME NEW m \in Managers,
               Check(m) \/ ActivationStep(m) \/ RollbackStep(m) \/ Operator(m) \/ Failure(m)
        PROVE  Inner'
    BY <2>2, UncommittedSteps, CommitSteps, RollbackSteps DEF ActivationStep
  <2> QED BY <2>1, <2>2, HostSteps DEF Next
<1> QED BY <1>1, <1>2 DEF IInv, Inner

\* When manager runs do not overlap, whatever fails, is flaky, is interrupted by
\* a reboot or ordered by an operator, current.json and previous.json only ever
\* name versions that passed their health checks or declare none (cmdActivate
\* saves after runHealthChecks, rollbackOverlay only what was saved before).
THEOREM CommittedHealthy == Alone => (Spec => []CommittedIsHealthy)
<1> SUFFICES ASSUME Alone PROVE Spec => []CommittedIsHealthy
  OBVIOUS
<1>1. IInv /\ [Next]_vars => IInv'
  BY NextHolds
<1>2. IInv => CommittedIsHealthy
  BY DEF IInv
<1> QED BY <1>1, <1>2, InitHolds, PTL DEF Spec
----------------------------------------------------------------------------
(* What is committed is kept, and the status is true.                      *)

\* The units of the committed version can be written at every boot.
BootsWell == "bootfail" \notin Disturbances

\* Where the gc root of current.json is being replaced.
Window == {"unroot", "root", "rbunroot", "rbroot"}

\* What the state files name is in the store. The gc root of the current
\* version is that version's but for the window; the previous version has its
\* own, or is the current one too (a crash in the middle of a rotation or at
\* the end of a rollback), or the current one's while current.json is torn.
Rooted ==
    /\ previous \in Sure => /\ previous \in store
                           /\ \/ rootPrev = previous \/ current = previous
                              \/ rootCur = previous /\ current = Torn
    /\ current \in Sure => current \in store
    /\ \A m \in Managers : host = "up" /\ current \in Sure /\ pc[m] \notin Window => rootCur = current
    /\ current = NoFile => previous = NoFile

\* What runs is in the store; nothing runs before the boot unit has.
RunsStored ==
    /\ running # None => running \in store
    /\ host = "boot" => running = None

\* Meanwhile the version runs, and the previous one has its own gc root.
CarriedForward(m) ==
    /\ pc[m] \in Committing \cup {"unroot", "root", "clear"} => running = want[m] \/ want[m] \in Unprobed
    /\ pc[m] \in {"unprev", "prev"} => previous = current /\ back[m] = rootCur
    /\ pc[m] \in {"save", "saving", "unroot", "root"} /\ previous \in Sure => rootPrev = previous
    /\ pc[m] \in {"unroot", "root", "clear"} => current = want[m]

\* The target of a rollback stays the previous version until it is rooted as
\* the current one, and runs before it is written.
CarriedBack(m) ==
    /\ pc[m] \in Returning \ {"rbunprev", "rbdone"} => previous = back[m]
    /\ pc[m] \in {"rbeval", "rbreload", "rbstart"} => running = None
    /\ pc[m] = "rbreload" => units = back[m]
    /\ pc[m] = "rbstart" => loaded = back[m]
    /\ pc[m] \in {"rbsave", "rbsaving", "rbunroot", "rbroot"} /\ back[m] \in Sure => running = back[m]
    /\ pc[m] \in {"rbunroot", "rbroot", "rbdrop", "rbunprev", "rbdone"} => current = back[m]
    /\ pc[m] \in {"rbunprev", "rbdone"} => previous = NoFile

Carried(m) == CarriedForward(m) /\ CarriedBack(m)

\* A manager that has nothing to do finds a true status.
Truthful(m) ==
    host = "up" /\ pc[m] \in {"idle", "decide"} /\ state = "permanent" /\ current \notin Unprobed \cup refused
        => running = LoadStateFile(current)

\* The inductive invariant on top of IInv.
KeptInv == Rooted /\ RunsStored /\ \A m \in Managers : Carried(m) /\ Truthful(m)

LEMMA InitKept == Init => KeptInv
<1> SUFFICES ASSUME Init PROVE KeptInv
  OBVIOUS
<1>1. Rooted /\ RunsStored
  BY ConstantsAssumption DEF Init, Rooted, RunsStored, Sure
<1>2. \A m \in Managers : Carried(m) /\ Truthful(m)
  BY DEF Init, Carried, CarriedForward, CarriedBack, Truthful, Committing, Returning
<1> QED BY <1>1, <1>2 DEF KeptInv

\* A step that leaves the files, the store, the roots and what runs alone.
LEMMA NothingMoves ==
    ASSUME Alone, IInv, KeptInv, NEW m \in Managers,
           UNCHANGED <<current, previous, rootCur, rootPrev, refused, running, host>>, store \subseteq store',
           pc[m] \notin Window
    PROVE  Rooted' /\ RunsStored'
<1>1. Managers = {m}
  BY DEF Alone
<1> QED BY <1>1 DEF KeptInv, Rooted, RunsStored, Sure

\* The steps up to the start of the services.
LEMMA StartingKept ==
    ASSUME Alone, IInv, KeptInv, NEW m \in Managers,
           \/ Check(m) \/ Decide(m) \/ Operator(m) \/ Fetch(m) \/ Provision(m) \/ StepFails(m) \/ StartFails(m)
           \/ Reload(m, "reload", "stop")
    PROVE  KeptInv'
<1>1. Managers = {m} /\ TypeOK /\ Truthful(m)
  BY DEF Alone, IInv, KeptInv
<1>2. /\ UNCHANGED <<current, previous, rootCur, rootPrev, refused, running, host>> /\ store \subseteq store'
      /\ pc[m] \notin Window
  BY DEF Window, Check, Decide, Operator, Activate, OperatorRollback, Fetch, Provision, StepFails, StartFails, Reload,
         FailActivation, dirVars, hostVars
<1>3. Rooted' /\ RunsStored'
  BY <1>2, NothingMoves
<1>4. pc'[m] \in {"idle", "decide", "fetch", "eval", "reload", "stop", "rollback"}
  BY <1>1 DEF TypeOK, Check, Decide, Operator, Activate, OperatorRollback, Fetch, Provision, StepFails,
              StartFails, Reload, FailActivation, Exit, Goto
<1>5. Carried(m)'
  BY <1>4 DEF Carried, CarriedForward, CarriedBack, Committing, Returning
<1>6. Truthful(m)'
  <2>1. CASE Check(m)
    BY <1>1, <1>2, <2>1 DEF Truthful, Check, dirVars
  <2>2. CASE Decide(m)
    BY <1>1, <1>2, <2>2 DEF Truthful, Decide
  <2>3. CASE Operator(m)
    BY <1>1, <2>3 DEF Truthful, TypeOK, Operator, Activate, OperatorRollback, Goto
  <2>4. CASE Fetch(m) \/ Reload(m, "reload", "stop") \/ StartFails(m)
    BY <1>1, <2>4 DEF Truthful, TypeOK, Fetch, Reload, StartFails, Goto
  <2>5. CASE Provision(m)
    BY <1>1, <2>5 DEF Truthful, TypeOK, Provision, FailActivation, Goto
  <2>6. CASE StepFails(m)
    BY <2>6 DEF Truthful, StepFails, FailActivation
  <2> QED BY <2>1, <2>2, <2>3, <2>4, <2>5, <2>6
<1> QED BY <1>1, <1>3, <1>5, <1>6 DEF KeptInv

\* The services are stopped, started and probed: what runs after a start is in
\* the store, and what passes is the version in hand.
LEMMA ServiceKept ==
    ASSUME Alone, IInv, KeptInv, NEW m \in Managers, Stop(m) \/ Start(m) \/ Health(m)
    PROVE  KeptInv'
<1>1. Managers = {m} /\ TypeOK /\ OwnUnits(m)
  BY DEF Alone, IInv
<1>2. /\ UNCHANGED <<current, previous, rootCur, rootPrev, store, refused, host>>
      /\ pc[m] \in {"stop", "start", "health"}
  BY DEF Stop, Start, Health, dirVars, hostVars
<1>3. Rooted'
  BY <1>1, <1>2 DEF KeptInv, Rooted, Sure, Window
<1>4. host = "up"
  BY <1>2 DEF IInv, TypeOK
<1>5. RunsStored'
  BY <1>2, <1>4 DEF KeptInv, RunsStored, Stop, Start, Health, Started, hostVars
<1>6. pc'[m] \in {"start", "health", "rollback", "rotate"}
  BY <1>1 DEF TypeOK, Stop, Start, Health, Goto
<1>7. pc'[m] = "rotate" => running' = want'[m] \/ want'[m] \in Unprobed
  <2> SUFFICES ASSUME pc'[m] = "rotate" PROVE running' = want'[m] \/ want'[m] \in Unprobed
    OBVIOUS
  <2>1. Health(m) /\ (want[m] \in Unprobed \/ running \in Healthy)
    BY <1>1 DEF TypeOK, Stop, Start, Health, HealthChecksPass, Goto
  <2>2. want[m] \in Unprobed \/ running = want[m]
    BY <1>1, <2>1, ConstantsAssumption DEF OwnUnits, Health
  <2> QED BY <2>1, <2>2 DEF Health, hostVars
<1>8. Carried(m)' /\ Truthful(m)'
  BY <1>6, <1>7 DEF Carried, CarriedForward, CarriedBack, Truthful, Committing, Returning
<1> QED BY <1>1, <1>3, <1>5, <1>8 DEF KeptInv

\* The rotation: the previous version gets the gc root of the current one.
LEMMA RotationKept ==
    ASSUME Alone, IInv, KeptInv, NEW m \in Managers, Rotation(m)
    PROVE  KeptInv'
<1>1. Managers = {m} /\ TypeOK /\ CarriedForward(m)
  BY DEF Alone, IInv, KeptInv, Carried
<1>2. /\ UNCHANGED <<running, host, current, rootCur, want>> /\ store \subseteq store' /\ refused \subseteq refused'
      /\ pc[m] \in {"rotate", "rotating", "unprev", "prev"}
      /\ pc'[m] \in Committing
  <2>1. RotateRoots(m) => back[m] \in Versions
    BY <1>1 DEF RotateRoots, TypeOK, Maybe
  <2> QED BY <1>1, <2>1, RegistersFacts
    DEF Rotation, RotateTruncates, RotateWrites, RotateUnroots, RotateRoots, hostVars, TypeOK, Goto, Committing
<1>3. host = "up"
  BY <1>2 DEF IInv, TypeOK
<1>4. /\ current \in Sure => current \in store /\ rootCur = current
      /\ current = NoFile => previous = NoFile
      /\ Sure' \subseteq Sure /\ {None, NoFile, Torn} \cap Sure = {}
  BY <1>1, <1>2, <1>3, ConstantsAssumption DEF KeptInv, Rooted, Window, Sure
<1>5. RunsStored'
  BY <1>2 DEF KeptInv, RunsStored
<1>6. Rooted' /\ CarriedForward(m)'
  <2>0. running' = want'[m] \/ want'[m] \in Unprobed
    BY <1>1, <1>2 DEF CarriedForward, Committing
  <2>1. CASE RotateTruncates(m)
    <3>1. Rooted'
      BY <1>1, <1>2, <1>4, <2>1 DEF Rooted, RotateTruncates
    <3>2. pc'[m] \in {"save", "rotating"} /\ (pc'[m] = "save" => previous' = NoFile)
      BY <1>1, <1>4, <2>1 DEF RotateTruncates, TypeOK, Goto
    <3> QED BY <1>4, <2>0, <3>1, <3>2 DEF CarriedForward
  <2>2. CASE RotateWrites(m)
    <3>1. Rooted'
      BY <1>1, <1>2, <1>4, <2>2 DEF Rooted, RotateWrites
    <3>2. /\ previous' = current /\ back'[m] = rootCur
          /\ pc'[m] = IF rootCur = None THEN "save" ELSE "unprev"
      BY <1>1, <2>2 DEF RotateWrites, TypeOK, Goto
    <3> QED BY <1>2, <1>4, <2>0, <3>1, <3>2 DEF CarriedForward
  <2>3. CASE RotateUnroots(m)
    <3>1. previous = current /\ back[m] = rootCur /\ UNCHANGED <<previous, back>> /\ pc'[m] = "prev"
      BY <1>1, <2>3 DEF CarriedForward, RotateUnroots, TypeOK, Goto
    <3>2. Rooted'
      BY <1>1, <1>2, <1>4, <3>1 DEF Rooted
    <3> QED BY <1>2, <2>0, <3>1, <3>2 DEF CarriedForward
  <2>4. CASE RotateRoots(m)
    <3>1. previous = current /\ rootPrev' = rootCur /\ UNCHANGED previous /\ pc'[m] = "save"
      BY <1>1, <2>4 DEF CarriedForward, RotateRoots, TypeOK, Goto
    <3>2. Rooted'
      BY <1>1, <1>2, <1>4, <3>1 DEF Rooted
    <3> QED BY <1>2, <1>4, <2>0, <3>1, <3>2 DEF CarriedForward
  <2> QED BY <2>1, <2>2, <2>3, <2>4 DEF Rotation
<1>7. CarriedBack(m)' /\ Truthful(m)'
  BY <1>2 DEF CarriedBack, Truthful, Committing, Returning
<1> QED BY <1>1, <1>5, <1>6, <1>7 DEF KeptInv, Carried

\* The commit: the new version runs until its gc root is in place.
LEMMA CommitKept ==
    ASSUME Alone, IInv, KeptInv, NEW m \in Managers,
           \/ Truncate(m, "save", "saving") \/ Write(m, "saving", want[m], "unroot")
           \/ Unroot(m, "unroot", "root") \/ Root(m, "root", want[m], "clear") \/ Committed(m)
    PROVE  KeptInv'
<1>1. Managers = {m} /\ TypeOK /\ CarriedForward(m)
  BY DEF Alone, IInv, KeptInv, Carried
<1>2. pc[m] \in {"save", "saving", "unroot", "root", "clear"} /\ want[m] \in Versions
  BY <1>1 DEF Truncate, Write, Unroot, Root, Committed, TypeOK, Activating, Maybe
<1>3. UNCHANGED <<running, host, previous, rootPrev>> /\ store \subseteq store' /\ refused \subseteq refused'
  BY <1>1, <1>2, RegistersFacts DEF Truncate, Write, Unroot, Root, Committed, hostVars
<1>4. host = "up"
  BY <1>2 DEF IInv, TypeOK
<1>5. /\ running = want[m] \/ want[m] \in Unprobed
      /\ Sure' \subseteq Sure /\ {None, NoFile, Torn} \cap Sure = {}
      /\ want[m] \in Sure => want[m] \in store
      /\ previous \in Sure /\ pc[m] # "clear" => previous \in store /\ rootPrev = previous
  BY <1>1, <1>2, <1>3, ConstantsAssumption DEF CarriedForward, Committing, KeptInv, RunsStored, Rooted, Sure
<1>6. RunsStored'
  BY <1>3 DEF KeptInv, RunsStored
<1>7. CASE Truncate(m, "save", "saving")
  <2>1. current' = Torn /\ pc'[m] = "saving" /\ UNCHANGED want
    BY <1>1, <1>7 DEF Truncate, TypeOK, Goto
  <2>2. Rooted'
    BY <1>1, <1>2, <1>3, <1>5, <1>7, <2>1, ConstantsAssumption DEF Rooted, Truncate
  <2>3. Carried(m)' /\ Truthful(m)'
    BY <1>3, <1>5, <1>7, <2>1 DEF Carried, CarriedForward, CarriedBack, Truthful, Committing, Returning, Truncate
  <2> QED BY <1>1, <1>6, <2>2, <2>3 DEF KeptInv
<1>8. CASE Write(m, "saving", want[m], "unroot")
  <2>1. current' = want[m] /\ pc'[m] = "unroot" /\ UNCHANGED want
    BY <1>1, <1>8 DEF Write, TypeOK, Goto
  <2>2. Rooted'
    BY <1>1, <1>2, <1>3, <1>5, <1>8, <2>1, ConstantsAssumption DEF Rooted, Write, Window
  <2>3. Carried(m)' /\ Truthful(m)'
    BY <1>3, <1>5, <1>8, <2>1 DEF Carried, CarriedForward, CarriedBack, Truthful, Committing, Returning, Write
  <2> QED BY <1>1, <1>6, <2>2, <2>3 DEF KeptInv
<1>9. CASE Unroot(m, "unroot", "root")
  <2>1. current = want[m] /\ current' = current /\ pc'[m] = "root" /\ UNCHANGED want
    BY <1>1, <1>9 DEF CarriedForward, Unroot, TypeOK, Goto
  <2>2. Rooted'
    BY <1>1, <1>2, <1>3, <1>5, <1>9, <2>1, ConstantsAssumption DEF Rooted, Unroot, Window
  <2>3. Carried(m)' /\ Truthful(m)'
    BY <1>3, <1>5, <1>9, <2>1 DEF Carried, CarriedForward, CarriedBack, Truthful, Committing, Returning, Unroot
  <2> QED BY <1>1, <1>6, <2>2, <2>3 DEF KeptInv
<1>10. CASE Root(m, "root", want[m], "clear")
  <2>1. current = want[m] /\ current' = current /\ rootCur' = current /\ pc'[m] = "clear" /\ UNCHANGED want
    BY <1>1, <1>10 DEF CarriedForward, Root, TypeOK, Goto
  <2>2. Rooted'
    BY <1>1, <1>2, <1>3, <1>5, <1>10, <2>1, ConstantsAssumption DEF Rooted, Root
  <2>3. Carried(m)' /\ Truthful(m)'
    BY <1>3, <1>5, <2>1 DEF Carried, CarriedForward, CarriedBack, Truthful, Committing, Returning
  <2> QED BY <1>1, <1>6, <2>2, <2>3 DEF KeptInv
<1>11. CASE Committed(m)
  <2>1. current = want[m] /\ UNCHANGED <<current, rootCur, store, refused>> /\ pc[m] = "clear" /\ pc'[m] = "idle"
    BY <1>1, <1>11 DEF CarriedForward, Committed, Exit, TypeOK, Goto, hostVars
  <2>2. Rooted'
    BY <1>1, <1>3, <2>1 DEF KeptInv, Rooted, Sure, Window
  <2>3. Carried(m)'
    BY <2>1 DEF Carried, CarriedForward, CarriedBack, Committing, Returning
  <2>4. Truthful(m)'
    BY <1>2, <1>3, <1>5, <2>1 DEF Truthful, LoadStateFile
  <2> QED BY <1>1, <1>6, <2>2, <2>3, <2>4 DEF KeptInv
<1> QED BY <1>7, <1>8, <1>9, <1>10, <1>11

\* The rollback: its target stays the previous version until it is rooted as
\* the current one, and runs when current.json is written.
LEMMA RollbackKept ==
    ASSUME Alone, IInv, KeptInv, NEW m \in Managers, RollbackStep(m) \/ RollbackEvalFails(m)
    PROVE  KeptInv'
<1>1. Managers = {m} /\ TypeOK /\ CarriedBack(m) /\ Rooted
  BY DEF Alone, IInv, KeptInv, Carried
<1>2. pc[m] \in Returning \cup {"rollback"} /\ (pc[m] \in Returning => back[m] \in Versions)
  BY <1>1 DEF RollbackStep, RollBack, RollbackProvision, Reload, RollbackStart, Truncate, Write, Unroot, Root,
              RollbackDrops, RollbackUnroots, RolledBack, RollbackEvalFails, Returning, TypeOK, Maybe
<1>3. UNCHANGED host /\ host = "up" /\ store \subseteq store' /\ refused \subseteq refused'
  <2>1. host = "up"
    BY <1>2 DEF IInv, TypeOK, Returning
  <2>2. Root(m, "rbroot", back[m], "rbdrop") => back[m] \in Versions
    BY <1>2 DEF Root, Returning
  <2> QED BY <1>1, <2>1, <2>2, RegistersFacts
    DEF RollbackStep, RollBack, RollbackFailed, RollbackProvision, Reload, RollbackStart, Truncate, Write, Unroot,
        Root, RollbackDrops, RollbackUnroots, RolledBack, RollbackEvalFails, dirVars, hostVars
<1>4. RunsStored'
  BY <1>3
  DEF KeptInv, RunsStored, Started, RollbackStep, RollBack, RollbackProvision, Reload, RollbackStart, Truncate,
      Write, Unroot, Root, RollbackDrops, RollbackUnroots, RolledBack, RollbackEvalFails, hostVars
<1>5. Sure' \subseteq Sure /\ {None, NoFile, Torn} \cap Sure = {}
  BY <1>3, ConstantsAssumption DEF Sure
<1>6. CASE RollBack(m)
  <2>1. /\ UNCHANGED <<current, previous, rootCur, rootPrev, refused, store>> /\ pc[m] = "rollback"
        /\ \/ pc'[m] = "idle" /\ state' = "failed"
           \/ pc'[m] = "rbeval" /\ back'[m] = previous /\ running' = None
    BY <1>1, <1>6 DEF RollBack, RollbackFailed, Exit, Goto, TypeOK, dirVars
  <2>2. Rooted'
    BY <1>1, <1>3, <2>1 DEF Rooted, Sure, Window
  <2>3. Carried(m)' /\ Truthful(m)'
    BY <2>1 DEF Carried, CarriedForward, CarriedBack, Truthful, Committing, Returning
  <2> QED BY <1>1, <1>4, <2>2, <2>3 DEF KeptInv
<1>7. CASE RollbackProvision(m) \/ RollbackEvalFails(m)
  <2>1. /\ UNCHANGED <<current, previous, rootCur, rootPrev, refused, store, running>> /\ pc[m] = "rbeval"
        /\ \/ pc'[m] = "idle" /\ state' = "failed"
           \/ pc'[m] = "rbreload" /\ UNCHANGED back /\ units' = back[m]
    BY <1>1, <1>7 DEF RollbackProvision, RollbackEvalFails, RollbackFailed, GenerateUnits, Exit, Goto, TypeOK,
                      dirVars, hostVars
  <2>2. Rooted'
    BY <1>1, <1>3, <2>1 DEF Rooted, Sure, Window
  <2>3. previous = back[m] /\ running = None
    BY <1>1, <2>1 DEF CarriedBack, Returning
  <2>4. Carried(m)' /\ Truthful(m)'
    BY <2>1, <2>3 DEF Carried, CarriedForward, CarriedBack, Truthful, Committing, Returning
  <2> QED BY <1>1, <1>4, <2>2, <2>4 DEF KeptInv
<1>8. CASE Reload(m, "rbreload", "rbstart")
  <2>1. /\ UNCHANGED <<current, previous, rootCur, rootPrev, refused, store, running, back>>
        /\ pc[m] = "rbreload" /\ pc'[m] = "rbstart" /\ loaded' = units
    BY <1>1, <1>8 DEF Reload, Goto, TypeOK, dirVars
  <2>2. Rooted'
    BY <1>1, <1>3, <2>1 DEF Rooted, Sure, Window
  <2>3. previous = back[m] /\ running = None /\ units = back[m]
    BY <1>1, <2>1 DEF CarriedBack, Returning
  <2>4. Carried(m)' /\ Truthful(m)'
    BY <2>1, <2>3 DEF Carried, CarriedForward, CarriedBack, Truthful, Committing, Returning
  <2> QED BY <1>1, <1>4, <2>2, <2>4 DEF KeptInv
<1>9. CASE RollbackStart(m)
  <2>1. /\ UNCHANGED <<current, previous, rootCur, rootPrev, refused, store, back>>
        /\ pc[m] = "rbstart" /\ pc'[m] = "rbsave" /\ running' = Started
    BY <1>1, <1>9 DEF RollbackStart, Goto, TypeOK, dirVars
  <2>2. Rooted'
    BY <1>1, <1>3, <2>1 DEF Rooted, Sure, Window
  <2>3. previous = back[m] /\ running = None /\ loaded = back[m]
    BY <1>1, <2>1 DEF CarriedBack, Returning
  <2>4. back[m] \in Sure => running' = back[m]
    BY <1>1, <2>1, <2>3 DEF Rooted, Started
  <2>5. Carried(m)' /\ Truthful(m)'
    BY <1>5, <2>1, <2>3, <2>4 DEF Carried, CarriedForward, CarriedBack, Truthful, Committing, Returning
  <2> QED BY <1>1, <1>4, <2>2, <2>5 DEF KeptInv
<1>10. CASE Truncate(m, "rbsave", "rbsaving")
  <2>1. /\ UNCHANGED <<previous, rootCur, rootPrev, refused, store, running, back>> /\ current' = Torn
        /\ pc[m] = "rbsave" /\ pc'[m] = "rbsaving"
    BY <1>1, <1>10 DEF Truncate, Goto, TypeOK, hostVars
  <2>2. previous = back[m] /\ (back[m] \in Sure => running = back[m])
    BY <1>1, <2>1 DEF CarriedBack, Returning
  <2>3. current = previous /\ previous \in Sure => rootCur = previous
    BY <1>1, <1>3, <2>1 DEF Rooted, Window
  <2>4. Rooted'
    BY <1>1, <1>5, <2>1, <2>3, ConstantsAssumption DEF Rooted
  <2>5. Carried(m)' /\ Truthful(m)'
    BY <1>5, <2>1, <2>2 DEF Carried, CarriedForward, CarriedBack, Truthful, Committing, Returning
  <2> QED BY <1>1, <1>4, <2>4, <2>5 DEF KeptInv
<1>11. CASE Write(m, "rbsaving", back[m], "rbunroot")
  <2>1. /\ UNCHANGED <<previous, rootCur, rootPrev, refused, store, running, back>> /\ current' = back[m]
        /\ pc[m] = "rbsaving" /\ pc'[m] = "rbunroot"
    BY <1>1, <1>11 DEF Write, Goto, TypeOK, hostVars
  <2>2. previous = back[m] /\ (back[m] \in Sure => running = back[m])
    BY <1>1, <2>1 DEF CarriedBack, Returning
  <2>3. back[m] # NoFile
    BY <1>2, <2>1, ConstantsAssumption DEF Returning
  <2>4. Rooted'
    BY <1>1, <1>5, <2>1, <2>2, <2>3 DEF Rooted, Window
  <2>5. Carried(m)' /\ Truthful(m)'
    BY <1>5, <2>1, <2>2 DEF Carried, CarriedForward, CarriedBack, Truthful, Committing, Returning
  <2> QED BY <1>1, <1>4, <2>4, <2>5 DEF KeptInv
<1>12. CASE Unroot(m, "rbunroot", "rbroot") \/ Root(m, "rbroot", back[m], "rbdrop")
  <2>1. /\ UNCHANGED <<current, previous, rootPrev, running, back>> /\ pc[m] \in {"rbunroot", "rbroot"}
        /\ pc'[m] = "rbroot" \/ (pc'[m] = "rbdrop" /\ rootCur' = back[m])
    BY <1>1, <1>12 DEF Unroot, Root, Goto, TypeOK, hostVars
  <2>2. previous = back[m] /\ current = back[m] /\ (back[m] \in Sure => running = back[m])
    BY <1>1, <2>1 DEF CarriedBack, Returning
  <2>3. Rooted'
    BY <1>1, <1>3, <1>5, <2>1, <2>2 DEF Rooted, Window
  <2>4. Carried(m)' /\ Truthful(m)'
    BY <1>5, <2>1, <2>2 DEF Carried, CarriedForward, CarriedBack, Truthful, Committing, Returning
  <2> QED BY <1>1, <1>4, <2>3, <2>4 DEF KeptInv
<1>13. CASE RollbackDrops(m) \/ RollbackUnroots(m) \/ RolledBack(m)
  <2>1. /\ UNCHANGED <<current, rootCur, refused, store>> /\ pc[m] \in {"rbdrop", "rbunprev", "rbdone"}
        /\ \/ previous' = NoFile /\ pc'[m] = "rbunprev" /\ UNCHANGED <<rootPrev, back>>
           \/ UNCHANGED <<previous, back>> /\ pc[m] = "rbunprev" /\ pc'[m] = "rbdone"
           \/ UNCHANGED <<previous, rootPrev>> /\ pc'[m] = "idle" /\ state' = "rolled-back"
    BY <1>1, <1>13 DEF RollbackDrops, RollbackUnroots, RolledBack, Exit, Goto, TypeOK, hostVars
  <2>2. current = back[m] /\ (pc[m] # "rbdrop" => previous = NoFile)
    BY <1>1, <2>1 DEF CarriedBack
  <2>3. Rooted'
    BY <1>1, <1>3, <1>5, <2>1, <2>2 DEF Rooted, Sure, Window
  <2>4. Carried(m)' /\ Truthful(m)'
    BY <2>1, <2>2 DEF Carried, CarriedForward, CarriedBack, Truthful, Committing, Returning
  <2> QED BY <1>1, <1>4, <2>3, <2>4 DEF KeptInv
<1> QED BY <1>6, <1>7, <1>8, <1>9, <1>10, <1>11, <1>12, <1>13 DEF RollbackStep

\* The host: a reboot forgets what runs, a boot starts and roots what is
\* committed, and a collection keeps what is rooted or runs.
LEMMA HostKept ==
    ASSUME Alone, BootsWell, IInv, KeptInv,
           Reboot \/ Boot \/ BootEvalFails \/ NixGC \/ Tick \/ \E v \in Versions : Publish(v)
    PROVE  KeptInv'
<1>0. /\ Managers = {Timer} /\ TypeOK /\ Carried(Timer) /\ Truthful(Timer) /\ Rooted /\ RunsStored
      /\ host = "boot" => pc[Timer] = "idle"
  BY DEF Alone, IInv, KeptInv
<1>1. CASE Reboot
  <2>1. \A m \in Managers : pc'[m] = "idle"
    BY <1>1 DEF Reboot
  <2>2. Rooted' /\ RunsStored'
    BY <1>0, <1>1 DEF Rooted, RunsStored, Reboot, dirVars, Sure
  <2> QED BY <1>1, <2>1, <2>2
    DEF KeptInv, Carried, CarriedForward, CarriedBack, Truthful, Committing, Returning, Reboot
<1>2. CASE Boot
  <2>1. /\ running = None /\ pc[Timer] = "idle" /\ host' = "up"
        /\ UNCHANGED <<current, previous, rootPrev, pc, want, back>>
    BY <1>0, <1>2 DEF RunsStored, Boot, procVars
  <2>2. store \subseteq store' /\ refused \subseteq refused'
    <3>1. LoadStateFile(current) \in store => LoadStateFile(current) \in Versions
      BY <1>0 DEF TypeOK
    <3> QED BY <1>0, <1>2, <3>1, RegistersFacts DEF Boot, Evaluates
  <2>3. Sure' \subseteq Sure
    BY <2>2 DEF Sure
  <2>4. Carried(Timer)'
    BY <2>1 DEF Carried, CarriedForward, CarriedBack, Committing, Returning
  <2>5. CASE LoadStateFile(current) \in store
    <3>1. current \in Versions /\ LoadStateFile(current) = current
      BY <1>0, <2>5, ConstantsAssumption DEF LoadStateFile, TypeOK
    <3>2. rootCur' = current /\ running' = current
      BY <1>2, <2>1, <2>5, <3>1 DEF Boot, Evaluates
    <3>3. current # Torn
      BY <3>1, ConstantsAssumption
    <3>4. Rooted' /\ RunsStored'
      BY <1>0, <2>1, <2>2, <2>3, <2>5, <3>1, <3>2, <3>3 DEF Rooted, RunsStored
    <3>5. Truthful(Timer)'
      BY <2>1, <3>1, <3>2 DEF Truthful, LoadStateFile
    <3> QED BY <1>0, <2>4, <3>4, <3>5 DEF KeptInv
  <2>6. CASE LoadStateFile(current) \notin store
    <3>1. UNCHANGED <<rootCur, store, refused>>
      BY <1>2, <2>6 DEF Boot, Evaluates
    <3>2. running' \in store \cup {None} /\ (LoadStateFile(current) = None => running' = None)
      BY <1>2, <2>1, <2>6 DEF Boot, Evaluates, Started
    <3>3. current \notin Sure
      BY <1>0, <2>6 DEF Rooted, LoadStateFile, Sure
    <3>4. Rooted' /\ RunsStored'
      BY <1>0, <2>1, <3>1, <3>2, <3>3 DEF Rooted, RunsStored, Sure
    <3>5. Truthful(Timer)'
      BY <2>1, <3>1, <3>2, <3>3 DEF Truthful, LoadStateFile, Sure
    <3> QED BY <1>0, <2>4, <3>4, <3>5 DEF KeptInv
  <2> QED BY <2>5, <2>6
<1>3. CASE BootEvalFails
  BY <1>3 DEF BootEvalFails, BootsWell, Disturb
<1>4. CASE NixGC
  <2>1. /\ UNCHANGED <<current, previous, rootCur, rootPrev, refused, running, host, state, pc, want, back, units, loaded>>
        /\ host = "up"
    BY <1>4 DEF NixGC, dirVars, procVars
  <2>2. /\ \A v \in Sure : v \in store /\ v \in {rootCur, rootPrev, running} => v \in store'
        /\ running \in store => running \in store'
    BY <1>4 DEF NixGC, Sure
  <2>3. RunsStored'
    BY <1>0, <2>1, <2>2 DEF RunsStored
  <2>4. current \in Sure => current \in store /\ current \in {rootCur, rootPrev, running}
    <3> SUFFICES ASSUME current \in Sure PROVE current \in {rootCur, rootPrev, running}
      BY <1>0 DEF Rooted
    <3>1. CASE pc[Timer] \in {"unroot", "root"}
      BY <1>0, <3>1 DEF Carried, CarriedForward, Sure
    <3>2. CASE pc[Timer] \in {"rbunroot", "rbroot"}
      BY <1>0, <3>2 DEF Carried, CarriedBack
    <3>3. CASE pc[Timer] \notin Window
      BY <1>0, <2>1, <3>3 DEF Rooted
    <3> QED BY <3>1, <3>2, <3>3 DEF Window
  <2>5. Rooted'
    <3>1. current \in Sure => current \in store'
      BY <2>2, <2>4
    <3>2. previous \in Sure => previous \in store'
      BY <1>0, <2>2, <3>1 DEF Rooted
    <3> QED BY <1>0, <2>1, <3>1, <3>2 DEF Rooted, Sure
  <2>6. Carried(Timer)' /\ Truthful(Timer)'
    BY <1>0, <2>1 DEF Carried, CarriedForward, CarriedBack, Truthful, Sure
  <2> QED BY <1>0, <2>3, <2>5, <2>6 DEF KeptInv
<1>5. CASE Tick \/ \E v \in Versions : Publish(v)
  <2>1. UNCHANGED <<current, previous, rootCur, rootPrev, refused, state, hostVars, procVars>>
    BY <1>5 DEF Tick, Publish, dirVars
  <2> QED BY <2>1
    DEF KeptInv, Rooted, RunsStored, Carried, CarriedForward, CarriedBack, Truthful, Sure, hostVars, procVars
<1> QED BY <1>1, <1>2, <1>3, <1>4, <1>5

LEMMA NextKept == ASSUME Alone, BootsWell, IInv, KeptInv, [Next]_vars PROVE KeptInv'
<1>1. CASE UNCHANGED vars
  BY <1>1 DEF KeptInv, Rooted, RunsStored, Carried, CarriedForward, CarriedBack, Truthful, Sure, vars, dirVars,
              hostVars, procVars
<1>2. ASSUME NEW m \in Managers,
             Check(m) \/ ActivationStep(m) \/ RollbackStep(m) \/ Operator(m) \/ Failure(m)
      PROVE  KeptInv'
  BY <1>2, StartingKept, ServiceKept, RotationKept, CommitKept, RollbackKept DEF ActivationStep, Failure
<1> QED BY <1>1, <1>2, HostKept DEF Next

LEMMA KeptInvariant == ASSUME Alone, BootsWell PROVE Spec => [](IInv /\ KeptInv)
<1>1. IInv /\ KeptInv /\ [Next]_vars => (IInv /\ KeptInv)'
  BY NextHolds, NextKept
<1> QED BY <1>1, InitHolds, InitKept, PTL DEF Spec

\* When manager runs do not overlap and the units of the committed version can
\* be written at boot, no store collection takes a version of current.json or
\* previous.json away that declares a health check and whose gc roots nix accepted
\* (Sure), at whatever step of an activation or a rollback it or a reboot comes.
THEOREM CommittedKept == Alone /\ BootsWell => (Spec => []CommittedIsKept)
<1> SUFFICES ASSUME Alone, BootsWell PROVE Spec => []CommittedIsKept
  OBVIOUS
<1>1. KeptInv => CommittedIsKept
  BY DEF KeptInv, Rooted, CommittedIsKept
<1> QED BY <1>1, KeptInvariant, PTL

\* Under the same conditions an overlay whose state says "permanent" runs the
\* version of current.json whenever no manager is at work: a rollback or a
\* reboot in the middle of an activation never leaves a status that is wrong.
THEOREM StatusTruthful == Alone /\ BootsWell => (Spec => []StatusIsTruthful)
<1> SUFFICES ASSUME Alone, BootsWell PROVE Spec => []StatusIsTruthful
  OBVIOUS
<1>1. KeptInv => StatusIsTruthful
  BY ConstantsAssumption DEF KeptInv, Truthful, StatusIsTruthful, Quiet
<1> QED BY <1>1, KeptInvariant, PTL
=============================================================================
