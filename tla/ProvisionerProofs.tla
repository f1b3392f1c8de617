------------------------- MODULE ProvisionerProofs -------------------------
(***************************************************************************)
(* Proofs about Provisioner, for any hosts, devices and bounds.            *)
(*                                                                         *)
(* TypeOK is inductive as it stands. OneClaimant needs to know that an     *)
(* arming which is still to be claimed, in memory, in state.json or by an  *)
(* arm request under way, has not been answered before (ClaimInv).         *)
(*                                                                         *)
(* OwnArchive, CompletedIsWhole and the refinement need that no host is    *)
(* armed while the broker is about to write or to serve its archive        *)
(* (NoOverlap): then the files of a host, the preparations that write them *)
(* and the downloads that read them belong to the one claim that a lease,  *)
(* in memory or on disk, can have for the host (FileInv).                  *)
(***************************************************************************)
EXTENDS Provisioner, TLAPS, SequenceTheorems

\* No arm of a host overlaps the work for an earlier claim of it.
NoOverlap == Disturbances \cap {"rearm", "overtake"} = {}

Answered(t) == claims[t].answered

\* A lease the broker has, or comes back to: its arm is nobody's to be, and as
\* long as it is unclaimed it was never answered.
Unused(l) ==
    l # NoLease =>
        /\ l.arm <= arms /\ l.token <= Len(claims)
        /\ \A h \in Hosts : l.arm \notin arming[h]
        /\ l.token = None => \A t \in 1 .. Len(claims) : Answered(t) => claims[t].arm # l.arm

\* Arm requests under way are all different and have never been claimed.
ArmingInv ==
    /\ \A h \in Hosts : \A a \in arming[h] : a <= arms /\ \A t \in 1 .. Len(claims) : claims[t].arm # a
    /\ \A g, h \in Hosts : g # h => arming[g] \cap arming[h] = {}

\* The inductive invariant of OneClaimant.
ClaimInv ==
    /\ TypeOK
    /\ OneClaimant
    /\ Unused(lease) /\ Unused(saved)
    /\ ArmingInv
    /\ \A t \in 1 .. Len(claims) : claims[t].arm <= arms

\* The broker is about to write the archive of the preparation's host.
Active(p) == p.at \in {"start", "build", "tar"}

\* A claim and what carries its token agree on the host; while a preparation
\* is under way for it, the claim is neither completed nor completable.
Agrees(l) ==
    l # NoLease /\ l.token # None =>
        /\ \A d \in Devices : dev[d].token = l.token => dev[d].host = l.host
        /\ \A p \in preps : p.token = l.token => p.host = l.host /\ l.preparing /\ ~l.completed

\* If a lease has the host h, it is claimed with the token t.
Only(h, t) == \A l \in {lease, saved} : l # NoLease /\ l.host = h => l.token = t

\* An archive belongs to the claim of its host, and is whole once completed.
Fits(l) ==
    l # NoLease =>
        /\ archive[l.host] \in Tokens => l.token = archive[l.host]
        /\ l.completed => archive[l.host] \in {l.token, None}

\* A claim that was answered is saved.
Remembered ==
    lease # NoLease /\ lease.token # None /\ Answered(lease.token) =>
        saved # NoLease /\ saved.token = lease.token /\ saved.host = lease.host

\* What a preparation reads, builds and writes is of its own claim.
PrepInv(p) ==
    /\ p.token <= Len(claims)
    /\ p.at # "over" => ~p.ok
    /\ Active(p) => arming[p.host] = {} /\ Only(p.host, p.token)
    /\ p.at = "start" => report[p.host] = p.token
    /\ p.at \in {"build", "tar"} => p.built = p.token
    /\ lease # NoLease /\ lease.token = p.token =>
         /\ p.at = "unlinked" => archive[p.host] = None
         /\ p.at = "over" /\ p.ok => archive[p.host] \in {p.token, None}

\* A device holds an answered token; what it is about to be served is its own.
DeviceInv(d) ==
    /\ dev[d].token # None => dev[d].token <= Len(claims) /\ Answered(dev[d].token)
    /\ dev[d].at = "serving" =>
         /\ arming[dev[d].host] = {} /\ Only(dev[d].host, dev[d].token)
         /\ \A p \in preps : p.host = dev[d].host /\ Active(p) => p.token = dev[d].token
         /\ archive[dev[d].host] \in Tokens => archive[dev[d].host] = dev[d].token

\* The part of the inductive invariant about files.
FileInv ==
    /\ Agrees(lease) /\ Agrees(saved)
    /\ Fits(lease) /\ Fits(saved)
    /\ Remembered
    /\ \A h \in Hosts : arming[h] # {} => archive[h] = None
    /\ \A p, q \in preps : p.token = q.token => p = q
    /\ \A p \in preps : PrepInv(p)
    /\ \A d \in Devices : DeviceInv(d)
    /\ OwnArchive

IInv == ClaimInv /\ FileInv
----------------------------------------------------------------------------
(* Facts about the operators.                                              *)

ClaimRec == [arm : Arms, answered : BOOLEAN]
DevRec == [at : {"asking", "claimed", "polling", "serving", "unpacked", "installed", "stopped"},
           token : Tokens \cup {None}, host : Hosts, got : Tokens \cup {None}]

\* A disturbance stays within its bound.
LEMMA DisturbType ==
    ASSUME TypeOK, NEW kind, Disturb(kind)
    PROVE  disturbed' \in 0 .. MaxDisturb
BY ConstantsAssumption DEF TypeOK, Disturb

\* Whatever comes of a save, state.json holds a lease or none.
LEMMA SaveType ==
    ASSUME TypeOK, SaveTried \/ SaveFails \/ (Saved /\ UNCHANGED disturbed), lease' \in Leases \cup {NoLease}
    PROVE  saved' \in Leases \cup {NoLease} /\ disturbed' \in 0 .. MaxDisturb
<1>1. CASE SaveFails
  BY <1>1, DisturbType DEF TypeOK, SaveFails
<1>2. CASE Saved /\ UNCHANGED disturbed
  BY <1>2 DEF TypeOK, Saved
<1> QED BY <1>1, <1>2 DEF SaveTried

\* A claim adds one record behind those there are.
LEMMA ClaimAppends ==
    ASSUME TypeOK, NEW b \in BOOLEAN, Claim(b)
    PROVE  /\ lease \in Leases
           /\ claims' \in Seq(ClaimRec)
           /\ Len(claims') = Len(claims) + 1
           /\ \A t \in 1 .. Len(claims) : claims'[t] = claims[t]
           /\ claims'[Len(claims) + 1] = [arm |-> lease.arm, answered |-> b]
           /\ NewToken = Len(claims) + 1 /\ NewToken \in Tokens
<1> DEFINE c == [arm |-> lease.arm, answered |-> b]
<1>1. lease \in Leases /\ NewToken \in Tokens /\ claims' = Append(claims, c)
  BY DEF TypeOK, Claim, Claimable
<1>2. c \in ClaimRec
  BY <1>1 DEF Leases, ClaimRec
<1>3. claims \in Seq(ClaimRec)
  BY DEF TypeOK, ClaimRec
<1> QED BY <1>1, <1>2, <1>3, AppendProperties DEF NewToken

\* The length of the list of claims, and its members.
LEMMA ClaimsType ==
    ASSUME TypeOK
    PROVE  /\ Len(claims) \in Nat
           /\ \A t \in 1 .. Len(claims) : claims[t] \in ClaimRec
<1>1. claims \in Seq(ClaimRec)
  BY DEF TypeOK, ClaimRec
<1> QED BY <1>1, ElementOfSeq, LenProperties

\* A device that waits for its first answer.
LEMMA AskingType == Asking \in DevRec
BY ConstantsAssumption DEF Asking, DevRec, None

----------------------------------------------------------------------------
(* Type correctness.                                                       *)

LEMMA InitType == Init => TypeOK
<1> SUFFICES ASSUME Init PROVE TypeOK
  OBVIOUS
<1>1. dev \in [Devices -> DevRec] /\ \A d \in Devices : dev[d] = Asking
  BY AskingType DEF Init
<1>2. claims \in Seq(ClaimRec) /\ Len(claims) = 0
  BY EmptySeq DEF Init
<1>3. \A d \in Devices : /\ dev[d].at = "asking" <=> dev[d].token = None
                         /\ dev[d].at \in {"unpacked", "installed"} <=> dev[d].got # None
  BY <1>1 DEF Asking
<1> QED BY <1>1, <1>2, <1>3, ConstantsAssumption DEF Init, TypeOK, DevRec, ClaimRec, None

LEMMA OperatorType == ASSUME TypeOK, Operator PROVE TypeOK'
<1>1. ASSUME NEW h \in Hosts, ArmRemoves(h) PROVE TypeOK'
  <2>1. disturbed' \in 0 .. MaxDisturb
    BY <1>1, DisturbType DEF ArmRemoves, TypeOK
  <2>2. preps' \subseteq Preparations
    BY <1>1 DEF ArmRemoves, TypeOK, Preparations
  <2>3. arms' \in 0 .. MaxArms /\ arming' \in [Hosts -> SUBSET Arms] /\ lapsed' \in 0 .. arms'
    BY <1>1, ConstantsAssumption DEF ArmRemoves, TypeOK, Arms, clockVars
  <2> QED BY <1>1, <2>1, <2>2, <2>3 DEF ArmRemoves, TypeOK, clockVars, None
<1>2. ASSUME NEW h \in Hosts, NEW a \in arming[h], ArmLeases(h, a) PROVE TypeOK'
  <2>1. lease' \in Leases
    BY <1>2 DEF ArmLeases, TypeOK, Leases, None
  <2>2. saved' \in Leases \cup {NoLease} /\ disturbed' \in 0 .. MaxDisturb
    BY <1>2, <2>1, SaveType DEF ArmLeases
  <2> QED BY <1>2, <2>1, <2>2 DEF ArmLeases, TypeOK, clockVars
<1>3. CASE Disarm
  BY <1>3, SaveType DEF Disarm, TypeOK, clockVars
<1> QED BY <1>1, <1>2, <1>3 DEF Operator

\* What a device's step leaves of its record.
LEMMA MovesType ==
    ASSUME TypeOK, NEW d \in Devices, NEW where \in {"claimed", "polling", "serving", "stopped"},
           dev[d].at \notin {"asking", "unpacked", "installed"}, Moves(d, where)
    PROVE  /\ dev' \in [Devices -> DevRec]
           /\ \A e \in Devices : /\ dev'[e].at = "asking" <=> dev'[e].token = None
                                 /\ dev'[e].at \in {"unpacked", "installed"} <=> dev'[e].got # None
BY DEF TypeOK, Moves, DevRec

LEMMA ActivateType == ASSUME TypeOK, NEW d \in Devices, Activate(d) PROVE TypeOK'
<1>1. PICK b \in BOOLEAN : Claim(b)
  BY DEF Activate
<1>2. lease' \in Leases
  BY <1>1, ClaimAppends DEF Claim, Leases
<1>3. saved' \in Leases \cup {NoLease} /\ disturbed' \in 0 .. MaxDisturb
  BY <1>2, SaveType, DisturbType DEF Activate, Saved
<1>4. /\ claims' \in Seq(ClaimRec) /\ Len(claims') <= MaxClaims
      /\ ended' \in 0 .. Len(claims')
  <2>1. claims' \in Seq(ClaimRec) /\ Len(claims') = Len(claims) + 1 /\ Len(claims) + 1 \in 1 .. MaxClaims
    BY <1>1, ClaimAppends DEF Tokens
  <2>2. ended' = ended /\ ended \in 0 .. Len(claims) /\ Len(claims) \in Nat /\ MaxClaims \in Nat
    BY <1>1, ClaimsType, ConstantsAssumption DEF Claim, TypeOK, clockVars
  <2> QED BY <2>1, <2>2
<1>5. /\ dev' \in [Devices -> DevRec]
      /\ \A e \in Devices : /\ dev'[e].at = "asking" <=> dev'[e].token = None
                            /\ dev'[e].at \in {"unpacked", "installed"} <=> dev'[e].got # None
  <2>1. CASE UNCHANGED dev
    BY <2>1 DEF TypeOK, DevRec
  <2>2. CASE Holds(d)
    <3>1. [at |-> "claimed", token |-> NewToken, host |-> lease.host, got |-> None] \in DevRec
      BY <1>1, ClaimAppends DEF DevRec, Leases
    <3>2. NewToken # None
      <4>1. NewToken \in Tokens
        BY <1>1, ClaimAppends
      <4> QED BY <4>1, ConstantsAssumption DEF Tokens, None
    <3> QED BY <2>2, <3>1, <3>2 DEF TypeOK, Holds, DevRec
  <2> QED BY <2>1, <2>2 DEF Activate
<1> QED BY <1>1, <1>2, <1>3, <1>4, <1>5 DEF Claim, TypeOK, DevRec, ClaimRec, clockVars

\* An accepted or a failed report leaves the broker's state well formed.
LEMMA ReportType ==
    ASSUME TypeOK, NEW t \in Tokens, NEW kind, Accepts(t, kind) \/ Errs(t)
    PROVE  /\ {lease', saved'} \subseteq Leases \cup {NoLease}
           /\ report' \in [Hosts -> Tokens \cup {None}]
           /\ preps' \subseteq Preparations
<1>1. lease \in Leases
  BY DEF TypeOK, Accepts, Errs, Completable, Valid
<1>2. lease' \in Leases
  BY <1>1 DEF Accepts, Errs, Leases
<1>3. saved' \in Leases \cup {NoLease}
  BY <1>2 DEF TypeOK, Accepts, Errs, Saved, SaveFails
<1>4. report' \in [Hosts -> Tokens \cup {None}]
  BY <1>1 DEF TypeOK, Accepts, Errs, WritesReport, Leases
<1>5. preps' \subseteq Preparations
  <2> DEFINE p == [token |-> t, host |-> lease.host, at |-> "start", built |-> None, ok |-> FALSE]
  <2>1. p \in Preparations
    BY <1>1 DEF Leases, Preparations
  <2>2. preps' = preps \cup {p} \/ UNCHANGED preps
    BY DEF Accepts, Errs, StartsPreparation
  <2> QED BY <2>1, <2>2 DEF TypeOK
<1> QED BY <1>2, <1>3, <1>4, <1>5

LEMMA CompleteType == ASSUME TypeOK, NEW d \in Devices, Complete(d) \/ ReportAgain(d) PROVE TypeOK'
<1>1. dev[d].token \in Tokens /\ dev[d].at \in {"claimed", "polling"}
  BY DEF TypeOK, Complete, ReportAgain
<1>2. disturbed' \in 0 .. MaxDisturb
  BY DisturbType DEF TypeOK, Complete, ReportAgain, Errs, SaveFails
<1>3. /\ {lease', saved'} \subseteq Leases \cup {NoLease}
      /\ report' \in [Hosts -> Tokens \cup {None}]
      /\ preps' \subseteq Preparations
  BY <1>1, ReportType DEF TypeOK, Complete, ReportAgain
<1>4. /\ dev' \in [Devices -> DevRec]
      /\ \A e \in Devices : /\ dev'[e].at = "asking" <=> dev'[e].token = None
                            /\ dev'[e].at \in {"unpacked", "installed"} <=> dev'[e].got # None
  <2>1. CASE UNCHANGED dev
    BY <2>1 DEF TypeOK, DevRec
  <2>2. CASE \E where \in {"polling", "stopped"} : Moves(d, where)
    BY <1>1, <2>2, MovesType
  <2> QED BY <2>1, <2>2 DEF Complete, ReportAgain
<1> QED BY <1>2, <1>3, <1>4 DEF TypeOK, Complete, ReportAgain, DevRec, clockVars

LEMMA DownloadType ==
    ASSUME TypeOK, NEW d \in Devices, BootstrapChecks(d) \/ BootstrapServes(d) \/ Installs(d) \/ PowerCycle(d)
    PROVE  TypeOK'
<1>1. disturbed' \in 0 .. MaxDisturb
  BY DisturbType DEF TypeOK, BootstrapChecks, BootstrapServes, Installs, PowerCycle
<1>2. /\ dev' \in [Devices -> DevRec]
      /\ \A e \in Devices : /\ dev'[e].at = "asking" <=> dev'[e].token = None
                            /\ dev'[e].at \in {"unpacked", "installed"} <=> dev'[e].got # None
  <2>1. CASE BootstrapChecks(d)
    BY <2>1, MovesType DEF BootstrapChecks
  <2>2. CASE BootstrapServes(d)
    <3> DEFINE a == archive[dev[d].host]
    <3>1. /\ dev[d] \in DevRec /\ dev[d].at = "serving" /\ dev[d].token # None
          /\ a \in Tokens \cup {None, Partial}
      BY <2>2 DEF TypeOK, BootstrapServes, DevRec
    <3>2. dev' = [dev EXCEPT ![d].at = IF a = None THEN "polling" ELSE IF a = Partial THEN "stopped" ELSE "unpacked",
                             ![d].got = IF a = Partial THEN None ELSE a]
      BY <2>2 DEF BootstrapServes
    <3>3. Partial # None
      BY ConstantsAssumption DEF None
    <3>4. dev \in [Devices -> DevRec]
      BY DEF TypeOK, DevRec
    <3>5. CASE a = None
      BY <3>1, <3>2, <3>3, <3>4, <3>5 DEF TypeOK, DevRec
    <3>6. CASE a = Partial
      BY <3>1, <3>2, <3>3, <3>4, <3>6 DEF TypeOK, DevRec
    <3>7. CASE a \in Tokens /\ a # None /\ a # Partial
      BY <3>1, <3>2, <3>4, <3>7 DEF TypeOK, DevRec
    <3> QED BY <3>1, <3>5, <3>6, <3>7
  <2>3. CASE PowerCycle(d)
    BY <2>3, AskingType DEF TypeOK, PowerCycle, DevRec, Asking
  <2>4. CASE Installs(d)
    <3>1. /\ dev \in [Devices -> DevRec] /\ dev[d] \in DevRec
          /\ dev[d].at = "unpacked" /\ dev[d].got # None /\ dev[d].token # None
      BY <2>4 DEF TypeOK, Installs, DevRec
    <3>2. CASE Moves(d, "installed")
      BY <3>1, <3>2 DEF TypeOK, Moves, DevRec
    <3>3. CASE dev' = [dev EXCEPT ![d].at = "stopped", ![d].got = None]
      BY <3>1, <3>3 DEF TypeOK, DevRec
    <3> QED BY <2>4, <3>2, <3>3 DEF Installs
  <2> QED BY <2>1, <2>2, <2>3, <2>4
<1> QED BY <1>1, <1>2 DEF TypeOK, BootstrapChecks, BootstrapServes, Installs, PowerCycle, DevRec, brokerVars, clockVars

LEMMA PrepareType == ASSUME TypeOK, NEW p \in preps, Prepare(p) PROVE TypeOK'
<1>1. disturbed' \in 0 .. MaxDisturb /\ {lease', saved'} \subseteq Leases \cup {NoLease}
  <2>1. CASE PrepEnds(p)
    <3>1. lease' \in Leases \cup {NoLease}
      <4>1. p \in Preparations /\ p.ok \in BOOLEAN /\ lease \in Leases \cup {NoLease}
        BY DEF TypeOK, Preparations
      <4>2. CASE lease # NoLease /\ lease' = [lease EXCEPT !.preparing = FALSE, !.failed = ~p.ok, !.completed = @ \/ p.ok]
        <5>1. lease \in Leases
          BY <4>1, <4>2
        <5> QED BY <4>1, <4>2, <5>1 DEF Leases
      <4> QED BY <2>1, <4>1, <4>2 DEF PrepEnds
    <3> QED BY <2>1, <3>1, SaveType DEF TypeOK, PrepEnds
  <2> QED BY <2>1, DisturbType
    DEF TypeOK, Prepare, PrepReads, PrepOpens, PrepWrites, PrepWritesUnlinked, PrepFails, PrepUnchanged
<1>2. preps' \subseteq Preparations /\ archive' \in [Hosts -> Tokens \cup {None, Partial}]
  <2>1. /\ p \in Preparations /\ preps \subseteq Preparations
        /\ archive \in [Hosts -> Tokens \cup {None, Partial}] /\ report \in [Hosts -> Tokens \cup {None}]
    BY DEF TypeOK
  <2>2. p.host \in Hosts /\ p.built \in Tokens \cup {None}
    BY <2>1 DEF Preparations
  <2>3. archive' \in [Hosts -> Tokens \cup {None, Partial}]
    BY <2>1, <2>2 DEF Prepare, PrepReads, PrepOpens, PrepWrites, PrepWritesUnlinked, PrepFails, PrepEnds
  <2>4. /\ [p EXCEPT !.at = "over"] \in Preparations /\ [p EXCEPT !.at = "tar"] \in Preparations
        /\ [p EXCEPT !.at = "build", !.built = report[p.host]] \in Preparations
        /\ \A b \in BOOLEAN : [p EXCEPT !.at = "over", !.ok = b] \in Preparations
    BY <2>1, <2>2 DEF Preparations
  <2>5. (\E q \in Preparations : Becomes(p, q)) \/ preps' = preps \ {p}
    <3>1. PrepReads(p) \/ PrepOpens(p) \/ PrepFails(p) => \E q \in Preparations : Becomes(p, q)
      BY <2>4 DEF PrepReads, PrepOpens, PrepFails
    <3>2. PrepWrites(p) => \E q \in Preparations : Becomes(p, q)
      BY <2>4 DEF PrepWrites
    <3>3. PrepWritesUnlinked(p) => \E q \in Preparations : Becomes(p, q)
      BY <2>4 DEF PrepWritesUnlinked
    <3> QED BY <3>1, <3>2, <3>3 DEF Prepare, PrepEnds
  <2>6. preps' \subseteq Preparations
    BY <2>1, <2>5 DEF Becomes
  <2> QED BY <2>3, <2>6
<1> QED BY <1>1, <1>2
  DEF TypeOK, Prepare, PrepReads, PrepOpens, PrepWrites, PrepWritesUnlinked, PrepFails, PrepEnds, PrepUnchanged, clockVars

LEMMA WorldType == ASSUME TypeOK, Crash \/ WindowLapses \/ ClaimEnds PROVE TypeOK'
<1>1. CASE Crash
  <2> DEFINE After(d) == IF dev[d].at = "serving" THEN [dev[d] EXCEPT !.at = "polling"] ELSE dev[d]
  <2>1. dev' = [d \in Devices |-> After(d)]
    BY <1>1 DEF Crash
  <2>2. ASSUME NEW d \in Devices
        PROVE  /\ After(d) \in DevRec
               /\ After(d).at = "asking" <=> After(d).token = None
               /\ After(d).at \in {"unpacked", "installed"} <=> After(d).got # None
    <3>1. dev[d] \in DevRec
      BY DEF TypeOK, DevRec
    <3>2. /\ dev[d].at = "asking" <=> dev[d].token = None
          /\ dev[d].at \in {"unpacked", "installed"} <=> dev[d].got # None
      BY DEF TypeOK
    <3> QED BY <3>1, <3>2 DEF DevRec
  <2> HIDE DEF After
  <2>3. /\ dev' \in [Devices -> DevRec]
        /\ \A d \in Devices : /\ dev'[d].at = "asking" <=> dev'[d].token = None
                              /\ dev'[d].at \in {"unpacked", "installed"} <=> dev'[d].got # None
    BY <2>1, <2>2
  <2> QED BY <1>1, <2>3, DisturbType DEF TypeOK, Crash, DevRec, clockVars
<1>2. CASE WindowLapses
  BY <1>2, ConstantsAssumption DEF TypeOK, WindowLapses, brokerVars
<1>3. CASE ClaimEnds
  BY <1>3, ClaimsType DEF TypeOK, ClaimEnds, brokerVars
<1> QED BY <1>1, <1>2, <1>3

LEMMA NextType == TypeOK /\ [Next]_vars => TypeOK'
<1> SUFFICES ASSUME TypeOK, [Next]_vars PROVE TypeOK'
  OBVIOUS
<1>1. CASE UNCHANGED vars
  BY <1>1 DEF TypeOK, vars, brokerVars, clockVars
<1>2. ASSUME NEW d \in Devices, Client(d) PROVE TypeOK'
  BY <1>2, ActivateType, CompleteType, DownloadType DEF Client
<1> QED BY <1>1, <1>2, OperatorType, PrepareType, WorldType DEF Next

\* The broker, its preparations and its clients keep the state well formed,
\* whatever fails or overlaps: in particular every client past its claim has a
\* token, and exactly the installed ones have an archive.
THEOREM TypeCorrect == Spec => []TypeOK
BY InitType, NextType, PTL DEF Spec

----------------------------------------------------------------------------
(* One claimant.                                                           *)

\* x is the claim of l, if it is a lease at all.
SameClaim(x, l) == x # NoLease => l # NoLease /\ x.arm = l.arm /\ x.token = l.token /\ x.host = l.host

\* A lease that is the claim of an unused one is unused.
LEMMA SameUnused ==
    ASSUME NEW x, NEW l, Unused(l), SameClaim(x, l)
    PROVE  Unused(x)
BY DEF Unused, SameClaim

\* A step that neither arms nor claims, whatever it does to the lease it has.
LEMMA KeepsClaims ==
    ASSUME ClaimInv, TypeOK', UNCHANGED <<arms, claims>>,
           arming' = arming \/ arming' = [h \in Hosts |-> {}],
           SameClaim(lease', lease) \/ SameClaim(lease', saved),
           SameClaim(saved', lease) \/ SameClaim(saved', saved)
    PROVE  ClaimInv'
<1>1. \A h \in Hosts : arming'[h] \subseteq arming[h]
  OBVIOUS
<1>2. \A l : Unused(l) => (\A x : SameClaim(x, l) /\ x # NoLease =>
        /\ x.arm <= arms' /\ x.token <= Len(claims')
        /\ \A h \in Hosts : x.arm \notin arming'[h]
        /\ x.token = None => \A t \in 1 .. Len(claims') : claims'[t].answered => claims'[t].arm # x.arm)
  BY <1>1 DEF Unused, SameClaim, Answered
<1>3. Unused(lease)' /\ Unused(saved)'
  BY <1>2 DEF Unused, Answered, ClaimInv
<1>4. ArmingInv'
  BY <1>1 DEF ClaimInv, ArmingInv
<1> QED BY <1>3, <1>4 DEF ClaimInv, OneClaimant

LEMMA InitClaims == Init => ClaimInv
<1> SUFFICES ASSUME Init PROVE ClaimInv
  OBVIOUS
<1>1. Len(claims) = 0
  BY EmptySeq DEF Init
<1> QED BY <1>1, InitType DEF Init, ClaimInv, OneClaimant, Unused, ArmingInv

LEMMA ArmRemovesClaims == ASSUME ClaimInv, TypeOK', NEW h \in Hosts, ArmRemoves(h) PROVE ClaimInv'
<1>1. /\ arms \in Nat /\ arms' = arms + 1 /\ UNCHANGED <<lease, saved, claims>>
      /\ arming' = [arming EXCEPT ![h] = @ \cup {arms + 1}]
      /\ arming \in [Hosts -> SUBSET Arms] /\ {lease, saved} \subseteq Leases \cup {NoLease}
  BY ConstantsAssumption DEF ClaimInv, TypeOK, ArmRemoves
<1>2. \A g \in Hosts : \A a \in arming'[g] : a \in arming[g] \/ (g = h /\ a = arms + 1)
  BY <1>1
<1>3. \A t \in 1 .. Len(claims) : claims[t].arm \in Nat /\ claims[t].arm <= arms
  BY ClaimsType DEF ClaimInv, ClaimRec, Arms
<1>4. ArmingInv'
  BY <1>1, <1>2, <1>3 DEF ClaimInv, ArmingInv, Arms
<1>5. \A l \in {lease, saved} : l # NoLease => l.arm \in Nat /\ l.arm <= arms
  BY <1>1 DEF ClaimInv, Unused, Leases, Arms
<1>6. Unused(lease)' /\ Unused(saved)'
  BY <1>1, <1>2, <1>5 DEF ClaimInv, Unused, Answered
<1> QED BY <1>1, <1>3, <1>4, <1>6 DEF ClaimInv, OneClaimant

LEMMA ArmLeasesClaims ==
    ASSUME ClaimInv, TypeOK', NEW h \in Hosts, NEW a \in arming[h], ArmLeases(h, a)
    PROVE  ClaimInv'
<1>1. /\ UNCHANGED <<arms, claims>> /\ arming' = [arming EXCEPT ![h] = @ \ {a}]
      /\ arming \in [Hosts -> SUBSET Arms]
      /\ lease' # NoLease /\ lease'.arm = a /\ lease'.token = None
      /\ saved' \in {saved, lease'}
  <2>1. lease' \in Leases
    BY DEF ClaimInv, TypeOK, ArmLeases, Leases, None
  <2> QED BY <2>1, ConstantsAssumption DEF ClaimInv, TypeOK, ArmLeases, SaveTried, Saved, SaveFails
<1>2. \A g \in Hosts : arming'[g] \subseteq arming[g] /\ a \notin arming'[g]
  BY <1>1 DEF ClaimInv, ArmingInv
<1>3. ArmingInv'
  BY <1>1, <1>2 DEF ClaimInv, ArmingInv
<1>4. Unused(lease)'
  BY <1>1, <1>2, ClaimsType DEF ClaimInv, ArmingInv, Unused, Answered, None
<1>5. Unused(saved)'
  BY <1>1, <1>2, <1>4 DEF ClaimInv, Unused, Answered
<1> QED BY <1>1, <1>3, <1>4, <1>5 DEF ClaimInv, OneClaimant

LEMMA ActivateClaims == ASSUME ClaimInv, TypeOK', NEW d \in Devices, Activate(d) PROVE ClaimInv'
<1>1. PICK b \in BOOLEAN : Claim(b) /\ (b => Saved) /\ (~b => SaveFails)
  BY DEF Activate
<1> DEFINE n == Len(claims)
<1>2. /\ lease \in Leases /\ Claimable /\ n \in Nat
      /\ Len(claims') = n + 1 /\ claims'[n + 1] = [arm |-> lease.arm, answered |-> b]
      /\ \A t \in 1 .. n : claims'[t] = claims[t]
      /\ NewToken = n + 1
  BY <1>1, ClaimAppends, ClaimsType DEF ClaimInv, Claim
<1>3. /\ UNCHANGED <<arms, arming>> /\ lease' = [lease EXCEPT !.token = n + 1]
  BY <1>1, <1>2 DEF Claim
<1>4. /\ lease' # NoLease /\ lease'.arm = lease.arm /\ lease'.token = n + 1
      /\ lease # NoLease /\ lease.token = None
  <2>1. lease' \in Leases /\ lease'.arm = lease.arm /\ lease'.token = n + 1
    BY <1>1, <1>2, <1>3, ClaimAppends DEF ClaimInv, Leases
  <2> QED BY <1>2, <2>1, ConstantsAssumption DEF Claimable
<1>5. \A t \in 1 .. n + 1 : t \in 1 .. n \/ t = n + 1
  BY <1>2
<1>6. \A t \in 1 .. n : Answered(t) => claims[t].arm # lease.arm
  BY <1>4 DEF ClaimInv, Unused
<1>7. OneClaimant'
  BY <1>2, <1>5, <1>6 DEF ClaimInv, OneClaimant, Answered
<1>8. ArmingInv'
  BY <1>2, <1>3, <1>4, <1>5 DEF ClaimInv, ArmingInv, Unused
<1>9. Unused(lease)'
  BY <1>2, <1>3, <1>4 DEF ClaimInv, Unused, None
<1>10. Unused(saved)'
  <2>1. CASE b
    BY <1>1, <1>9, <2>1 DEF Saved, Unused, Answered
  <2>2. CASE ~b
    <3>1. saved' = saved /\ (saved # NoLease => saved.token \in Nat)
      BY <1>1, <2>2 DEF SaveFails, ClaimInv, TypeOK, Leases, Tokens, None
    <3> QED BY <1>2, <1>3, <1>5, <2>2, <3>1 DEF ClaimInv, Unused, Answered
  <2> QED BY <2>1, <2>2
<1>11. \A t \in 1 .. Len(claims') : claims'[t].arm <= arms'
  BY <1>2, <1>3, <1>4, <1>5 DEF ClaimInv, Unused
<1> QED BY <1>7, <1>8, <1>9, <1>10, <1>11 DEF ClaimInv

\* Every other step keeps the claims and the leases that there are.
LEMMA OtherClaims ==
    ASSUME ClaimInv, TypeOK',
           \/ Disarm \/ Crash \/ WindowLapses \/ ClaimEnds \/ UNCHANGED vars
           \/ \E p \in preps : Prepare(p)
           \/ \E d \in Devices :
                Complete(d) \/ ReportAgain(d) \/ BootstrapChecks(d) \/ BootstrapServes(d) \/ Installs(d) \/ PowerCycle(d)
    PROVE  /\ UNCHANGED <<arms, claims>>
           /\ arming' = arming \/ arming' = [h \in Hosts |-> {}]
           /\ SameClaim(lease', lease) \/ (Crash /\ SameClaim(lease', saved))
           /\ saved' \in {lease', saved}
<1>0. lease \in Leases \cup {NoLease}
  BY DEF ClaimInv, TypeOK
<1>1. CASE Disarm \/ Crash \/ WindowLapses \/ ClaimEnds \/ UNCHANGED vars
  BY <1>1 DEF Disarm, Crash, WindowLapses, ClaimEnds, vars, brokerVars, SameClaim, SaveTried, Saved, SaveFails
<1>2. ASSUME NEW p \in preps, Prepare(p)
      PROVE  UNCHANGED <<arms, claims, arming>> /\ SameClaim(lease', lease) /\ saved' \in {lease', saved}
  BY <1>0, <1>2
  DEF Prepare, PrepReads, PrepOpens, PrepWrites, PrepWritesUnlinked, PrepFails, PrepEnds, PrepUnchanged,
      SameClaim, SaveTried, Saved, SaveFails, Leases
<1>3. ASSUME NEW d \in Devices, Complete(d) \/ ReportAgain(d)
      PROVE  UNCHANGED <<arms, claims, arming>> /\ SameClaim(lease', lease) /\ saved' \in {lease', saved}
  BY <1>0, <1>3
  DEF Complete, ReportAgain, Accepts, Errs, Completable, Valid, SameClaim, Saved, SaveFails, Leases
<1>4. ASSUME NEW d \in Devices, BootstrapChecks(d) \/ BootstrapServes(d) \/ Installs(d) \/ PowerCycle(d)
      PROVE  UNCHANGED <<arms, claims, arming>> /\ SameClaim(lease', lease) /\ saved' \in {lease', saved}
  BY <1>4 DEF BootstrapChecks, BootstrapServes, Installs, PowerCycle, SameClaim, brokerVars
<1> QED BY <1>1, <1>2, <1>3, <1>4

LEMMA NextClaims == ClaimInv /\ [Next]_vars => ClaimInv'
<1> SUFFICES ASSUME ClaimInv, [Next]_vars PROVE ClaimInv'
  OBVIOUS
<1>1. TypeOK'
  BY NextType DEF ClaimInv
<1>2. \A x : SameClaim(x, x)
  BY DEF SameClaim
<1>3. CASE \/ Disarm \/ Crash \/ WindowLapses \/ ClaimEnds \/ UNCHANGED vars
           \/ \E p \in preps : Prepare(p)
           \/ \E d \in Devices :
                Complete(d) \/ ReportAgain(d) \/ BootstrapChecks(d) \/ BootstrapServes(d) \/ Installs(d) \/ PowerCycle(d)
  BY <1>1, <1>2, <1>3, OtherClaims, KeepsClaims
<1> QED BY <1>1, <1>3, ArmRemovesClaims, ArmLeasesClaims, ActivateClaims DEF Next, Operator, Client

\* An arming is answered with a token at most once: for any hosts, devices and
\* bounds, whatever fails to be saved, crashes, is lost or overlaps (activate
\* answers only after the claim is in state.json).
THEOREM ClaimedOnce == Spec => []OneClaimant
<1>1. ClaimInv => OneClaimant
  BY DEF ClaimInv
<1> QED BY <1>1, InitClaims, NextClaims, PTL DEF Spec

----------------------------------------------------------------------------
(* The files of a host.                                                    *)

\* The types that the steps below need.
LEMMA FileTypes ==
    ASSUME ClaimInv
    PROVE  /\ lease # NoLease => lease \in Leases /\ lease.host \in Hosts /\ lease.token \in Tokens \cup {None}
           /\ saved # NoLease => saved \in Leases /\ saved.host \in Hosts /\ saved.token \in Tokens \cup {None}
           /\ \A p \in preps : p.host \in Hosts /\ p.token \in Tokens
           /\ \A d \in Devices : dev[d].host \in Hosts /\ dev[d].token \in Tokens \cup {None}
           /\ archive \in [Hosts -> Tokens \cup {None, Partial}]
           /\ Len(claims) \in Nat
           /\ None \notin Tokens /\ Partial \notin Tokens /\ Partial # None /\ NoLease \notin Leases
BY ClaimsType, ConstantsAssumption DEF ClaimInv, TypeOK, Leases, Preparations, Tokens, None

LEMMA InitFiles == Init => FileInv
<1> SUFFICES ASSUME Init PROVE FileInv
  OBVIOUS
<1>1. \A d \in Devices : dev[d].at = "asking" /\ dev[d].token = None
  BY DEF Init, Asking
<1> QED BY <1>1 DEF Init, FileInv, Agrees, Fits, Remembered, OwnArchive, DeviceInv

\* Steps that change neither files nor preparations nor devices.
LEMMA IdleFiles ==
    ASSUME IInv, Disarm \/ WindowLapses \/ ClaimEnds \/ UNCHANGED vars
    PROVE  FileInv'
<1>1. /\ UNCHANGED <<arming, preps, report, archive, dev, claims>>
      /\ UNCHANGED <<lease, saved>> \/ (lease' = NoLease /\ saved' \in {NoLease, saved})
  BY DEF Disarm, WindowLapses, ClaimEnds, vars, brokerVars, SaveTried, Saved, SaveFails
<1>2. \A h, t : Only(h, t) => Only(h, t)'
  BY <1>1 DEF Only
<1>3. \A p \in preps : PrepInv(p)'
  BY <1>1, <1>2 DEF IInv, FileInv, PrepInv
<1>4. \A d \in Devices : DeviceInv(d)'
  BY <1>1, <1>2 DEF IInv, FileInv, DeviceInv, Answered
<1> QED BY <1>1, <1>3, <1>4 DEF IInv, FileInv, Agrees, Fits, Remembered, OwnArchive, Answered

\* The broker starts again from state.json, without preparations or requests.
LEMMA CrashFiles == ASSUME IInv, Crash PROVE FileInv'
<1>1. /\ lease' = saved /\ saved' = saved /\ arming' = [h \in Hosts |-> {}] /\ preps' = {}
      /\ UNCHANGED <<report, archive, claims>>
      /\ \A d \in Devices : /\ dev'[d].token = dev[d].token /\ dev'[d].host = dev[d].host
                            /\ dev'[d].got = dev[d].got /\ dev'[d].at # "serving"
                            /\ dev'[d].at \in {"unpacked", "installed"} => dev[d].at \in {"unpacked", "installed"}
  BY DEF Crash, IInv, ClaimInv, TypeOK
<1> QED BY <1>1
  DEF IInv, FileInv, Agrees, Fits, Remembered, OwnArchive, DeviceInv, Answered

\* arm clears the host, for which nothing is about to be written or served.
LEMMA ArmRemovesFiles == ASSUME IInv, NoOverlap, NEW h \in Hosts, ArmRemoves(h) PROVE FileInv'
<1>1. /\ ~PreparationOf(h) /\ ~ServingOf(h)
      /\ archive' = [archive EXCEPT ![h] = None]
      /\ report' = [report EXCEPT ![h] = None]
      /\ arming' = [arming EXCEPT ![h] = @ \cup {arms + 1}]
      /\ preps' = {IF p.host = h /\ p.at = "tar" THEN [p EXCEPT !.at = "unlinked"] ELSE p : p \in preps}
      /\ UNCHANGED <<lease, saved, dev, claims>>
  BY DEF ArmRemoves, NoOverlap, Disturb
<1>2. /\ arming \in [Hosts -> SUBSET Arms] /\ archive \in [Hosts -> Tokens \cup {None, Partial}]
      /\ report \in [Hosts -> Tokens \cup {None}] /\ preps \subseteq Preparations
  BY DEF IInv, ClaimInv, TypeOK
<1>3. \A q \in preps' : \E p \in preps :
        /\ q.token = p.token /\ q.host = p.host /\ q.built = p.built /\ q.ok = p.ok
        /\ \/ q = p /\ ~(p.host = h /\ Active(p))
           \/ p.host = h /\ p.at = "tar" /\ q.at = "unlinked"
  BY <1>1, <1>2 DEF PreparationOf, Active, Preparations
<1>4. \A q, r \in preps' : q.token = r.token => q = r
  BY <1>1, <1>2 DEF IInv, FileInv, Preparations
<1>5. \A g \in Hosts : g # h => archive'[g] = archive[g] /\ report'[g] = report[g] /\ arming'[g] = arming[g]
  BY <1>1, <1>2
<1>6. archive'[h] = None /\ \A g \in Hosts : archive'[g] # None => g # h
  BY <1>1, <1>2
<1>7. \A q \in preps' : PrepInv(q)'
  <2> SUFFICES ASSUME NEW q \in preps' PROVE PrepInv(q)'
    OBVIOUS
  <2>1. PICK p \in preps :
        /\ q.token = p.token /\ q.host = p.host /\ q.built = p.built /\ q.ok = p.ok
        /\ \/ q = p /\ ~(p.host = h /\ Active(p))
           \/ p.host = h /\ p.at = "tar" /\ q.at = "unlinked"
    BY <1>3
  <2>2. PrepInv(p) /\ p.host \in Hosts
    BY FileTypes DEF IInv, FileInv
  <2>3. CASE p.host = h
    BY <1>1, <1>6, <2>1, <2>2, <2>3 DEF PrepInv, Active
  <2>4. CASE p.host # h
    BY <1>1, <1>5, <2>1, <2>2, <2>4 DEF PrepInv, Active, Only
  <2> QED BY <2>3, <2>4
<1>8. \A d \in Devices : DeviceInv(d)'
  <2> SUFFICES ASSUME NEW d \in Devices PROVE DeviceInv(d)'
    OBVIOUS
  <2>1. DeviceInv(d) /\ dev[d].host \in Hosts /\ (dev[d].at = "serving" => dev[d].host # h)
    BY <1>1, FileTypes DEF IInv, FileInv, ServingOf
  <2> QED BY <1>1, <1>3, <1>5, <2>1 DEF DeviceInv, Only, Answered, Active
<1>9. Agrees(lease)' /\ Agrees(saved)'
  BY <1>1, <1>3 DEF IInv, FileInv, Agrees
<1>10. Fits(lease)' /\ Fits(saved)'
  BY <1>1, <1>5, <1>6, FileTypes DEF IInv, FileInv, Fits
<1>11. \A g \in Hosts : arming'[g] # {} => archive'[g] = None
  BY <1>5, <1>6 DEF IInv, FileInv
<1> QED BY <1>1, <1>4, <1>7, <1>8, <1>9, <1>10, <1>11 DEF IInv, FileInv, Remembered, OwnArchive, Answered

\* The new lease of a host finds its files removed.
LEMMA ArmLeasesFiles ==
    ASSUME IInv, NEW h \in Hosts, NEW a \in arming[h], ArmLeases(h, a)
    PROVE  FileInv'
<1>1. /\ lease' \in Leases /\ lease'.host = h /\ lease'.token = None /\ ~lease'.completed
      /\ saved' \in {saved, lease'}
      /\ arming' = [arming EXCEPT ![h] = @ \ {a}]
      /\ UNCHANGED <<preps, report, archive, dev, claims>>
  BY DEF IInv, ClaimInv, TypeOK, ArmLeases, SaveTried, Saved, SaveFails, Leases, None
<1>2. \A g \in Hosts : arming'[g] \subseteq arming[g]
  BY <1>1 DEF IInv, ClaimInv, TypeOK
<1>3. arming[h] # {} /\ archive[h] = None
  BY DEF IInv, FileInv
<1>4. \A p \in preps : Active(p) => p.host # h
  BY <1>3 DEF IInv, FileInv, PrepInv
<1>5. \A d \in Devices : dev[d].at = "serving" => dev[d].host # h
  BY <1>3 DEF IInv, FileInv, DeviceInv
<1>6. \A g \in Hosts : \A t : g # h /\ Only(g, t) => Only(g, t)'
  BY <1>1 DEF Only
<1>7. \A p \in preps : PrepInv(p)'
  BY <1>1, <1>2, <1>4, <1>6, FileTypes DEF IInv, FileInv, PrepInv
<1>8. \A d \in Devices : DeviceInv(d)'
  BY <1>1, <1>2, <1>5, <1>6, FileTypes DEF IInv, FileInv, DeviceInv, Answered
<1>9. Agrees(lease)' /\ Fits(lease)' /\ Agrees(saved)' /\ Fits(saved)'
  BY <1>1, <1>3, FileTypes DEF IInv, FileInv, Agrees, Fits
<1> QED BY <1>1, <1>2, <1>7, <1>8, <1>9, FileTypes DEF IInv, FileInv, Remembered, OwnArchive, Answered

\* A new claim takes a lease that had no token: its host has no archive of
\* anybody, and nobody is served one.
LEMMA ActivateFiles == ASSUME IInv, NEW d \in Devices, Activate(d) PROVE FileInv'
<1> DEFINE n == Len(claims)
<1>1. PICK b \in BOOLEAN : /\ Claim(b)
                           /\ b => Saved /\ (Holds(d) \/ UNCHANGED dev)
                           /\ ~b => saved' = saved /\ UNCHANGED dev
  BY DEF Activate, SaveFails
<1>2. /\ n \in Nat /\ NewToken = n + 1 /\ n + 1 \in Tokens
      /\ Len(claims') = n + 1 /\ claims'[n + 1] = [arm |-> lease.arm, answered |-> b]
      /\ \A t \in 1 .. n : claims'[t] = claims[t]
  BY <1>1, ClaimAppends, ClaimsType DEF IInv, ClaimInv
<1>3. /\ lease \in Leases /\ lease.token = None /\ lease' = [lease EXCEPT !.token = n + 1]
      /\ UNCHANGED <<arming, preps, report, archive>>
  BY <1>1, <1>2, ClaimAppends DEF IInv, ClaimInv, Claim, Claimable
<1>4. /\ lease' \in Leases /\ lease' # NoLease /\ lease # NoLease /\ lease'.host = lease.host
      /\ lease'.token = n + 1 /\ lease'.completed = lease.completed
  BY <1>2, <1>3, ConstantsAssumption DEF Leases
<1>5. /\ \A e \in Devices : dev[e].token # n + 1 /\ (dev[e].token # None => dev[e].token \in 1 .. n)
      /\ \A p \in preps : p.token # n + 1 /\ p.token \in 1 .. n
  <2>1. Tokens \subseteq Nat \ {0} /\ None = 0
    BY ConstantsAssumption DEF Tokens, None
  <2>2. \A e \in Devices : dev[e].token \in Tokens \cup {None} /\ (dev[e].token # None => dev[e].token <= n)
    BY FileTypes DEF IInv, FileInv, DeviceInv
  <2>3. \A p \in preps : p.token \in Tokens /\ p.token <= n
    BY FileTypes DEF IInv, FileInv, PrepInv
  <2>4. n \in Nat /\ \A x \in Nat : x <= n => x # n + 1 /\ (x # 0 => x \in 1 .. n)
    BY <1>2
  <2> HIDE DEF n
  <2>5. \A p \in preps : p.token \in Nat /\ p.token # 0 /\ p.token <= n
    BY <2>1, <2>3
  <2>6. ASSUME NEW e \in Devices PROVE dev[e].token \in Nat /\ dev[e].token <= n
    <3>1. CASE dev[e].token = None
      BY <2>1, <2>4, <3>1
    <3>2. CASE dev[e].token # None
      BY <2>1, <2>2, <3>2
    <3> QED BY <3>1, <3>2
  <2> QED BY <2>1, <2>4, <2>5, <2>6
<1>6. saved # NoLease => saved.token # n + 1 /\ (saved.token # None => saved.token \in 1 .. n)
  <2>1. Tokens \subseteq Nat \ {0} /\ None = 0
    BY ConstantsAssumption DEF Tokens, None
  <2>2. saved # NoLease => saved.token \in Tokens \cup {None} /\ saved.token <= n
    BY FileTypes DEF IInv, ClaimInv, Unused
  <2>3. n \in Nat /\ \A x \in Nat : x <= n => x # n + 1 /\ (x # 0 => x \in 1 .. n)
    BY <1>2
  <2> HIDE DEF n
  <2> QED BY <2>1, <2>2, <2>3
<1>7. /\ archive[lease.host] \notin Tokens
      /\ lease.completed => archive[lease.host] = None
      /\ \A p \in preps : Active(p) => p.host # lease.host
      /\ \A e \in Devices : dev[e].at = "serving" => dev[e].host # lease.host
  <2>1. \A t : Only(lease.host, t) => t = None
    BY <1>3, <1>4 DEF Only
  <2>2. \A e \in Devices : dev[e].at = "serving" => dev[e].token # None
    BY DEF IInv, ClaimInv, TypeOK
  <2> QED BY <1>3, <1>4, <2>1, <2>2, FileTypes DEF IInv, FileInv, Fits, PrepInv, DeviceInv
<1>8. saved' \in {saved, lease'} /\ (b => saved' = lease')
  BY <1>1 DEF Saved
<1>9. \A h, t : h # lease.host /\ Only(h, t) => Only(h, t)'
  BY <1>4, <1>8 DEF Only
<1>10. \A e \in Devices :
         \/ dev'[e] = dev[e]
         \/ b /\ dev'[e].at = "claimed" /\ dev'[e].token = n + 1 /\ dev'[e].host = lease.host
  BY <1>1, <1>2 DEF IInv, ClaimInv, TypeOK, Holds
<1>11. \A p \in preps : PrepInv(p)'
  <2> SUFFICES ASSUME NEW p \in preps PROVE PrepInv(p)'
    OBVIOUS
  <2>1. PrepInv(p) /\ p.token <= Len(claims') /\ p.token # lease'.token
    BY <1>2, <1>4, <1>5 DEF IInv, FileInv
  <2>2. Active(p) => Only(p.host, p.token)'
    BY <1>7, <1>9, <2>1 DEF PrepInv
  <2> QED BY <1>3, <2>1, <2>2 DEF PrepInv
<1>12. \A e \in Devices : DeviceInv(e)'
  <2> SUFFICES ASSUME NEW e \in Devices PROVE DeviceInv(e)'
    OBVIOUS
  <2>1. CASE dev'[e] = dev[e]
    BY <1>2, <1>3, <1>5, <1>7, <1>9, <2>1 DEF IInv, FileInv, DeviceInv, Answered
  <2>2. CASE b /\ dev'[e].at = "claimed" /\ dev'[e].token = n + 1 /\ dev'[e].host = lease.host
    BY <1>2, <2>2 DEF DeviceInv, Answered
  <2> QED BY <1>10, <2>1, <2>2
<1>13. Agrees(lease)' /\ Fits(lease)'
  BY <1>3, <1>4, <1>5, <1>7, <1>10, FileTypes DEF IInv, Agrees, Fits
<1>14. Agrees(saved)' /\ Fits(saved)'
  <2>1. CASE saved' = lease'
    BY <1>13, <2>1 DEF Agrees, Fits
  <2>2. CASE saved' = saved
    BY <1>3, <1>6, <1>10, <2>2 DEF IInv, FileInv, Agrees, Fits
  <2> QED BY <1>8, <2>1, <2>2
<1>15. Remembered'
  BY <1>2, <1>4, <1>8 DEF Remembered, Answered
<1>16. OwnArchive'
  BY <1>10 DEF IInv, FileInv, OwnArchive
<1> QED BY <1>3, <1>11, <1>12, <1>13, <1>14, <1>15, <1>16 DEF IInv, FileInv

\* A report of the current claim is accepted: its host is being armed by
\* nobody, and no other preparation of it is under way.
LEMMA AcceptsFiles ==
    ASSUME IInv, NEW t \in Tokens, Accepts(t, "none"), UNCHANGED <<arming, archive, claims>>,
           \A d \in Devices :
             \/ dev'[d] = dev[d]
             \/ /\ dev'[d].token = dev[d].token /\ dev'[d].host = dev[d].host
                /\ dev'[d].at \in {"polling", "stopped"}
    PROVE  FileInv'
<1> DEFINE h == lease.host
           new == [token |-> t, host |-> h, at |-> "start", built |-> None, ok |-> FALSE]
<1>1. /\ lease \in Leases /\ lease # NoLease /\ lease.token = t /\ ~lease.completed /\ ~lease.preparing
      /\ h \in Hosts /\ arming[h] = {}
      /\ report' = [report EXCEPT ![h] = t] /\ preps' = preps \cup {new}
      /\ lease' = [lease EXCEPT !.preparing = TRUE, !.failed = FALSE] /\ saved' = lease'
  BY FileTypes DEF IInv, Accepts, Completable, Valid, WritesReport, StartsPreparation, Saved
<1>2. /\ lease' \in Leases /\ lease' # NoLease /\ lease'.host = h /\ lease'.token = t
      /\ ~lease'.completed /\ lease'.preparing
  BY <1>1, FileTypes DEF IInv, Leases
<1>3. \A p \in preps : p.token # t /\ (Active(p) => p.host # h)
  BY <1>1, FileTypes DEF IInv, FileInv, Agrees, PrepInv, Only
<1>4. \A g, u : Only(g, u) => Only(g, u)'
  BY <1>1, <1>2 DEF Only
<1>5. report \in [Hosts -> Tokens \cup {None}] /\ t <= Len(claims)
  BY <1>1 DEF IInv, ClaimInv, TypeOK, Unused
<1>6. \A p \in preps' : PrepInv(p)'
  <2>1. ASSUME NEW p, p = new PROVE PrepInv(p)'
    <3>1. p.token = t /\ p.host = h /\ p.at = "start" /\ ~p.ok
      BY <2>1
    <3> QED BY <1>1, <1>2, <1>5, <3>1 DEF PrepInv, Active, Only
  <2>2. ASSUME NEW p \in preps PROVE PrepInv(p)'
    <3>1. report'[p.host] = report[p.host] \/ p.host = h
      BY <1>1, <1>5, FileTypes DEF IInv
    <3> QED BY <1>2, <1>3, <1>4, <3>1 DEF IInv, FileInv, PrepInv, Active
  <2> QED BY <1>1, <2>1, <2>2
<1>7. \A d \in Devices : DeviceInv(d)'
  <2> SUFFICES ASSUME NEW d \in Devices PROVE DeviceInv(d)'
    OBVIOUS
  <2>1. DeviceInv(d)
    BY DEF IInv, FileInv
  <2>2. CASE dev'[d] = dev[d]
    <3>1. dev[d].at = "serving" /\ dev[d].host = h => dev[d].token = t
      BY <1>1, <2>1 DEF DeviceInv, Only
    <3> QED BY <1>1, <1>4, <2>1, <2>2, <3>1 DEF DeviceInv, Answered, Active
  <2>3. CASE dev'[d] # dev[d]
    BY <2>1, <2>3 DEF DeviceInv, Answered
  <2> QED BY <2>2, <2>3
<1>8. Agrees(lease)' /\ Agrees(saved)'
  BY <1>1, <1>2, <1>3 DEF IInv, FileInv, Agrees
<1>9. Fits(lease)' /\ Fits(saved)'
  BY <1>1, <1>2 DEF IInv, FileInv, Fits
<1>10. OwnArchive'
  BY DEF IInv, FileInv, OwnArchive
<1>11. \A p, q \in preps' : p.token = q.token => p = q
  <2>1. new.token = t /\ \A p \in preps' : p \in preps \/ p = new
    BY <1>1
  <2> HIDE DEF new
  <2> QED BY <1>3, <2>1 DEF IInv, FileInv
<1>12. Remembered'
  BY <1>1, <1>2 DEF Remembered
<1>13. \A g \in Hosts : arming'[g] # {} => archive'[g] = None
  BY DEF IInv, FileInv
<1> QED BY <1>6, <1>7, <1>8, <1>9, <1>10, <1>11, <1>12, <1>13 DEF FileInv

\* A report that fails or is refused.
LEMMA ReportFiles == ASSUME IInv, NoOverlap, NEW d \in Devices, Complete(d) \/ ReportAgain(d) PROVE FileInv'
<1> DEFINE t == dev[d].token
<1>1. t \in Tokens /\ UNCHANGED <<arming, archive, claims>>
  BY DEF IInv, ClaimInv, TypeOK, Complete, ReportAgain
<1>2. \A e \in Devices :
             \/ dev'[e] = dev[e]
             \/ /\ dev'[e].token = dev[e].token /\ dev'[e].host = dev[e].host
                /\ dev'[e].at \in {"polling", "stopped"}
  BY DEF IInv, ClaimInv, TypeOK, Complete, ReportAgain, Moves
<1>3. CASE Accepts(t, "none")
  BY <1>1, <1>2, <1>3, AcceptsFiles
<1>4. CASE /\ Errs(t) \/ UNCHANGED <<lease, saved, preps, report>>
  <2>1. /\ UNCHANGED <<preps, saved>>
        /\ \/ UNCHANGED <<lease, report>>
           \/ /\ lease \in Leases /\ lease # NoLease /\ lease.token = t
              /\ lease' = [lease EXCEPT !.failed = FALSE]
              /\ report' = [report EXCEPT ![lease.host] = t]
    BY <1>4, FileTypes DEF IInv, Errs, SaveFails, WritesReport, Completable, Valid
  <2>2. \/ lease' = lease
        \/ /\ lease' \in Leases /\ lease' # NoLease /\ lease # NoLease
           /\ lease'.host = lease.host /\ lease'.token = lease.token
           /\ lease'.preparing = lease.preparing /\ lease'.completed = lease.completed
    BY <2>1, FileTypes DEF IInv, Leases
  <2>3. \A g, u : Only(g, u) => Only(g, u)'
    BY <2>1, <2>2 DEF Only
  <2>4. \A p \in preps : PrepInv(p)'
    <3> SUFFICES ASSUME NEW p \in preps PROVE PrepInv(p)'
      OBVIOUS
    <3>1. PrepInv(p) /\ p.host \in Hosts /\ report \in [Hosts -> Tokens \cup {None}]
      BY FileTypes DEF IInv, FileInv, ClaimInv, TypeOK
    <3>2. p.at = "start" => report'[p.host] = p.token
      BY <2>1, <3>1 DEF PrepInv, Active, Only
    <3> QED BY <1>1, <2>1, <2>2, <2>3, <3>1, <3>2 DEF PrepInv
  <2>5. \A e \in Devices : DeviceInv(e)'
    BY <1>1, <1>2, <2>1, <2>3 DEF IInv, FileInv, DeviceInv, Answered
  <2>6. Agrees(lease)' /\ Agrees(saved)' /\ Fits(lease)' /\ Fits(saved)' /\ Remembered'
    BY <1>1, <1>2, <2>1, <2>2 DEF IInv, FileInv, Agrees, Fits, Remembered, Answered
  <2> QED BY <1>1, <1>2, <2>1, <2>4, <2>5, <2>6 DEF IInv, FileInv, OwnArchive
<1> QED BY <1>3, <1>4 DEF Complete, ReportAgain, NoOverlap, Disturb

\* A step of a preparation, which writes the archive of its host only while it
\* is active: then the host has no other claim and no other preparation.
LEMMA BecomesFiles ==
    ASSUME IInv, NEW p \in preps, NEW q, q.token = p.token, q.host = p.host, Active(q) => Active(p),
           Becomes(p, q), UNCHANGED <<lease, saved, arming, report, dev, claims>>,
           \/ UNCHANGED archive
           \/ Active(p) /\ \E x \in {Partial, p.token} : archive' = [archive EXCEPT ![p.host] = x],
           PrepInv(q)'
    PROVE  FileInv'
<1> DEFINE h == p.host
<1>1. /\ h \in Hosts /\ p.token \in Tokens /\ PrepInv(p)
      /\ archive \in [Hosts -> Tokens \cup {None, Partial}]
      /\ Partial \notin Tokens /\ Partial # None
  BY FileTypes DEF IInv, FileInv
<1>2. /\ \A g \in Hosts : g # h => archive'[g] = archive[g]
      /\ archive' = archive \/ (Active(p) /\ archive'[h] \in {Partial, p.token})
  BY <1>1
<1>3. preps' = (preps \ {p}) \cup {q}
  BY DEF Becomes
<1>4. \A r \in preps' : r = q \/ (r \in preps /\ r # p /\ r.token # p.token)
  BY <1>3 DEF IInv, FileInv
<1>5. \A g, t : Only(g, t) => Only(g, t)'
  BY DEF Only
<1>6. ASSUME NEW l \in {lease, saved}, l # NoLease, l.host = h, archive' # archive
      PROVE  l.token = p.token /\ ~l.completed
  <2>1. l.token = p.token
    BY <1>1, <1>2, <1>6 DEF PrepInv, Only
  <2> QED BY <1>1, <1>6, <2>1, FileTypes DEF IInv, FileInv, Agrees
<1>7. Fits(lease)' /\ Fits(saved)'
  BY <1>1, <1>2, <1>6, FileTypes DEF IInv, FileInv, Fits
<1>8. Agrees(lease)' /\ Agrees(saved)'
  BY <1>3 DEF IInv, FileInv, Agrees
<1>9. \A r \in preps' : PrepInv(r)'
  <2> SUFFICES ASSUME NEW r \in preps, r.token # p.token PROVE PrepInv(r)'
    BY <1>4
  <2>1. PrepInv(r) /\ r.host \in Hosts
    BY FileTypes DEF IInv, FileInv
  <2>2. lease # NoLease /\ lease.token = r.token /\ archive' # archive => r.host # h
    <3>1. lease # NoLease /\ lease.token = r.token => lease.host = r.host
      BY FileTypes DEF IInv, FileInv, Agrees
    <3> QED BY <1>6, <3>1
  <2> QED BY <1>2, <1>5, <2>1, <2>2 DEF PrepInv
<1>10. \A d \in Devices : DeviceInv(d)'
  <2> SUFFICES ASSUME NEW d \in Devices PROVE DeviceInv(d)'
    OBVIOUS
  <2>1. DeviceInv(d) /\ dev[d].host \in Hosts
    BY FileTypes DEF IInv, FileInv
  <2>2. dev[d].at = "serving" /\ dev[d].host = h /\ Active(p) => dev[d].token = p.token
    BY <2>1 DEF DeviceInv
  <2> QED BY <1>1, <1>2, <1>4, <1>5, <2>1, <2>2 DEF DeviceInv, Answered
<1>11. \A r, u \in preps' : r.token = u.token => r = u
  BY <1>4 DEF IInv, FileInv
<1>12. \A g \in Hosts : arming'[g] # {} => archive'[g] = None
  BY <1>1, <1>2 DEF IInv, FileInv, PrepInv
<1> QED BY <1>7, <1>8, <1>9, <1>10, <1>11, <1>12 DEF IInv, FileInv, Remembered, OwnArchive, Answered

LEMMA PrepareFiles == ASSUME IInv, NEW p \in preps, Prepare(p), ~PrepEnds(p) PROVE FileInv'
<1>1. /\ PrepInv(p) /\ p \in Preparations /\ UNCHANGED <<lease, saved, arming, report, dev, claims>>
      /\ p.token \in Tokens /\ p.host \in Hosts /\ None \notin Tokens
      /\ archive \in [Hosts -> Tokens \cup {None, Partial}]
  BY FileTypes
  DEF IInv, FileInv, ClaimInv, TypeOK, Prepare, PrepReads, PrepOpens, PrepWrites, PrepWritesUnlinked, PrepFails,
      PrepUnchanged
<1>2. \A g, t : Only(g, t) => Only(g, t)'
  BY <1>1 DEF Only
<1>3. CASE PrepReads(p)
  <2> DEFINE q == [p EXCEPT !.at = "build", !.built = report[p.host]]
  <2>1. report[p.host] = p.token /\ p.at = "start"
    BY <1>1, <1>3 DEF PrepReads, PrepInv
  <2>2. Becomes(p, q) /\ UNCHANGED archive
    BY <1>1, <1>3, <2>1 DEF PrepReads
  <2>3. q.token = p.token /\ q.host = p.host /\ q.at = "build" /\ q.built = p.token /\ q.ok = p.ok
    BY <1>1, <2>1 DEF Preparations
  <2>4. PICK r : r = q
    OBVIOUS
  <2>5. PrepInv(r)'
    BY <1>1, <1>2, <2>1, <2>3, <2>4 DEF PrepInv, Active
  <2> HIDE DEF q
  <2> QED BY <1>1, <2>1, <2>2, <2>3, <2>4, <2>5, BecomesFiles DEF Active
<1>4. CASE PrepOpens(p)
  <2> DEFINE q == [p EXCEPT !.at = "tar"]
  <2>1. p.at = "build" /\ Becomes(p, q) /\ archive' = [archive EXCEPT ![p.host] = Partial]
    BY <1>4 DEF PrepOpens
  <2>2. q.token = p.token /\ q.host = p.host /\ q.at = "tar" /\ q.built = p.built /\ q.ok = p.ok
    BY <1>1 DEF Preparations
  <2>3. PICK r : r = q
    OBVIOUS
  <2>4. PrepInv(r)'
    BY <1>1, <1>2, <2>1, <2>2, <2>3 DEF PrepInv, Active
  <2> HIDE DEF q
  <2> QED BY <1>1, <2>1, <2>2, <2>3, <2>4, BecomesFiles DEF Active
<1>5. CASE PrepWrites(p)
  <2> DEFINE q == [p EXCEPT !.at = "over", !.ok = TRUE]
  <2>1. p.at = "tar" /\ Becomes(p, q) /\ archive' = [archive EXCEPT ![p.host] = p.token]
    BY <1>1, <1>5 DEF PrepWrites, PrepInv
  <2>2. q.token = p.token /\ q.host = p.host /\ q.at = "over" /\ q.ok
    BY <1>1 DEF Preparations
  <2>3. PICK r : r = q
    OBVIOUS
  <2>4. PrepInv(r)'
    BY <1>1, <2>1, <2>2, <2>3 DEF PrepInv, Active
  <2> HIDE DEF q
  <2> QED BY <1>1, <2>1, <2>2, <2>3, <2>4, BecomesFiles DEF Active
<1>6. CASE PrepWritesUnlinked(p)
  <2> DEFINE q == [p EXCEPT !.at = "over", !.ok = archive[p.host] # None]
  <2>1. p.at = "unlinked" /\ Becomes(p, q) /\ UNCHANGED archive
    BY <1>6 DEF PrepWritesUnlinked
  <2>2. q.token = p.token /\ q.host = p.host /\ q.at = "over" /\ (q.ok => archive[p.host] # None)
    BY <1>1 DEF Preparations
  <2>3. PICK r : r = q
    OBVIOUS
  <2>4. PrepInv(r)'
    BY <1>1, <2>1, <2>2, <2>3 DEF PrepInv, Active
  <2> HIDE DEF q
  <2> QED BY <1>1, <2>1, <2>2, <2>3, <2>4, BecomesFiles DEF Active
<1>7. CASE PrepFails(p)
  <2> DEFINE q == [p EXCEPT !.at = "over"]
  <2>1. p.at \in {"start", "build", "tar"} /\ Becomes(p, q) /\ UNCHANGED archive
    BY <1>7 DEF PrepFails
  <2>2. q.token = p.token /\ q.host = p.host /\ q.at = "over" /\ q.ok = p.ok
    BY <1>1 DEF Preparations
  <2>3. PICK r : r = q
    OBVIOUS
  <2>4. PrepInv(r)'
    BY <1>1, <2>1, <2>2, <2>3 DEF PrepInv, Active
  <2> HIDE DEF q
  <2> QED BY <1>1, <2>1, <2>2, <2>3, <2>4, BecomesFiles DEF Active
<1> QED BY <1>3, <1>4, <1>5, <1>6, <1>7 DEF Prepare

\* A preparation that succeeded completes its own claim.
LEMMA PrepEndsFiles == ASSUME IInv, NEW p \in preps, PrepEnds(p) PROVE FileInv'
<1>1. /\ PrepInv(p) /\ p.at = "over" /\ p.token \in Tokens /\ None \notin Tokens
      /\ preps' = preps \ {p} /\ UNCHANGED <<arming, report, archive, dev, claims>>
  BY FileTypes DEF IInv, FileInv, PrepEnds
<1>2. \/ UNCHANGED <<lease, saved>>
      \/ /\ lease \in Leases /\ lease # NoLease /\ lease.token = p.token /\ saved' \in {saved, lease'}
         /\ lease' = [lease EXCEPT !.preparing = FALSE, !.failed = ~p.ok, !.completed = @ \/ p.ok]
  BY FileTypes DEF IInv, PrepEnds, SaveTried, Saved, SaveFails
<1>3. \/ UNCHANGED <<lease, saved>>
      \/ /\ lease # NoLease /\ lease' # NoLease /\ lease.token = p.token /\ saved' \in {saved, lease'}
         /\ lease'.host = lease.host /\ lease'.token = lease.token
         /\ lease'.completed => lease.completed \/ p.ok
  <2>1. p.ok \in BOOLEAN
    BY DEF IInv, ClaimInv, TypeOK, Preparations
  <2> QED BY <1>2, <2>1, FileTypes DEF IInv, Leases
<1>4. \A r \in preps' : r \in preps /\ r.token # p.token
  BY <1>1 DEF IInv, FileInv
<1>5. \A g, t : Only(g, t) => Only(g, t)'
  BY <1>3 DEF Only
<1>6. \A r \in preps' : PrepInv(r)'
  BY <1>1, <1>3, <1>4, <1>5 DEF IInv, FileInv, PrepInv
<1>7. \A d \in Devices : DeviceInv(d)'
  BY <1>1, <1>4, <1>5 DEF IInv, FileInv, DeviceInv, Answered
<1>8. Agrees(lease)' /\ Agrees(saved)'
  BY <1>1, <1>3, <1>4 DEF IInv, FileInv, Agrees
<1>9. Fits(lease)' /\ Fits(saved)'
  <2>1. lease # NoLease /\ lease.token = p.token => lease.host = p.host
    BY <1>1 DEF IInv, FileInv, Agrees
  <2> QED BY <1>1, <1>3, <2>1 DEF IInv, FileInv, Fits, PrepInv
<1>10. Remembered'
  BY <1>1, <1>3 DEF IInv, FileInv, Remembered, Answered
<1> QED BY <1>1, <1>4, <1>6, <1>7, <1>8, <1>9, <1>10 DEF IInv, FileInv, OwnArchive

\* A token that is valid is that of the only claim its host has, in memory and
\* on disk; what the device is then served is the archive of this claim.
LEMMA DownloadFiles ==
    ASSUME IInv, NoOverlap, NEW d \in Devices, BootstrapChecks(d) \/ BootstrapServes(d) \/ Installs(d) \/ PowerCycle(d)
    PROVE  FileInv'
<1>1. UNCHANGED <<lease, saved, arming, preps, report, archive, claims>>
  BY DEF BootstrapChecks, BootstrapServes, Installs, PowerCycle, brokerVars
<1>2. \A g, t : Only(g, t) => Only(g, t)'
  BY <1>1 DEF Only
<1>3. /\ dev \in [Devices -> DevRec] /\ DeviceInv(d) /\ dev[d].host \in Hosts
      /\ archive \in [Hosts -> Tokens \cup {None, Partial}]
  BY FileTypes DEF IInv, FileInv, ClaimInv, TypeOK, DevRec
<1>4. \A e \in Devices : e # d => dev'[e] = dev[e]
  BY <1>3 DEF BootstrapChecks, BootstrapServes, Installs, PowerCycle, Moves
<1>5. \/ dev'[d].token = None /\ dev'[d].at = "asking"
      \/ dev'[d].token = dev[d].token /\ dev'[d].host = dev[d].host
  BY <1>3 DEF BootstrapChecks, BootstrapServes, Installs, PowerCycle, Moves, Asking, DevRec
<1>6. DeviceInv(d)'
  <2>1. CASE PowerCycle(d)
    BY <1>3, <2>1 DEF PowerCycle, Asking, DeviceInv
  <2>2. CASE BootstrapServes(d)
    <3>1. dev'[d].at # "serving" /\ dev'[d].token = dev[d].token
      BY <1>3, <2>2 DEF BootstrapServes, DevRec
    <3> QED BY <1>1, <1>3, <3>1 DEF DeviceInv, Answered
  <2>3. CASE BootstrapChecks(d)
    <3>1. /\ dev'[d].token = dev[d].token /\ dev'[d].host = dev[d].host
          /\ lease # NoLease /\ lease.token = dev[d].token /\ arming[lease.host] = {}
          /\ dev[d].token # None
      BY <1>3, <2>3 DEF IInv, ClaimInv, TypeOK, BootstrapChecks, Moves, Valid, NoOverlap, Disturb, DevRec
    <3>2. lease.host = dev[d].host /\ saved # NoLease /\ saved.token = dev[d].token /\ saved.host = dev[d].host
      BY <1>3, <3>1 DEF IInv, FileInv, Agrees, DeviceInv, Remembered
    <3>3. Only(dev[d].host, dev[d].token)
      BY <3>1, <3>2 DEF Only
    <3>4. \A p \in preps : p.host = dev[d].host /\ Active(p) => p.token = dev[d].token
      BY <3>1, <3>2 DEF IInv, FileInv, PrepInv, Only
    <3>5. archive[dev[d].host] \in Tokens => archive[dev[d].host] = dev[d].token
      BY <3>1, <3>2 DEF IInv, FileInv, Fits
    <3> QED BY <1>1, <1>2, <1>3, <3>1, <3>2, <3>3, <3>4, <3>5 DEF DeviceInv, Answered
  <2>4. CASE Installs(d)
    <3>1. dev'[d].at # "serving" /\ dev'[d].token = dev[d].token
      BY <1>3, <2>4 DEF Installs, Moves, DevRec
    <3> QED BY <1>1, <1>3, <3>1 DEF DeviceInv, Answered
  <2> QED BY <2>1, <2>2, <2>3, <2>4
<1>7. \A e \in Devices : DeviceInv(e)'
  <2>1. ASSUME NEW e \in Devices, e # d PROVE DeviceInv(e)'
    BY <1>1, <1>2, <1>4, <2>1 DEF IInv, FileInv, DeviceInv, Answered
  <2> QED BY <1>6, <2>1
<1>8. OwnArchive'
  <2>1. dev'[d].at \in {"unpacked", "installed"} => dev'[d].got = dev'[d].token
    <3>1. CASE BootstrapServes(d)
      <4>1. dev'[d].at \in {"unpacked", "installed"} =>
                                        /\ archive[dev[d].host] \in Tokens
                                        /\ dev'[d].got = archive[dev[d].host] /\ dev'[d].token = dev[d].token
        BY <1>3, <3>1 DEF BootstrapServes, DevRec
      <4> QED BY <1>3, <3>1, <4>1 DEF BootstrapServes, DeviceInv
    <3>2. CASE BootstrapChecks(d)
      <4>1. dev'[d].at = "serving"
        BY <1>3, <3>2 DEF BootstrapChecks, Moves, DevRec
      <4> QED BY <4>1
    <3>3. CASE PowerCycle(d)
      <4>1. dev'[d].at = "asking"
        BY <1>3, <3>3 DEF PowerCycle, Asking, DevRec
      <4> QED BY <4>1
    <3>4. CASE Installs(d)
      <4>1. /\ dev[d].got = dev[d].token
            /\ dev'[d].at = "stopped" \/ (dev'[d].got = dev[d].got /\ dev'[d].token = dev[d].token)
        BY <1>3, <3>4 DEF Installs, Moves, IInv, FileInv, OwnArchive, DevRec
      <4> QED BY <4>1
    <3> QED BY <3>1, <3>2, <3>3, <3>4
  <2> QED BY <1>4, <2>1 DEF IInv, FileInv, OwnArchive
<1>9. Agrees(lease)' /\ Agrees(saved)'
  BY <1>1, <1>4, <1>5 DEF IInv, FileInv, Agrees
<1>10. \A p \in preps' : PrepInv(p)'
  BY <1>1, <1>2 DEF IInv, FileInv, PrepInv
<1> QED BY <1>1, <1>7, <1>8, <1>9, <1>10 DEF IInv, FileInv, Fits, Remembered, Answered

LEMMA NextFiles == NoOverlap /\ IInv /\ [Next]_vars => IInv'
<1> SUFFICES ASSUME NoOverlap, IInv, [Next]_vars PROVE IInv'
  OBVIOUS
<1>1. ClaimInv'
  BY NextClaims DEF IInv
<1>2. ASSUME Operator PROVE FileInv'
  BY <1>2, IdleFiles, ArmRemovesFiles, ArmLeasesFiles DEF Operator
<1>3. ASSUME NEW d \in Devices, Client(d) PROVE FileInv'
  BY <1>3, ActivateFiles, ReportFiles, DownloadFiles DEF Client
<1>4. ASSUME NEW p \in preps, Prepare(p) PROVE FileInv'
  BY <1>4, PrepareFiles, PrepEndsFiles
<1> QED BY <1>1, <1>2, <1>3, <1>4, IdleFiles, CrashFiles DEF Next, IInv

LEMMA InitHolds == Init => IInv
BY InitClaims, InitFiles DEF IInv

\* If no host is armed while its archive is about to be written or served, a
\* device installs the archive of its own claim and no other, whatever is lost,
\* repeated, not saved or interrupted by a crash (bootstrap serves the file by
\* the host's name, after the mutex).
THEOREM OwnArchiveInstalled == NoOverlap => (Spec => []OwnArchive)
<1> SUFFICES ASSUME NoOverlap PROVE Spec => []OwnArchive
  OBVIOUS
<1>1. IInv /\ [Next]_vars => IInv'
  BY NextFiles
<1>2. IInv => OwnArchive
  BY DEF IInv, FileInv
<1> QED BY <1>1, <1>2, InitHolds, PTL DEF Spec

\* Under the same condition a completed lease offers the whole archive of its
\* claim or none (complete refuses a report while a preparation is under way).
THEOREM CompletedWhole == NoOverlap => (Spec => []CompletedIsWhole)
<1> SUFFICES ASSUME NoOverlap PROVE Spec => []CompletedIsWhole
  OBVIOUS
<1>1. IInv /\ [Next]_vars => IInv'
  BY NextFiles
<1>2. IInv => CompletedIsWhole
  BY DEF IInv, FileInv, Fits, CompletedIsWhole
<1> QED BY <1>1, <1>2, InitHolds, PTL DEF Spec

----------------------------------------------------------------------------
(* Provisioner implements Enrollment.                                      *)

\* What the refinement mapping shows of the claims and of a device.
Used == {claims[t].arm : t \in {x \in 1 .. Len(claims) : claims[x].answered}}
View(d) == [at |-> Stage(d), for |-> ArmOf(IF dev[d].at = "installed" THEN dev[d].got ELSE dev[d].token)]
Machine == [d \in Devices |-> View(d)]

\* The claims there were keep their arms.
ClaimsKept == Len(claims) <= Len(claims') /\ \A t \in 1 .. Len(claims) : claims'[t] = claims[t]

\* The abstract steps, in the terms of the mapping.
LEMMA AbstractSteps ==
    /\ UNCHANGED <<arms, Used, Machine>> => UNCHANGED Abstract!vars
    /\ arms' = arms + 1 /\ UNCHANGED <<Used, Machine>> => Abstract!Next
    /\ \A e \in (1 .. arms) \ Used :
         arms' = arms /\ Used' = Used \cup {e} =>
           /\ Machine' = Machine => Abstract!Next
           /\ \A d \in Devices :
                Machine[d] = [at |-> "waiting", for |-> 0] /\ Machine' = [Machine EXCEPT ![d] = [at |-> "enrolled", for |-> e]]
                  => Abstract!Next
    /\ \A d \in Devices : UNCHANGED <<arms, Used>> =>
         /\ Machine[d].at = "enrolled" /\ Machine' = [Machine EXCEPT ![d].at = "installed"] => Abstract!Next
         /\ Machine[d].at = "enrolled" /\ Machine' = [Machine EXCEPT ![d].at = "stopped"] => Abstract!Next
         /\ Machine[d].at # "waiting" /\ Machine' = [Machine EXCEPT ![d] = [at |-> "waiting", for |-> 0]]
              => Abstract!Next
<1>1. UNCHANGED <<arms, Used, Machine>> => UNCHANGED Abstract!vars
  BY DEF Abstract!vars, Used, Machine, View
<1>2. arms' = arms + 1 /\ UNCHANGED <<Used, Machine>> => Abstract!Next
  BY DEF Abstract!Next, Abstract!Issue, Used, Machine, View
<1>3. ASSUME NEW e \in (1 .. arms) \ Used, arms' = arms, Used' = Used \cup {e} PROVE Abstract!Spend(e) /\ e \in 1 .. arms
  BY <1>3 DEF Abstract!Spend, Used
<1>4. ASSUME NEW e \in (1 .. arms) \ Used, arms' = arms, Used' = Used \cup {e}, Machine' = Machine PROVE Abstract!Next
  <2>1. Abstract!Waste(e)
    BY <1>3, <1>4 DEF Abstract!Waste, Machine, View
  <2> QED BY <2>1 DEF Abstract!Next
<1>5. ASSUME NEW e \in (1 .. arms) \ Used, arms' = arms, Used' = Used \cup {e}, NEW d \in Devices,
             Machine[d] = [at |-> "waiting", for |-> 0], Machine' = [Machine EXCEPT ![d] = [at |-> "enrolled", for |-> e]]
      PROVE  Abstract!Next
  <2>1. Abstract!Grant(d, e)
    BY <1>3, <1>5 DEF Abstract!Grant, Abstract!Waiting, Machine, View
  <2> QED BY <2>1 DEF Abstract!Next
<1>6. ASSUME NEW d \in Devices, UNCHANGED <<arms, Used>>, Machine[d].at = "enrolled",
             Machine' = [Machine EXCEPT ![d].at = "installed"]
      PROVE  Abstract!Next
  BY <1>6 DEF Abstract!Next, Abstract!Install, Used, Machine, View
<1>7. ASSUME NEW d \in Devices, UNCHANGED <<arms, Used>>, Machine[d].at = "enrolled",
             Machine' = [Machine EXCEPT ![d].at = "stopped"]
      PROVE  Abstract!Next
  BY <1>7 DEF Abstract!Next, Abstract!Stop, Used, Machine, View
<1>8. ASSUME NEW d \in Devices, UNCHANGED <<arms, Used>>, Machine[d].at # "waiting",
             Machine' = [Machine EXCEPT ![d] = [at |-> "waiting", for |-> 0]]
      PROVE  Abstract!Next
  BY <1>8 DEF Abstract!Next, Abstract!BootAgain, Abstract!Waiting, Used, Machine, View
<1> QED BY <1>1, <1>2, <1>4, <1>5, <1>6, <1>7, <1>8

\* A device whose token and stage do not change looks the same.
LEMMA SameView ==
    ASSUME IInv, IInv', ClaimsKept, NEW d \in Devices, dev'[d].token = dev[d].token
    PROVE  /\ View(d)'.for = View(d).for
           /\ Stage(d)' = Stage(d) => View(d)' = View(d)
<1>1. /\ View(d) = [at |-> Stage(d), for |-> ArmOf(dev[d].token)]
      /\ View(d)' = [at |-> Stage(d)', for |-> ArmOf(dev[d].token)']
  BY DEF View, IInv, FileInv, OwnArchive
<1>2. ArmOf(dev[d].token)' = ArmOf(dev[d].token)
  <2>1. CASE dev[d].token = None
    BY <2>1 DEF ArmOf
  <2>2. CASE dev[d].token # None
    <3>1. dev[d].token \in Tokens /\ dev[d].token <= Len(claims)
      BY <2>2, FileTypes DEF IInv, FileInv, DeviceInv
    <3>2. dev[d].token \in 1 .. Len(claims)
      BY <3>1, FileTypes, ConstantsAssumption DEF Tokens
    <3> QED BY <2>2, <3>2 DEF ArmOf, ClaimsKept
  <2> QED BY <2>1, <2>2
<1> QED BY <1>1, <1>2

\* Nothing happens to a device.
LEMMA SameMachine ==
    ASSUME IInv, IInv', ClaimsKept,
           \A d \in Devices : dev'[d].token = dev[d].token /\ Stage(d)' = Stage(d)
    PROVE  Machine' = Machine
BY SameView DEF Machine

\* Something happens to one device.
LEMMA OneMachine ==
    ASSUME IInv, IInv', ClaimsKept, NEW d \in Devices,
           \A e \in Devices : e # d => dev'[e] = dev[e]
    PROVE  /\ Machine' = [Machine EXCEPT ![d] = View(d)']
           /\ dev'[d].token = dev[d].token => Machine' = [Machine EXCEPT ![d].at = Stage(d)']
<1>1. \A e \in Devices : e # d => View(e)' = View(e)
  BY SameView DEF Stage
<1>2. Machine' = [Machine EXCEPT ![d] = View(d)']
  BY <1>1 DEF Machine
<1>3. ASSUME dev'[d].token = dev[d].token PROVE [View(d) EXCEPT !.at = Stage(d)'] = View(d)'
  BY <1>3, SameView DEF View
<1> QED BY <1>2, <1>3 DEF Machine

\* A claim that is answered uses up its arm, which nobody had used.
LEMMA ClaimUses ==
    ASSUME IInv, NEW b \in BOOLEAN, Claim(b)
    PROVE  /\ ClaimsKept /\ arms' = arms
           /\ lease.arm \in (1 .. arms) \ Used
           /\ Used' = IF b THEN Used \cup {lease.arm} ELSE Used
<1> DEFINE n == Len(claims)
<1>1. /\ n \in Nat /\ lease \in Leases /\ Len(claims') = n + 1
      /\ claims'[n + 1] = [arm |-> lease.arm, answered |-> b]
      /\ \A t \in 1 .. n : claims'[t] = claims[t]
  BY ClaimAppends, ClaimsType DEF IInv, ClaimInv
<1>2. lease # NoLease /\ lease.token = None /\ arms' = arms
  BY DEF Claim, Claimable
<1>3. lease.arm \in Nat /\ 1 <= lease.arm /\ lease.arm <= arms /\ arms \in Nat
  BY <1>1, <1>2, ConstantsAssumption DEF IInv, ClaimInv, Unused, TypeOK, Leases, Arms
<1>4. lease.arm \notin Used
  BY <1>2 DEF IInv, ClaimInv, Unused, Answered, Used
<1>5. 1 .. (n + 1) = (1 .. n) \cup {n + 1} /\ n + 1 \notin 1 .. n
  BY <1>1
<1>6. Used' = IF b THEN Used \cup {lease.arm} ELSE Used
  BY <1>1, <1>5 DEF Used
<1> QED BY <1>1, <1>2, <1>3, <1>4, <1>6 DEF ClaimsKept

\* A step that leaves the history alone, and of the devices all but one.
LEMMA SameUsed == ASSUME UNCHANGED claims, ClaimInv PROVE ClaimsKept /\ Used' = Used
BY ClaimsType DEF Used, ClaimsKept, ClaimInv

\* The operator's step, the broker's and the clock's.
LEMMA BrokerRefines ==
    ASSUME IInv, IInv',
           Operator \/ (\E p \in preps : Prepare(p)) \/ Crash \/ WindowLapses \/ ClaimEnds
    PROVE  Abstract!Next \/ UNCHANGED Abstract!vars
<1>1. UNCHANGED claims /\ (dev' = dev \/ Crash)
  BY DEF Operator, Disarm, ArmRemoves, ArmLeases, Prepare, PrepReads, PrepOpens, PrepWrites, PrepWritesUnlinked,
         PrepFails, PrepEnds, PrepUnchanged, Crash, WindowLapses, ClaimEnds
<1>2. \A d \in Devices : dev'[d].token = dev[d].token /\ Stage(d)' = Stage(d)
  <2>1. CASE dev' = dev
    BY <2>1 DEF Stage
  <2>2. CASE Crash
    <3>1. SUFFICES ASSUME NEW d \in Devices PROVE dev'[d].token = dev[d].token /\ Stage(d)' = Stage(d)
      OBVIOUS
    <3>2. dev[d] \in DevRec
      BY DEF IInv, ClaimInv, TypeOK, DevRec
    <3>3. CASE dev[d].at = "serving"
      <4>1. dev'[d].token = dev[d].token /\ dev'[d].at = "polling"
        BY <2>2, <3>2, <3>3 DEF Crash, DevRec
      <4> QED BY <3>3, <4>1 DEF Stage
    <3>4. CASE dev[d].at # "serving"
      BY <2>2, <3>4 DEF Crash, Stage
    <3> QED BY <3>3, <3>4
  <2> QED BY <1>1, <2>1, <2>2
<1>3. Used' = Used /\ Machine' = Machine
  BY <1>1, <1>2, SameUsed, SameMachine DEF IInv
<1>4. arms' = arms \/ arms' = arms + 1
  BY DEF Operator, Disarm, ArmRemoves, ArmLeases, Prepare, PrepReads, PrepOpens, PrepWrites, PrepWritesUnlinked,
         PrepFails, PrepEnds, PrepUnchanged, Crash, WindowLapses, ClaimEnds
<1> QED BY <1>3, <1>4, AbstractSteps

\* A claim is a grant when its answer arrives, a waste when it is lost, and
\* nothing when it is an error.
LEMMA ActivateRefines ==
    ASSUME IInv, IInv', NEW d \in Devices, Activate(d)
    PROVE  Abstract!Next \/ UNCHANGED Abstract!vars
<1>1. PICK b \in BOOLEAN : Claim(b) /\ ((b /\ Holds(d)) \/ UNCHANGED dev)
  BY DEF Activate
<1>2. /\ ClaimsKept /\ arms' = arms /\ lease.arm \in (1 .. arms) \ Used
      /\ Used' = IF b THEN Used \cup {lease.arm} ELSE Used
  BY <1>1, ClaimUses
<1>3. CASE UNCHANGED dev
  <2>1. Machine' = Machine
    BY <1>2, <1>3, SameMachine DEF Stage
  <2> QED BY <1>2, <2>1, AbstractSteps
<1>4. CASE b /\ Holds(d)
  <2>1. /\ dev \in [Devices -> DevRec] /\ dev[d].at = "asking" /\ dev[d].token = None
        /\ \A e \in Devices : e # d => dev'[e] = dev[e]
        /\ dev'[d].at = "claimed" /\ dev'[d].token = NewToken
    BY <1>4 DEF IInv, ClaimInv, TypeOK, DevRec, Activate, Holds
  <2>2. /\ NewToken \in Tokens /\ None \notin Tokens
        /\ claims'[NewToken] = [arm |-> lease.arm, answered |-> b]
    BY <1>1, ClaimAppends, FileTypes DEF IInv, ClaimInv
  <2>3. Machine[d] = [at |-> "waiting", for |-> 0]
    BY <2>1 DEF Machine, View, Stage, ArmOf
  <2>4. View(d)' = [at |-> "enrolled", for |-> lease.arm]
    BY <2>1, <2>2 DEF View, Stage, ArmOf
  <2>5. Machine' = [Machine EXCEPT ![d] = [at |-> "enrolled", for |-> lease.arm]]
    BY <1>2, <2>1, <2>4, OneMachine
  <2> QED BY <1>2, <1>4, <2>3, <2>5, AbstractSteps
<1> QED BY <1>1, <1>3, <1>4

\* The other steps of a client install, stop, boot again or are not seen.
LEMMA ClientRefines ==
    ASSUME IInv, IInv', NEW d \in Devices,
           Complete(d) \/ ReportAgain(d) \/ BootstrapChecks(d) \/ BootstrapServes(d) \/ Installs(d) \/ PowerCycle(d)
    PROVE  Abstract!Next \/ UNCHANGED Abstract!vars
<1>0. dev \in [Devices -> DevRec] /\ dev' \in [Devices -> DevRec]
  BY DEF IInv, ClaimInv, TypeOK, DevRec
<1>1. /\ UNCHANGED <<arms, claims>>
      /\ dev \in [Devices -> DevRec] /\ dev' \in [Devices -> DevRec]
  BY <1>0 DEF Complete, ReportAgain, BootstrapChecks, BootstrapServes, Installs, PowerCycle
<1>2. \A e \in Devices : e # d => dev'[e] = dev[e]
  BY <1>1 DEF Complete, ReportAgain, BootstrapChecks, BootstrapServes, Installs, PowerCycle, Moves
<1>3. ClaimsKept /\ Used' = Used
  BY <1>1, SameUsed DEF IInv
<1>4. Machine[d].at = Stage(d)
  BY DEF Machine, View
<1>5. CASE PowerCycle(d)
  <2>1. dev[d].at # "asking" /\ dev'[d].at = "asking" /\ dev'[d].token = None
    BY <1>1, <1>5 DEF PowerCycle, Asking, DevRec
  <2>2. View(d)' = [at |-> "waiting", for |-> 0]
    BY <2>1 DEF View, Stage, ArmOf
  <2>3. Stage(d) # "waiting"
    BY <1>1, <2>1 DEF Stage, DevRec
  <2> QED BY <1>1, <1>2, <1>3, <1>4, <2>2, <2>3, OneMachine, AbstractSteps
<1>6. CASE ~PowerCycle(d)
  <2>1. dev'[d].token = dev[d].token
    BY <1>1, <1>6 DEF Complete, ReportAgain, BootstrapChecks, BootstrapServes, Installs, Moves, DevRec
  <2>2. /\ Stage(d)' \in {Stage(d), "stopped", "installed"}
        /\ Stage(d)' # Stage(d) => Stage(d) = "enrolled"
    <3>1. CASE ReportAgain(d)
      BY <3>1 DEF ReportAgain, Stage
    <3>2. CASE Complete(d)
      <4>1. dev[d].at = "claimed" /\ dev'[d].at \in {"polling", "stopped"}
        BY <1>1, <3>2 DEF Complete, Moves, DevRec
      <4> QED BY <4>1 DEF Stage
    <3>3. CASE BootstrapChecks(d)
      <4>1. dev[d].at = "polling" /\ dev'[d].at = "serving"
        BY <1>1, <3>3 DEF BootstrapChecks, Moves, DevRec
      <4> QED BY <4>1 DEF Stage
    <3>4. CASE BootstrapServes(d)
      <4>0. \E x \in {"polling", "stopped", "unpacked"} : \E y \in {None, archive[dev[d].host]} :
               dev' = [dev EXCEPT ![d].at = x, ![d].got = y]
        BY <3>4 DEF BootstrapServes
      <4>1. dev[d].at = "serving" /\ dev'[d].at \in {"polling", "stopped", "unpacked"}
        BY <1>1, <3>4, <4>0 DEF BootstrapServes, DevRec
      <4> QED BY <4>1 DEF Stage
    <3>5. CASE Installs(d)
      <4>1. dev[d].at = "unpacked" /\ dev'[d].at \in {"installed", "stopped"}
        BY <1>1, <3>5 DEF Installs, Moves, DevRec
      <4> QED BY <4>1 DEF Stage
    <3> QED BY <1>6, <3>1, <3>2, <3>3, <3>4, <3>5
  <2>3. Machine' = [Machine EXCEPT ![d].at = Stage(d)']
    BY <1>2, <1>3, <2>1, OneMachine
  <2>4. CASE Stage(d)' = Stage(d)
    <3>1. Machine' = Machine
      BY <1>2, <1>3, <2>1, <2>4, SameMachine DEF Stage
    <3> QED BY <1>1, <1>3, <3>1, AbstractSteps
  <2>5. CASE Stage(d)' # Stage(d)
    <3>1. Machine[d].at = "enrolled"
      BY <1>4, <2>2, <2>5
    <3>2. Machine' = [Machine EXCEPT ![d].at = "stopped"] \/ Machine' = [Machine EXCEPT ![d].at = "installed"]
      BY <2>2, <2>3, <2>5
    <3> QED BY <1>1, <1>3, <3>1, <3>2, AbstractSteps
  <2> QED BY <2>4, <2>5
<1> QED BY <1>5, <1>6

\* If no arm of a host overlaps the work for an earlier claim of it, the broker
\* with its preparations and clients implements Enrollment: an arming is granted
\* to one boot of one device, which installs the system of that arming or none,
\* whatever is lost, repeated, not saved or interrupted by a crash.
THEOREM BrokerImplementsEnrollment == NoOverlap => (Spec => ImplementsEnrollment)
<1> SUFFICES ASSUME NoOverlap PROVE Spec => Abstract!Spec
  BY DEF ImplementsEnrollment
<1>1. Init => Abstract!Init
  <2> SUFFICES ASSUME Init PROVE Abstract!Init
    OBVIOUS
  <2>1. claims = <<>> /\ arms = 0 /\ dev = [d \in Devices |-> Asking]
    BY DEF Init
  <2>2. Used = {}
    BY <2>1 DEF Used
  <2>3. Machine = [d \in Devices |-> [at |-> "waiting", for |-> 0]]
    BY <2>1 DEF Machine, View, Stage, ArmOf, Asking
  <2> QED BY <2>1, <2>2, <2>3 DEF Abstract!Init, Abstract!Waiting, Used, Machine, View
<1>2. IInv /\ IInv' /\ [Next]_vars => [Abstract!Next]_(Abstract!vars)
  <2> SUFFICES ASSUME IInv, IInv', [Next]_vars PROVE Abstract!Next \/ UNCHANGED Abstract!vars
    OBVIOUS
  <2>1. CASE UNCHANGED vars
    <3>1. UNCHANGED <<arms, claims, dev>>
      BY <2>1 DEF vars
    <3>2. Used' = Used /\ Machine' = Machine
      BY <3>1, SameUsed, SameMachine DEF IInv, Stage
    <3> QED BY <3>1, <3>2, AbstractSteps
  <2>2. ASSUME NEW d \in Devices, Client(d) PROVE Abstract!Next \/ UNCHANGED Abstract!vars
    BY <2>2, ActivateRefines, ClientRefines DEF Client
  <2> QED BY <2>1, <2>2, BrokerRefines DEF Next
<1>3. IInv /\ [Next]_vars => IInv'
  BY NextFiles
<1> QED BY <1>1, <1>2, <1>3, InitHolds, PTL DEF Spec, Abstract!Spec
=============================================================================
