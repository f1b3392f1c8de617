---------------------------- MODULE Provisioner ----------------------------
(***************************************************************************)
(* The unattended provisioning broker (pkgs/provisioner/main.go), the      *)
(* preparation script it runs (provisioning/prepare-claim.sh) and the      *)
(* boot clients that talk to it (provisioning/boot/client.sh).             *)
(*                                                                         *)
(* An operator arms a host: one global lease. The first device that asks   *)
(* claims it and gets a token, reports its hardware and its new host key   *)
(* with it, and polls for the archive that the broker prepares from that   *)
(* report. The handlers hold one mutex; outside it are arm's removal of    *)
(* the old files, the preparation, and the serving of the archive.         *)
(*                                                                         *)
(* A token is the number of its claim. A report and an archive are named   *)
(* by the token of the claim whose host key they carry. Time is the count  *)
(* of arm windows and of claims that have run out: both end in the order   *)
(* in which they began.                                                    *)
(***************************************************************************)
EXTENDS Naturals, Sequences

CONSTANTS
    Hosts,          \* the targets of the registry
    Devices,        \* machines booted from the USB drive
    NoLease,        \* state.Lease = nil
    Partial,        \* an archive that tar is still writing
    Disturbances,   \* which kinds of disturbance may happen
    MaxDisturb,     \* bound: how many of them in a behaviour
    MaxArms,        \* bound: how often a host is armed
    MaxClaims       \* bound: how many tokens are drawn

Kinds == {"savefail", "crash", "preparefail", "lost", "resend", "powercycle", "rearm", "overtake"}

Arms   == 1 .. MaxArms
Tokens == 1 .. MaxClaims
None   == 0

Leases == [arm : Arms, host : Hosts, token : Tokens \cup {None},
           preparing : BOOLEAN, failed : BOOLEAN, completed : BOOLEAN]

ASSUME ConstantsAssumption ==
    /\ Hosts # {}
    /\ MaxDisturb \in Nat /\ MaxArms \in Nat /\ MaxClaims \in Nat
    /\ Disturbances \subseteq Kinds
    /\ NoLease \notin Leases
    /\ Partial \notin Nat

VARIABLES
    \* the broker
    lease,      \* state.Lease
    saved,      \* the lease of state.json
    arming,     \* arming[h]: arm requests for h between removal and lease
    preps,      \* running preparations
    report,     \* report[h]: <host>.json, None if there is none
    archive,    \* archive[h]: <host>.tar.gz, None if there is none
    \* the clock
    lapsed,     \* arms 1 .. lapsed: their five minutes are over
    ended,      \* claims 1 .. ended: their two hours are over
    \* the devices
    dev,        \* dev[d]: where its client is, its token, the archive it got
    \* history and bounds
    arms,       \* how many leases there were
    claims,     \* claims[t]: the arm of token t, was it ever answered with 200
    disturbed

brokerVars == <<lease, saved, arming, preps, report, archive>>
clockVars  == <<lapsed, ended>>
vars == <<brokerVars, clockVars, dev, arms, claims, disturbed>>

Disturb(kind) ==
    /\ kind \in Disturbances
    /\ disturbed < MaxDisturb
    /\ disturbed' = disturbed + 1

\* save: state.json is replaced by a rename, or stays as it was.
Saved == saved' = lease'
SaveFails == Disturb("savefail") /\ UNCHANGED saved
SaveTried == (Saved /\ UNCHANGED disturbed) \/ SaveFails

(***************************************************************************)
(* Arming and disarming.                                                   *)
(***************************************************************************)

\* A preparation that has not opened its archive yet; an archive that is about
\* to be served.
PreparationOf(h) == \E p \in preps : p.host = h /\ p.at \in {"start", "build"}
ServingOf(h) == \E d \in Devices : dev[d].at = "serving" /\ dev[d].host = h

\* Mutant: the archive of an earlier claim is left in place.
ArmKeepsArchive(h) ==
    /\ arms < MaxArms
    /\ arms' = arms + 1
    /\ arming' = [arming EXCEPT ![h] = @ \cup {arms + 1}]
    /\ UNCHANGED <<lease, saved, preps, report, archive, clockVars, dev, claims, disturbed>>

\* arm removes the files of earlier claims before it takes the mutex. A tar
\* that is writing goes on into a file that has no name any more. The broker
\* may still be about to write ("rearm") or to serve ("overtake") the archive
\* of an earlier claim of the host.
ArmRemoves(h) ==
    /\ arms < MaxArms
    /\ \/ ~PreparationOf(h) /\ ~ServingOf(h) /\ UNCHANGED disturbed
       \/ PreparationOf(h) /\ Disturb("rearm")
       \/ ServingOf(h) /\ Disturb("overtake")
    /\ arms' = arms + 1
    /\ arming' = [arming EXCEPT ![h] = @ \cup {arms + 1}]
    /\ report' = [report EXCEPT ![h] = None]
    /\ archive' = [archive EXCEPT ![h] = None]
    /\ preps' = {IF p.host = h /\ p.at = "tar" THEN [p EXCEPT !.at = "unlinked"] ELSE p : p \in preps}
    /\ UNCHANGED <<lease, saved, clockVars, dev, claims>>

\* Under the mutex the new lease replaces whatever lease there was.
ArmLeases(h, a) ==
    /\ a \in arming[h]
    /\ arming' = [arming EXCEPT ![h] = @ \ {a}]
    /\ lease' = [arm |-> a, host |-> h, token |-> None,
                 preparing |-> FALSE, failed |-> FALSE, completed |-> FALSE]
    /\ SaveTried
    /\ UNCHANGED <<preps, report, archive, clockVars, dev, arms, claims>>

\* disarm ignores an error of save.
Disarm ==
    /\ lease # NoLease
    /\ lease' = NoLease
    /\ SaveTried
    /\ UNCHANGED <<arming, preps, report, archive, clockVars, dev, arms, claims>>

(***************************************************************************)
(* The claim (activate). A refused request changes nothing: the client     *)
(* asks again.                                                             *)
(***************************************************************************)

\* Mutant: a lease that has been claimed is claimed again by the next device.
ClaimableAgain == lease # NoLease /\ lease.arm > lapsed

Claimable == lease # NoLease /\ lease.arm > lapsed /\ lease.token = None

NewToken == Len(claims) + 1

\* The lease in memory is claimed whether or not it can be saved.
Claim(answered) ==
    /\ Claimable /\ NewToken \in Tokens
    /\ lease' = [lease EXCEPT !.token = NewToken]
    /\ claims' = Append(claims, [arm |-> lease.arm, answered |-> answered])
    /\ UNCHANGED <<arming, preps, report, archive, clockVars, arms>>

Holds(d) == dev' = [dev EXCEPT ![d] = [at |-> "claimed", token |-> NewToken, host |-> lease.host, got |-> None]]

\* Mutant: the token is handed out although the claim was not saved.
ActivateUnsaved(d) ==
    /\ dev[d].at = "asking"
    /\ Claim(TRUE)
    /\ Holds(d)
    /\ SaveTried

\* The first device that asks gets the token; its answer may be lost; when
\* the claim cannot be saved the device gets an error instead.
Activate(d) ==
    /\ dev[d].at = "asking"
    /\ \/ Claim(TRUE) /\ Saved /\ Holds(d) /\ UNCHANGED disturbed
       \/ Claim(TRUE) /\ Saved /\ Disturb("lost") /\ UNCHANGED dev
       \/ Claim(FALSE) /\ SaveFails /\ UNCHANGED dev

(***************************************************************************)
(* The report (complete).                                                  *)
(***************************************************************************)

\* The claim of token t is the current one and has not expired.
Valid(t) == lease # NoLease /\ lease.token = t /\ t > ended

\* Mutant: a claim whose archive is being prepared may be completed again.
CompletableTwice(t) == Valid(t) /\ ~lease.completed

Completable(t) == Valid(t) /\ ~lease.completed /\ ~lease.preparing

WritesReport(t) == report' = [report EXCEPT ![lease.host] = t]

StartsPreparation(t) ==
    preps' = preps \cup {[token |-> t, host |-> lease.host, at |-> "start", built |-> None, ok |-> FALSE]}

\* The report is written, the lease says preparing, the preparation starts.
\* An arm of the same host may already have removed the files ("rearm").
Accepts(t, kind) ==
    /\ Completable(t)
    /\ kind = "rearm" <=> arming[lease.host] # {}
    /\ WritesReport(t)
    /\ lease' = [lease EXCEPT !.preparing = TRUE, !.failed = FALSE]
    /\ Saved
    /\ StartsPreparation(t)

\* The report or the lease cannot be written: nothing is prepared, but a
\* report that was written stays.
Errs(t) ==
    /\ Completable(t)
    /\ SaveFails
    /\ \/ UNCHANGED <<lease, report>>
       \/ WritesReport(t) /\ lease' = [lease EXCEPT !.failed = FALSE]
    /\ UNCHANGED preps

Moves(d, where) == dev' = [dev EXCEPT ![d].at = where]

\* The client reports once; whatever is not a success ends it.
Complete(d) ==
    LET t == dev[d].token IN
    /\ dev[d].at = "claimed"
    /\ \/ Accepts(t, "none") /\ UNCHANGED disturbed /\ Moves(d, "polling")
       \/ Accepts(t, "rearm") /\ Disturb("rearm") /\ Moves(d, "polling")
       \/ Accepts(t, "none") /\ Disturb("lost") /\ Moves(d, "stopped")
       \/ Errs(t) /\ Moves(d, "stopped")
       \/ ~Completable(t) /\ Moves(d, "stopped") /\ UNCHANGED <<lease, saved, preps, report, disturbed>>
    /\ UNCHANGED <<arming, archive, clockVars, arms, claims>>

\* The same report is received once more.
ReportAgain(d) ==
    /\ dev[d].at = "polling"
    /\ Accepts(dev[d].token, "none") /\ Disturb("resend")
    /\ UNCHANGED <<arming, archive, clockVars, dev, arms, claims>>

(***************************************************************************)
(* The preparation: a child process of the broker, outside the mutex.      *)
(***************************************************************************)

Becomes(p, q) == preps' = (preps \ {p}) \cup {q}

PrepUnchanged == UNCHANGED <<lease, saved, arming, report, clockVars, dev, arms, claims>>

\* The script reads the report of the host as it is now.
PrepReads(p) ==
    /\ p.at = "start"
    /\ Becomes(p, IF report[p.host] = None THEN [p EXCEPT !.at = "over"]
                  ELSE [p EXCEPT !.at = "build", !.built = report[p.host]])
    /\ PrepUnchanged /\ UNCHANGED <<archive, disturbed>>

\* tar opens the archive under its final name ...
PrepOpens(p) ==
    /\ p.at = "build"
    /\ archive' = [archive EXCEPT ![p.host] = Partial]
    /\ Becomes(p, [p EXCEPT !.at = "tar"])
    /\ PrepUnchanged /\ UNCHANGED disturbed

\* ... and has written it.
PrepWrites(p) ==
    /\ p.at = "tar"
    /\ archive' = [archive EXCEPT ![p.host] = p.built]
    /\ Becomes(p, [p EXCEPT !.at = "over", !.ok = TRUE])
    /\ PrepUnchanged /\ UNCHANGED disturbed

\* The archive was removed meanwhile: the final chmod finds no such file,
\* unless a later preparation has created it again.
PrepWritesUnlinked(p) ==
    /\ p.at = "unlinked"
    /\ Becomes(p, [p EXCEPT !.at = "over", !.ok = archive[p.host] # None])
    /\ PrepUnchanged /\ UNCHANGED <<archive, disturbed>>

PrepFails(p) ==
    /\ p.at \in {"start", "build", "tar"}
    /\ Disturb("preparefail")
    /\ Becomes(p, [p EXCEPT !.at = "over"])
    /\ PrepUnchanged /\ UNCHANGED archive

\* prepare, under the mutex again: a lease with another token is left alone.
PrepEnds(p) ==
    /\ p.at = "over"
    /\ preps' = preps \ {p}
    /\ IF lease # NoLease /\ lease.token = p.token
       THEN /\ lease' = [lease EXCEPT !.preparing = FALSE, !.failed = ~p.ok,
                                      !.completed = @ \/ p.ok]
            /\ SaveTried
       ELSE UNCHANGED <<lease, saved, disturbed>>
    /\ UNCHANGED <<arming, report, archive, clockVars, dev, arms, claims>>

(***************************************************************************)
(* Polling for the archive (bootstrap).                                    *)
(***************************************************************************)

\* The token is checked under the mutex ...
BootstrapChecks(d) ==
    /\ dev[d].at = "polling" /\ Valid(dev[d].token)
    /\ IF arming[lease.host] = {} THEN UNCHANGED disturbed ELSE Disturb("overtake")
    /\ Moves(d, "serving")
    /\ UNCHANGED <<brokerVars, clockVars, arms, claims>>

\* Mutant: that there is no archive yet is not noticed.
ServesUnready(d) ==
    /\ dev[d].at = "serving"
    /\ dev' = [dev EXCEPT ![d].at = IF archive[dev[d].host] = Partial THEN "stopped" ELSE "unpacked",
                          ![d].got = IF archive[dev[d].host] = Partial THEN None ELSE archive[dev[d].host]]
    /\ UNCHANGED <<brokerVars, clockVars, arms, claims, disturbed>>

\* ... and the file served after it: whatever is there under that name. The
\* client polls on without one; one that does not unpack ends it.
BootstrapServes(d) ==
    LET a == archive[dev[d].host] IN
    /\ dev[d].at = "serving"
    /\ dev' = [dev EXCEPT ![d].at = IF a = None THEN "polling" ELSE IF a = Partial THEN "stopped" ELSE "unpacked",
                          ![d].got = IF a = Partial THEN None ELSE a]
    /\ UNCHANGED <<brokerVars, clockVars, arms, claims, disturbed>>

\* The client builds the system of the archive, partitions, copies its host key
\* and installs; whatever fails of it ends it.
Installs(d) ==
    /\ dev[d].at = "unpacked"
    /\ \/ Moves(d, "installed")
       \/ dev' = [dev EXCEPT ![d].at = "stopped", ![d].got = None]
    /\ UNCHANGED <<brokerVars, clockVars, arms, claims, disturbed>>

(***************************************************************************)
(* The environment.                                                        *)
(***************************************************************************)

Asking == [at |-> "asking", token |-> None, host |-> CHOOSE h \in Hosts : TRUE, got |-> None]

\* A device is booted from the drive again, wherever it was, an installed one
\* included: it has forgotten its token and makes a new host key.
PowerCycle(d) ==
    /\ dev[d].at # "asking"
    /\ Disturb("powercycle")
    /\ dev' = [dev EXCEPT ![d] = Asking]
    /\ UNCHANGED <<brokerVars, clockVars, arms, claims>>

\* The broker dies, and its children with it; it starts with state.json.
Crash ==
    /\ Disturb("crash")
    /\ lease' = saved
    /\ arming' = [h \in Hosts |-> {}] /\ preps' = {}
    /\ dev' = [d \in Devices |-> IF dev[d].at = "serving" THEN [dev[d] EXCEPT !.at = "polling"] ELSE dev[d]]
    /\ UNCHANGED <<saved, report, archive, clockVars, arms, claims>>

\* An arm window ends after five minutes ...
WindowLapses ==
    /\ lapsed < arms
    /\ lapsed' = lapsed + 1
    /\ UNCHANGED <<brokerVars, ended, dev, arms, claims, disturbed>>

\* ... and a claim two hours after it was made.
ClaimEnds ==
    /\ ended < Len(claims) /\ claims[ended + 1].arm <= lapsed
    /\ ended' = ended + 1
    /\ UNCHANGED <<brokerVars, lapsed, dev, arms, claims, disturbed>>

(***************************************************************************)
(* The specification.                                                      *)
(***************************************************************************)

Init ==
    /\ lease = NoLease /\ saved = NoLease
    /\ arming = [h \in Hosts |-> {}]
    /\ preps = {}
    /\ report = [h \in Hosts |-> None]
    /\ archive = [h \in Hosts |-> None]
    /\ lapsed = 0 /\ ended = 0
    /\ dev = [d \in Devices |-> Asking]
    /\ arms = 0 /\ claims = <<>>
    /\ disturbed = 0

Operator == Disarm \/ \E h \in Hosts : ArmRemoves(h) \/ \E a \in arming[h] : ArmLeases(h, a)

Client(d) ==
    \/ Activate(d) \/ Complete(d) \/ ReportAgain(d)
    \/ BootstrapChecks(d) \/ BootstrapServes(d) \/ Installs(d) \/ PowerCycle(d)

Prepare(p) ==
    \/ PrepReads(p) \/ PrepOpens(p) \/ PrepWrites(p) \/ PrepWritesUnlinked(p)
    \/ PrepFails(p) \/ PrepEnds(p)

Next ==
    \/ Operator
    \/ \E d \in Devices : Client(d)
    \/ \E p \in preps : Prepare(p)
    \/ Crash \/ WindowLapses \/ ClaimEnds

Spec == Init /\ [][Next]_vars

(***************************************************************************)
(* Properties.                                                             *)
(***************************************************************************)

Preparations == [token : Tokens, host : Hosts, at : {"start", "build", "tar", "unlinked", "over"},
                 built : Tokens \cup {None}, ok : BOOLEAN]

\* The type invariant; a client that has got further than asking has a token,
\* and one that is about to be served has no archive yet.
TypeOK ==
    /\ {lease, saved} \subseteq Leases \cup {NoLease}
    /\ arming \in [Hosts -> SUBSET Arms]
    /\ preps \subseteq Preparations
    /\ report \in [Hosts -> Tokens \cup {None}]
    /\ archive \in [Hosts -> Tokens \cup {None, Partial}]
    /\ arms \in 0 .. MaxArms /\ lapsed \in 0 .. arms
    /\ claims \in Seq([arm : Arms, answered : BOOLEAN]) /\ Len(claims) <= MaxClaims
    /\ ended \in 0 .. Len(claims)
    /\ dev \in [Devices -> [at : {"asking", "claimed", "polling", "serving", "unpacked", "installed", "stopped"},
                            token : Tokens \cup {None}, host : Hosts, got : Tokens \cup {None}]]
    /\ \A d \in Devices : /\ dev[d].at = "asking" <=> dev[d].token = None
                          /\ dev[d].at \in {"unpacked", "installed"} <=> dev[d].got # None
    /\ disturbed \in 0 .. MaxDisturb

\* One claimant ("The first device presenting the fleet credential atomically
\* claims the lease. Further devices are rejected."): a lease is answered with
\* a token at most once, also when claims could not be saved and the broker
\* has started again from an older state.json.
OneClaimant ==
    \A s, t \in 1 .. Len(claims) :
        claims[s].answered /\ claims[t].answered /\ claims[s].arm = claims[t].arm => s = t

\* A device unpacks and installs the archive that was prepared for its own
\* claim, with its own host key as a recipient of the secrets, and no other.
OwnArchive ==
    \A d \in Devices : dev[d].at \in {"unpacked", "installed"} => dev[d].got = dev[d].token

\* A lease that says completed offers its claimant the whole archive of this
\* claim, or none: no second preparation is at work on it.
CompletedIsWhole ==
    lease # NoLease /\ lease.completed => archive[lease.host] \in {lease.token, None}

(***************************************************************************)
(* Provisioner implements Enrollment: an enrollment is one arming of a     *)
(* host, used once a token of it has been answered. A device that waits    *)
(* for its archive, or works on it, is still enrolled; one that has        *)
(* installed is enrolled for the arming whose claim the archive was        *)
(* prepared for.                                                           *)
(***************************************************************************)

ArmOf(t) == IF t = None THEN 0 ELSE claims[t].arm

Stage(d) ==
    CASE dev[d].at = "asking" -> "waiting"
      [] dev[d].at \in {"claimed", "polling", "serving", "unpacked"} -> "enrolled"
      [] OTHER -> dev[d].at

Abstract == INSTANCE Enrollment WITH
    issued  <- arms,
    used    <- {claims[t].arm : t \in {x \in 1 .. Len(claims) : claims[x].answered}},
    machine <- [d \in Devices |->
        [at |-> Stage(d), for |-> ArmOf(IF dev[d].at = "installed" THEN dev[d].got ELSE dev[d].token)]]

\* Every step of the broker, its preparations and its clients is a step of an
\* enrollment or invisible to it: an arming is granted once, to one boot of
\* one device, whatever is lost, repeated or restarted, and what a device
\* installs belongs to the arming it was granted; a device that is booted from
\* the drive again, installed or not, needs another arming.
ImplementsEnrollment == Abstract!Spec

=============================================================================
