----------------------------- MODULE Enrollment -----------------------------
(***************************************************************************)
(* What unattended provisioning promises                                   *)
(* (docs/unattended-provisioning.md), without the broker: an operator      *)
(* issues enrollments, an enrollment is used by at most one boot of one    *)
(* device, and the device installs the system of the enrollment it has     *)
(* used, or none. Provisioner implements this.                             *)
(***************************************************************************)
EXTENDS Naturals

CONSTANT Devices

VARIABLES
    issued,     \* the enrollments are 1 .. issued
    used,       \* those that have been granted
    machine     \* machine[d]: where d is, and for which enrollment (0: none)

vars == <<issued, used, machine>>

Waiting == [at |-> "waiting", for |-> 0]

Init == issued = 0 /\ used = {} /\ machine = [d \in Devices |-> Waiting]

\* The operator arms a host.
Issue ==
    /\ issued' = issued + 1
    /\ UNCHANGED <<used, machine>>

\* An enrollment that nobody has used is used up.
Spend(e) ==
    /\ e \in (1 .. issued) \ used
    /\ used' = used \cup {e}
    /\ UNCHANGED issued

\* A device that waits gets it ...
Grant(d, e) ==
    /\ machine[d] = Waiting
    /\ Spend(e)
    /\ machine' = [machine EXCEPT ![d] = [at |-> "enrolled", for |-> e]]

\* ... or never learns of it.
Waste(e) == Spend(e) /\ UNCHANGED machine

\* An enrolled device installs the system of its enrollment.
Install(d) ==
    /\ machine[d].at = "enrolled"
    /\ machine' = [machine EXCEPT ![d].at = "installed"]
    /\ UNCHANGED <<issued, used>>

\* An enrolled device gives up.
Stop(d) ==
    /\ machine[d].at = "enrolled"
    /\ machine' = [machine EXCEPT ![d].at = "stopped"]
    /\ UNCHANGED <<issued, used>>

\* A device is booted from the drive again: it is not enrolled any more.
BootAgain(d) ==
    /\ machine[d].at # "waiting"
    /\ machine' = [machine EXCEPT ![d] = Waiting]
    /\ UNCHANGED <<issued, used>>

Next ==
    \/ Issue
    \/ \E e \in 1 .. issued : Waste(e) \/ \E d \in Devices : Grant(d, e)
    \/ \E d \in Devices : Install(d) \/ Stop(d) \/ BootAgain(d)

Spec == Init /\ [][Next]_vars
=============================================================================
