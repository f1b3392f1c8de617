--------------------------- MODULE MCProvisioner ---------------------------
(***************************************************************************)
(* Instances of Provisioner for TLC: up to two hosts and two devices,      *)
(* interchangeable each.                                                   *)
(***************************************************************************)
EXTENDS Provisioner, TLC

CONSTANTS h1, h2, d1, d2

TwoHosts == {h1, h2}
TwoDevices == {d1, d2}

\* Devices are only ever compared for equality.
DeviceSymmetry == Permutations(TwoDevices)
=============================================================================
