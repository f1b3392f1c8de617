--------------------------- MODULE MCCertificates ---------------------------
(***************************************************************************)
(* Instances of Certificates for TLC: two interchangeable consumers, and   *)
(* the thresholds of the code in the same order, a few days apart.         *)
(***************************************************************************)
EXTENDS Certificates, TLC

CONSTANTS c1, c2

TwoConsumers == {c1, c2}

\* Consumers are only ever compared for equality.
ConsumerSymmetry == Permutations(TwoConsumers)
=============================================================================
