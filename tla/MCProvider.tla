----------------------------- MODULE MCProvider -----------------------------
(***************************************************************************)
(* Instances of Provider for TLC: two consumers (keys), whose entries are  *)
(* interchangeable, and one or two request workers.                        *)
(***************************************************************************)
EXTENDS Provider, TLC

CONSTANTS k1, k2

TwoKeys == {k1, k2}

\* Keys are only ever compared for equality.
KeySymmetry == Permutations(TwoKeys)

\* Everything but failing saves, and every crash unless the boot would send
\* what the file still holds.
Mishaps == {"loss", "crash", "failure", "keyerror", "forget", "deploy", "trigger", "gc"}
CalmDisturbances == [i \in BOOLEAN |-> IF i THEN Mishaps ELSE Mishaps \cup {"cut", "torn"}]

\* Everything but a crash inside a write, of a capability that is initialized.
LiveDisturbances == [i \in {TRUE} |-> Kinds \ {"torn"}]
=============================================================================
