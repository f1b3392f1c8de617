-------------------------- MODULE MCOverlayManager --------------------------
(***************************************************************************)
(* Instances of OverlayManager for TLC: versions of which one is broken    *)
(* and one has no health check, and one manager process. The six-hour      *)
(* ceiling of the backoff is three poll intervals, so that the third       *)
(* attempt meets it.                                                       *)
(***************************************************************************)
EXTENDS OverlayManager, TLC

CONSTANTS v1, v2, bad, bare, timer

AllVersions == {v1, v2, bad, bare}
GoodVersions == {v1, v2}
BareVersions == {bare}
=============================================================================
