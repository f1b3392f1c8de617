---------------------------- MODULE MCGitTokens -----------------------------
(***************************************************************************)
(* An instance of GitTokens for TLC: n1 and n2 are needs of one host that  *)
(* share a token file, n3 is another host's, and n4 asks for an access it  *)
(* may not have.                                                           *)
(***************************************************************************)
EXTENDS GitTokens

CONSTANTS n1, n2, n3, n4, f1, f2

\* Two files apart, two needs of one file, a refused need beside another.
Pairs == {{n1, n3}, {n1, n2}, {n3, n4}}

SharedFileOf == [n \in Needs |-> IF n \in {n1, n2} THEN f1 ELSE f2]
=============================================================================
