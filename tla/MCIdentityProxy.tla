-------------------------- MODULE MCIdentityProxy --------------------------
(***************************************************************************)
(* An instance of IdentityProxy for TLC: two users, one of whose groups a  *)
(* service requires and another service does not.                          *)
(***************************************************************************)
EXTENDS IdentityProxy, TLC

CONSTANTS u1, u2, g, h1, h2

TwoUsers == {u1, u2}
TwoSites == {{}, {g}}
TwoHandlers == {h1, h2}

\* Users and handlers are only ever compared for equality.
UserHandlerSymmetry == Permutations(TwoUsers) \cup Permutations(TwoHandlers)
=============================================================================
