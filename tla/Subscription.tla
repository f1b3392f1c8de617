---------------------------- MODULE Subscription ----------------------------
(***************************************************************************)
(* What a capability that hands out credentials promises its subscribers,  *)
(* without the daemon, its state file and its callbacks: a subscriber      *)
(* takes the credential that the backend accepts at that moment or none,   *)
(* and what it holds is neither replaced nor revoked before it asks again, *)
(* whoever else asks. Provider implements this.                            *)
(***************************************************************************)
EXTENDS Naturals

CONSTANT Keys   \* the subscribers

VARIABLES
    issued,     \* issued[k]: the credentials k has ever had are 1 .. issued[k]
    accepted,   \* accepted[k]: the one the backend accepts, 0 if none
    holds       \* holds[k]: the one k relies on, 0 while it asks for one

vars == <<issued, accepted, holds>>

Init == issued = [k \in Keys |-> 0] /\ accepted = [k \in Keys |-> 0] /\ holds = [k \in Keys |-> 0]

Asking == {k \in Keys : holds[k] = 0}

\* The backend replaces the credentials of some subscribers that ask and
\* revokes those of others.
Reissue(new, gone) ==
    /\ new \subseteq Asking /\ gone \subseteq Asking
    /\ issued' = [k \in Keys |-> IF k \in new THEN issued[k] + 1 ELSE issued[k]]
    /\ accepted' = [k \in Keys |-> IF k \in new THEN issued[k] + 1
                                   ELSE IF k \in gone THEN 0 ELSE accepted[k]]
    /\ UNCHANGED holds

\* A subscriber that asks is given its credential.
Take(k) ==
    /\ k \in Asking /\ accepted[k] # 0
    /\ holds' = [holds EXCEPT ![k] = accepted[k]]
    /\ UNCHANGED <<issued, accepted>>

\* A subscriber does not trust what it holds any more, and asks.
Ask(k) ==
    /\ k \notin Asking
    /\ holds' = [holds EXCEPT ![k] = 0]
    /\ UNCHANGED <<issued, accepted>>

Next ==
    \/ \E new, gone \in SUBSET Asking : Reissue(new, gone)
    \/ \E k \in Keys : Take(k) \/ Ask(k)

Spec == Init /\ [][Next]_vars
=============================================================================
