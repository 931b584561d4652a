---------------------------- MODULE OneTimeSecret ----------------------------
(***************************************************************************)
(* What a one-time secret promises, whatever keeps it: it is issued, it    *)
(* may be withdrawn, and it is accepted at most once, while it is live.    *)
(***************************************************************************)
EXTENDS Naturals

CONSTANT Secret     \* every secret that may ever be issued

VARIABLES
    issued,         \* secrets that were handed out
    live,           \* secrets that would be accepted
    uses            \* by secret, how often it was accepted

secretVars == <<issued, live, uses>>

SecretInit == issued = {} /\ live = {} /\ uses = [s \in Secret |-> 0]

Issue(s) ==
    /\ s \notin issued
    /\ issued' = issued \cup {s} /\ live' = live \cup {s} /\ UNCHANGED uses

Withdraw(S) == live' = live \ S /\ UNCHANGED <<issued, uses>>

Accept(s) ==
    /\ s \in live
    /\ live' = live \ {s} /\ uses' = [uses EXCEPT ![s] = @ + 1] /\ UNCHANGED issued

SecretNext ==
    \/ \E s \in Secret : Issue(s) \/ Accept(s)
    \/ \E S \in SUBSET live : Withdraw(S)

SecretSpec == SecretInit /\ [][SecretNext]_secretVars
=============================================================================
