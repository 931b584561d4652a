-------------------------- MODULE MC_Contributions --------------------------
(***************************************************************************)
(* Small instances of Contributions for TLC: two accounts, of which `tara' *)
(* is the treasurer; guests pledge as well.                                *)
(***************************************************************************)
EXTENDS Contributions, TLC

CONSTANTS tara, dev

MCUser == {tara, dev}
MCTreasurers == {tara}

\* Requests are interchangeable.
ReqSymmetry == Permutations(Req)
=============================================================================
