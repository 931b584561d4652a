----------------------------- MODULE MC_Identity -----------------------------
(***************************************************************************)
(* Instance of Identity: two devices or people and two requests at once in *)
(* every part.  Values that play the same role are symmetric.              *)
(***************************************************************************)
EXTENDS Identity, TLC

CONSTANTS u1, u2, l1, l2, ada, bo, x, y, z, g1

MCCallBound == <<4, 3>>
MCLinkBound == <<4, 3>>
MCPhoneBound == <<4, 5>>

FirstRow(enabled, method, secret, codes) ==
    [active |-> TRUE, failedLoginCount |-> 0, locked |-> FALSE, sessionVersion |-> 0,
     mfaEnabled |-> enabled, mfaMethod |-> method, mfaSecret |-> secret,
     mfaRecoveryCodes |-> codes]

\* No second factor, an app, and emailed codes.
MCFirstAccounts ==
    {FirstRow(FALSE, "none", 0, {}), FirstRow(TRUE, "TOTP", 1, {1} \X RecoverySlots),
     FirstRow(TRUE, "EMAIL", 0, {1} \X RecoverySlots)}

MCFirstAddress == [p \in Person |-> IF p = ada THEN x ELSE NoAddress]
MCGoogleMail == [g \in Identity |-> x]

\* Devices, accounts and callers are one set, lanes and browsers another.
Symmetry == Permutations(Device) \cup Permutations(Lane)
=============================================================================
