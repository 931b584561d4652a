------------------------------ MODULE Identity ------------------------------
(***************************************************************************)
(* Who somebody is: signing in, links sent by mail, Google, the phone      *)
(* number, the gate in front of the pages, the login page itself and the   *)
(* account page's address and number.  The seven keep their state in       *)
(* columns, tables and pages of their own, so a behaviour exercises one of *)
(* them, chosen at the start, and the others stand still.                  *)
(***************************************************************************)
EXTENDS SignIn, Tokens, Linking, Phone, Gate, Entrance

VARIABLE concern    \* the part this behaviour exercises

Concerns == {"sign-in", "tokens", "linking", "phone", "gate", "entrance", "contact"}

identityVars == <<concern, signInVars, tokenVars, linkingVars, phoneVars, gateVars, entranceVars, contactVars>>

\* Where several starts are possible, a part that stands still has one of them.
IdentityInit ==
    /\ concern \in Concerns
    /\ SignInInit /\ TokensInit /\ LinkingInit /\ PhoneInit /\ GateInit /\ EntranceInit /\ ContactInit
    /\ concern # "sign-in" => lanes = 1 /\ acct = CHOOSE a \in FirstAccounts : TRUE
    /\ concern # "tokens" => linkLanes = 1
    /\ concern # "linking" => vouched = {}
    /\ concern # "phone" => phoneLanes = 1
    /\ concern # "gate" => page = "/" /\ visitor = CHOOSE v \in Visitor : ~v.signedIn
    /\ concern # "entrance" => face = "login" /\ ~from
    /\ concern # "contact" => onFile.number = 0

IdentityNext ==
    \/ /\ concern = "sign-in" /\ SignInNext
       /\ UNCHANGED <<concern, tokenVars, linkingVars, phoneVars, gateVars, entranceVars, contactVars>>
    \/ /\ concern = "tokens" /\ TokensNext
       /\ UNCHANGED <<concern, signInVars, linkingVars, phoneVars, gateVars, entranceVars, contactVars>>
    \/ /\ concern = "linking" /\ LinkingNext
       /\ UNCHANGED <<concern, signInVars, tokenVars, phoneVars, gateVars, entranceVars, contactVars>>
    \/ /\ concern = "phone" /\ PhoneNext
       /\ UNCHANGED <<concern, signInVars, tokenVars, linkingVars, gateVars, entranceVars, contactVars>>
    \/ /\ concern = "gate" /\ GateNext
       /\ UNCHANGED <<concern, signInVars, tokenVars, linkingVars, phoneVars, entranceVars, contactVars>>
    \/ /\ concern = "entrance" /\ EntranceNext
       /\ UNCHANGED <<concern, signInVars, tokenVars, linkingVars, phoneVars, gateVars, contactVars>>
    \/ /\ concern = "contact" /\ ContactNext
       /\ UNCHANGED <<concern, signInVars, tokenVars, linkingVars, phoneVars, gateVars, entranceVars>>

IdentitySpec == IdentityInit /\ [][IdentityNext]_identityVars

---------------------------------------------------------------------------
IdentityTypeOK ==
    /\ concern \in Concerns
    /\ SignInTypeOK /\ TokensTypeOK /\ LinkingTypeOK /\ PhoneTypeOK /\ EntranceTypeOK
    /\ ContactTypeOK

\* A session works by the password, the lock and the trust in force: whatever
\* overlaps, none outlives a reset and nobody is locked out for nothing; one
\* after the other every failure counts.
SessionsFollowTheAccount ==
    SessionsDieWithReset /\ NobodyIsLockedForNothing /\ FailuresAreCounted
        /\ TrustedDeviceShowedACode

\* Codes by mail, by text, from the app and on paper: guessed a few times,
\* used once, and only while they are the ones last handed out.
CodesHold ==
    GuessesAreCapped /\ OneUseAlone /\ OnlyTheLastSetWorks /\ EnrolledAppIsProven
        /\ PhoneGuessesAreCapped

\* What an account is known by was proved to be its owner's: the address, the
\* number and the Google identity; there is always a way back in, and the
\* account page shows it as it is.
IdentityIsProven ==
    FewLinksOutstanding /\ VerifiedAddressIsProven /\ VerifiedNumberIsProven
        /\ NoUnprovenMerge /\ ConsentPrecedesAccount /\ WayBackIn /\ ContactHolds

\* The gate sends nobody in circles and nobody past what they may see, and the
\* login page brings one person in at a time, all the way.
GateHolds == RedirectsEnd /\ DashboardIsGuarded /\ EntranceHolds

\* No step goes around a second factor, takes over another account's Google
\* identity, moves an account to an address its owner gave up, or accepts a
\* texted code and leaves it to be used again.
NoWayAround == FactorIsAsked /\ NoLinkIsTakenOver /\ LastAskedWins /\ PhoneCodeWorksOnce
=============================================================================
