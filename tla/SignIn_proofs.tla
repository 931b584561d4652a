--------------------------- MODULE SignIn_proofs ---------------------------
(***************************************************************************)
(* Proofs about SignIn, for any number of devices and of calls that        *)
(* overlap, any limits and any bound on calls: no session outlives a       *)
(* reset and nobody is locked out for nothing, whatever overlaps; and one  *)
(* call after the other, guesses are counted, codes work once, trust is    *)
(* earned, and nobody enters without the factor.                           *)
(***************************************************************************)
EXTENDS SignIn, FiniteSetTheorems, TLAPS

---------------------------------------------------------------------------
(* The inductive invariant                                                 *)

\* What was typed into the code field, as far as it may ever go.
Factor ==
    [kind : {"none"}] \cup [kind : {"app"}, secret : Nat] \cup [kind : {"email"}, id : Nat]
        \cup [kind : {"recovery"}, code : Nat \X RecoverySlots]

Checking == {"succeed", "read code", "burn", "token"}
CheckSteps == Checking \cup {"settle code"}
OnDevice == {"google token", "trust", "store secret", "enable app", "new codes", "disable",
             "enable email", "disable email", "clear code"}
Plain == {"idle", "done", "read cooldown", "issue code", "clear factor"}
Verdicts == {"none", "expired", "ok", "locked", "wrong"}

FailureCall == [pc : {"count failure"}, count : Nat]
CheckCall == [pc : Checking, device : Device, row : AccountRow, factor : Factor, coded : BOOLEAN, resets : Nat]
VerdictCall ==
    [pc : CheckSteps, device : Device, row : AccountRow, factor : Factor, coded : BOOLEAN,
     resets : Nat, verdict : Verdicts, attempts : Nat]
DeviceCall == [pc : OnDevice, device : Device]
PlainCall == [pc : Plain]
SignInCall == FailureCall \cup CheckCall \cup VerdictCall \cup DeviceCall \cup PlainCall

History ==
    [wrong : Nat, streak : Nat, guesses : Nat, resets : Nat, proven : SUBSET Nat,
     spent : SUBSET Factor, twice : SUBSET Factor, shown : SUBSET (Device \X Nat)]

Typed ==
    /\ SignInTypeOK
    /\ call \in [Lane -> SignInCall]
    /\ session \in [Device -> Token \cup {Nowhere}]
    /\ trust \in [Device -> TrustCookie \cup {Nowhere}]
    /\ stepUp \in [Device -> Nat \cup {Nowhere}]
    /\ minted \in [secrets : Nat, sets : Nat, codes : Nat]
    /\ told \in History

\* Codes and sets are numbered as they are made; what was typed is one of them.
Given(f) ==
    /\ f.kind = "email" => f.id <= minted.codes
    /\ f.kind = "recovery" => f.code[1] <= minted.sets

\* What is of the present version was begun after the last reset, and a
\* session by code had one shown; no count is above the failures there were.
TablesAgree ==
    /\ \A d \in Device : session[d] # Nowhere =>
           /\ session[d].sessionVersion = acct.sessionVersion => session[d].resets = told.resets
           /\ session[d].coded => <<d, session[d].sessionVersion>> \in told.shown
    /\ acct.failedLoginCount <= told.wrong /\ NobodyIsLockedForNothing
    /\ otp # Nowhere => otp.id \in 1..minted.codes
    /\ \A f \in told.spent : Given(f)

\* What a call has in hand, as long as it lasts and whatever overlaps.
Agrees(c) ==
    /\ c.pc = "count failure" => c.count <= told.wrong
    /\ c.pc \in CheckSteps =>
           /\ c.row.sessionVersion <= acct.sessionVersion
           /\ c.row.sessionVersion = acct.sessionVersion => c.resets = told.resets
           /\ Given(c.factor)
    /\ c.pc = "burn" => c.factor.kind = "recovery" /\ c.factor.code \in c.row.mfaRecoveryCodes
    /\ c.pc = "settle code" /\ c.verdict = "ok" => c.factor.kind = "email"
    /\ c.pc = "token" /\ c.coded => <<c.device, c.row.sessionVersion>> \in told.shown

CallsAgree == \A l \in Lane : Agrees(call[l])

---------------------------------------------------------------------------
(* One call after the other                                                *)

EmailCode(n) == [kind |-> "email", id |-> n]
RecoveryCode(c) == [kind |-> "recovery", code |-> c]

\* What is in the tables was counted, shown or handed out, and not used.
TablesStand ==
    /\ \A c \in acct.mfaRecoveryCodes : c[1] = minted.sets /\ RecoveryCode(c) \notin told.spent
    /\ acct.mfaEnabled /\ acct.mfaMethod = "TOTP" => acct.mfaSecret \in told.proven \ {0}
    /\ \A d \in Device : trust[d] # Nowhere => <<d, trust[d].sessionVersion>> \in told.shown
    /\ otp # Nowhere => EmailCode(otp.id) \notin told.spent
    /\ OneUse

\* What a call has read is still so: c is the only one.
StillSo(c) ==
    /\ c.pc = "trust" => <<c.device, acct.sessionVersion>> \in told.shown
    /\ c.pc = "store secret" => ~acct.mfaEnabled
    /\ c.pc = "enable app" => acct.mfaSecret \in told.proven \ {0}
    /\ c.pc = "google token" \/ (c.pc \in {"succeed", "token"} /\ ~c.coded) =>
           ~acct.mfaEnabled \/ Trusted(c.device, acct)
    /\ c.pc \in {"read code", "settle code", "burn"} => c.coded /\ c.row.mfaRecoveryCodes = acct.mfaRecoveryCodes
    /\ c.pc = "settle code" /\ c.verdict = "ok" => c.factor \notin told.spent
    /\ c.pc = "succeed" /\ c.coded =>
           /\ c.factor.kind = "email" => c.factor \notin told.spent /\ otp = Nowhere
           /\ c.factor.kind = "recovery" => c.factor \notin told.spent /\ c.factor.code \notin acct.mfaRecoveryCodes

\* The counters are what was counted, but while the call is about to write them.
CountersFollow(c) ==
    /\ acct.failedLoginCount = told.streak \/ c.pc = "count failure"
    /\ c.pc = "count failure" => c.count = told.streak
    /\ \/ otp = Nowhere \/ c.pc = "settle code"
       \/ otp.attempts = told.guesses /\ told.guesses < MAX_ATTEMPTS
    /\ c.pc = "settle code" =>
           /\ c.verdict = "wrong" => c.attempts = told.guesses /\ told.guesses < MAX_ATTEMPTS
           /\ c.verdict = "none" => otp = Nowhere

\* At most the call in lane l is in flight.
StandsAlone(l) ==
    /\ \A k \in Lane \ {l} : call[k] = NoCall
    /\ StillSo(call[l]) /\ CountersFollow(call[l])

AloneInv == Alone => TablesStand /\ \E l \in Lane : StandsAlone(l)

SignInInv == Typed /\ TablesAgree /\ CallsAgree /\ AloneInv

---------------------------------------------------------------------------
(* Calls                                                                   *)

\* The step tells what kind of call it is.
LEMMA KindOfSignInCall ==
    ASSUME NEW c \in SignInCall
    PROVE  /\ c.pc = "count failure" => c \in FailureCall
           /\ c.pc = "read code" => c \in CheckCall \cup VerdictCall
           /\ c.pc = "settle code" => c \in VerdictCall
           /\ c.pc \in CheckSteps => /\ c \in CheckCall \cup VerdictCall
                                    /\ c.device \in Device /\ c.row \in AccountRow /\ c.factor \in Factor
                                    /\ c.coded \in BOOLEAN /\ c.resets \in Nat
           /\ c.pc \in OnDevice => c \in DeviceCall /\ c.device \in Device
<1>1. CASE c \in FailureCall
  BY <1>1 DEF FailureCall, Checking, CheckSteps, OnDevice
<1>2. CASE c \in CheckCall
  BY <1>2 DEF CheckCall, Checking, CheckSteps, OnDevice
<1>3. CASE c \in VerdictCall
  BY <1>3 DEF VerdictCall, Checking, CheckSteps, OnDevice
<1>4. CASE c \in DeviceCall
  BY <1>4 DEF DeviceCall, Checking, CheckSteps, OnDevice
<1>5. CASE c \in PlainCall
  BY <1>5 DEF PlainCall, Plain, Checking, CheckSteps, OnDevice
<1>6. QED
  BY <1>1, <1>2, <1>3, <1>4, <1>5 DEF SignInCall

\* A check that goes on is one still, and keeps what it carries.
LEMMA ChecksGoOn ==
    ASSUME NEW c \in SignInCall, c.pc \in CheckSteps, NEW pc \in Checking \ {"read code"}
    PROVE  /\ [c EXCEPT !.pc = pc] \in SignInCall /\ [c EXCEPT !.pc = pc].pc = pc
           /\ [c EXCEPT !.pc = pc].device = c.device /\ [c EXCEPT !.pc = pc].row = c.row
           /\ [c EXCEPT !.pc = pc].factor = c.factor /\ [c EXCEPT !.pc = pc].coded = c.coded
           /\ [c EXCEPT !.pc = pc].resets = c.resets
<1>1. CASE c \in CheckCall
  BY <1>1 DEF CheckCall, SignInCall, Checking
<1>2. CASE c \in VerdictCall
  BY <1>2 DEF VerdictCall, SignInCall, Checking, CheckSteps
<1>3. QED
  BY <1>1, <1>2, KindOfSignInCall

LEMMA PlainCalls ==
    /\ NoCall \in SignInCall /\ NoCall.pc = "idle"
    /\ \A pc \in Plain : [pc |-> pc] \in SignInCall
    /\ \A pc \in OnDevice, d \in Device : [pc |-> pc, device |-> d] \in SignInCall
BY DEF NoCall, SignInCall, PlainCall, Plain, DeviceCall

\* One lane goes on, the others stand.
Moves(l, c) == /\ call' \in [Lane -> SignInCall] /\ call'[l] = c
               /\ \A k \in Lane \ {l} : call'[k] = call[k]
               /\ lanes' = lanes /\ calls' \in 0..CallBound[lanes]

LEMMA BoundIsANumber == Typed => CallBound[lanes] \in Nat /\ calls \in Nat
BY SignInAssumption DEF Typed, SignInTypeOK

LEMMA StartMoves ==
    ASSUME Typed, NEW l \in Lane, NEW c \in SignInCall, Start(l, c)
    PROVE  Moves(l, c) /\ call[l] = NoCall
BY BoundIsANumber DEF Typed, SignInTypeOK, Start, Moves

LEMMA GoMoves ==
    ASSUME Typed, NEW l \in Lane, NEW pc, [call[l] EXCEPT !.pc = pc] \in SignInCall, Go(l, pc)
    PROVE  Moves(l, [call[l] EXCEPT !.pc = pc])
BY DEF Typed, SignInTypeOK, Go, Moves

LEMMA ReturnMoves ==
    ASSUME Typed, NEW l \in Lane, Return(l)
    PROVE  Moves(l, NoCall)
BY PlainCalls DEF Typed, SignInTypeOK, Return, Moves

\* What a sign-in that passed its first checks goes on with.
BeginsCheck(l, d, f, c) ==
    /\ Start(l, c) /\ c \in CheckCall /\ c.pc \in {"succeed", "read code", "burn"}
    /\ c.device = d /\ c.row = acct /\ c.factor = f /\ c.resets = told.resets
    /\ ~c.coded => c.pc = "succeed" /\ (~acct.mfaEnabled \/ Trusted(d, acct))
    /\ c.pc = "burn" => f.kind = "recovery" /\ f.code \in acct.mfaRecoveryCodes
    /\ c.pc = "succeed" /\ c.coded => f.kind = "app"
    /\ UNCHANGED <<acct, otp, session, trust, stepUp, minted, told>>

LEMMA FactorsAreGiven ==
    ASSUME Typed, NEW f \in Factors
    PROVE  f \in Factor /\ Given(f) /\ f.kind \in {"none", "app", "email", "recovery"}
BY DEF Typed, Factors, Factor, Given

LEMMA FactorSteps ==
    ASSUME NEW row, NEW f
    PROVE  /\ FactorStep(row, f) \in {"succeed", "read code", "burn", "refused"}
           /\ FactorStep(row, f) = "succeed" => f.kind = "app"
           /\ FactorStep(row, f) = "burn" => f.kind = "recovery" /\ f.code \in row.mfaRecoveryCodes
BY DEF FactorStep

LEMMA CheckBegins ==
    ASSUME Typed, NEW l \in Lane, NEW d \in Device, NEW f \in Factors,
           RightPassword(l, d, f) \/ ContinueWithCode(l, d, f)
    PROVE  \E c : BeginsCheck(l, d, f, c)
<1>1. acct \in AccountRow /\ told.resets \in Nat /\ f \in Factor
  BY FactorsAreGiven DEF Typed, SignInTypeOK, History
<1>2. CASE RightPassword(l, d, f)
  <2> DEFINE free == ~acct.mfaEnabled \/ Trusted(d, acct)
             pc == IF free THEN "succeed" ELSE FactorStep(acct, f)
  <2>1. /\ free \in BOOLEAN /\ pc # "refused"
        /\ Start(l, [pc |-> pc, device |-> d, row |-> acct, factor |-> f,
                     coded |-> ~free, resets |-> told.resets])
    BY <1>2 DEF RightPassword
  <2>2. PICK c : c = [pc |-> pc, device |-> d, row |-> acct, factor |-> f,
                      coded |-> ~free, resets |-> told.resets]
    OBVIOUS
  <2>3. pc \in {"succeed", "read code", "burn"}
    BY <2>1, FactorSteps
  <2>4. c \in CheckCall
    BY <1>1, <2>2, <2>3 DEF CheckCall, Checking
  <2>5. UNCHANGED <<acct, otp, session, trust, stepUp, minted, told>>
    BY <1>2 DEF RightPassword
  <2>6. QED
    BY <2>1, <2>2, <2>3, <2>4, <2>5, FactorSteps DEF BeginsCheck
<1>3. CASE ContinueWithCode(l, d, f)
  <2>1. PICK c : c = [pc |-> FactorStep(acct, f), device |-> d, row |-> acct, factor |-> f,
                      coded |-> TRUE, resets |-> told.resets]
    OBVIOUS
  <2>2. FactorStep(acct, f) \in {"succeed", "read code", "burn"}
    BY <1>3, FactorSteps DEF ContinueWithCode
  <2>3. c \in CheckCall
    BY <1>1, <2>1, <2>2 DEF CheckCall, Checking
  <2>4. QED
    BY <1>3, <2>1, <2>2, <2>3, FactorSteps DEF BeginsCheck, ContinueWithCode
<1>4. QED
  BY <1>2, <1>3

\* The calls that begin with a step of their own and leave the tables alone.
QuietBeginning(l, d) ==
    \/ AskForCode(l, d) \/ Remember(l, d) \/ BeginMfaSetup(l, d) \/ RegenerateRecoveryCodes(l, d)
    \/ DisableMfa(l, d) \/ EnableEmailOtp(l, d) \/ DisableEmailOtp(l, d)

LEMMA QuietlyBegins ==
    ASSUME NEW l \in Lane, NEW d \in Device, QuietBeginning(l, d)
    PROVE  /\ \E c \in SignInCall : /\ Start(l, c) /\ c.pc \notin CheckSteps \cup {"count failure", "google token", "enable app"}
                                    /\ c.pc = "trust" => c.device = d /\ Working(d) /\ session[d].coded
                                    /\ c.pc = "store secret" => ~acct.mfaEnabled
           /\ UNCHANGED <<acct, otp, session, trust, stepUp, minted, told>>
<1>1. CASE AskForCode(l, d)
  BY <1>1, PlainCalls DEF AskForCode, Plain, CheckSteps, Checking
<1>2. CASE Remember(l, d)
  BY <1>2, PlainCalls DEF Remember, OnDevice, CheckSteps, Checking
<1>3. CASE BeginMfaSetup(l, d)
  BY <1>3, PlainCalls DEF BeginMfaSetup, Ask, OnDevice, CheckSteps, Checking
<1>4. CASE \/ RegenerateRecoveryCodes(l, d) \/ DisableMfa(l, d) \/ EnableEmailOtp(l, d)
           \/ DisableEmailOtp(l, d)
  <2>1. PICK pc \in {"new codes", "disable", "enable email", "disable email"} : Ask(l, d, pc)
    BY <1>4 DEF RegenerateRecoveryCodes, DisableMfa, EnableEmailOtp, DisableEmailOtp
  <2>2. QED
    BY <2>1, PlainCalls DEF Ask, OnDevice, CheckSteps, Checking
<1>5. QED
  BY <1>1, <1>2, <1>3, <1>4 DEF QuietBeginning

\* The calls that write as they begin.
LoudBeginning(l, d) ==
    \/ WrongPassword(l) \/ GoogleSignIn(l, d) \/ ConfirmMfaSetup(l, d) \/ ResetPassword(l)
    \/ ResetUserMfa(l) \/ SignOutEverywhere(l, d) \/ ForgetDevice(l, d)
    \/ \E active \in BOOLEAN : SetActive(l, active)

LEMMA LoudlyBegins ==
    ASSUME Typed, NEW l \in Lane, NEW d \in Device, LoudBeginning(l, d)
    PROVE  \E c \in SignInCall : Start(l, c)
<1>1. acct.failedLoginCount + 1 \in Nat
  BY DEF Typed, SignInTypeOK, AccountRow
<1>2. CASE WrongPassword(l)
  BY <1>1, <1>2 DEF WrongPassword, SignInCall, FailureCall
<1>3. CASE GoogleSignIn(l, d)
  BY <1>3, PlainCalls DEF GoogleSignIn, Plain, OnDevice
<1>4. CASE ConfirmMfaSetup(l, d)
  BY <1>4, PlainCalls DEF ConfirmMfaSetup, OnDevice
<1>5. CASE ResetPassword(l) \/ ResetUserMfa(l) \/ SignOutEverywhere(l, d) \/ ForgetDevice(l, d)
           \/ \E active \in BOOLEAN : SetActive(l, active)
  BY <1>5, PlainCalls DEF ResetPassword, ResetUserMfa, SignOutEverywhere, ForgetDevice, SetActive, Plain
<1>6. QED
  BY <1>2, <1>3, <1>4, <1>5 DEF LoudBeginning

\* A step of a call goes on in the same lane, or ends it.
LEMMA StepMoves ==
    ASSUME Typed, NEW l \in Lane, CallStep(l)
    PROVE  call[l] # NoCall /\ \E c \in SignInCall : Moves(l, c)
<1>1. call[l] \in SignInCall
  BY DEF Typed
<1>2. CASE Return(l)
  <2>1. call[l] # NoCall
    BY <1>2, PlainCalls DEF CallStep, CountFailure, SettleCode, MintToken, MintGoogleToken, Done, ReadCooldown,
       IssueCode, SetTrustCookie, StoreSecret, EnableApp, StoreNewCodes, RemoveFactor, SwitchToEmail,
       ClearCode, ClearFactor, At, ReadCode, BurnRecoveryCode, Succeed, SwitchOffEmail
  <2>2. QED
    BY <1>2, <2>1, ReturnMoves, PlainCalls
<1>3. CASE ReadCode(l)
  <2>1. call[l].pc = "read code" /\ call[l].pc \in CheckSteps
    BY <1>3 DEF ReadCode, At, CheckSteps, Checking
  <2>2. Judge(call[l].factor) \in Verdicts
    BY DEF Judge, Verdicts
  <2>3. (IF otp = Nowhere THEN 0 ELSE otp.attempts + 1) \in Nat
    BY DEF Typed, SignInTypeOK, OtpRow
  <2>4. PICK c : /\ c = [pc |-> "settle code", device |-> call[l].device, row |-> call[l].row,
                          factor |-> call[l].factor, coded |-> call[l].coded, resets |-> call[l].resets,
                          verdict |-> Judge(call[l].factor),
                          attempts |-> IF otp = Nowhere THEN 0 ELSE otp.attempts + 1]
                 /\ call' = [call EXCEPT ![l] = c] /\ UNCHANGED <<calls, lanes>>
    BY <1>3 DEF ReadCode
  <2>5. c \in VerdictCall
    BY <1>1, <2>1, <2>2, <2>3, <2>4, KindOfSignInCall DEF VerdictCall, CheckSteps
  <2>6. QED
    BY <2>1, <2>4, <2>5, PlainCalls DEF Typed, SignInTypeOK, SignInCall, Moves
<1>4. CASE SettleCode(l) \/ BurnRecoveryCode(l) \/ Succeed(l)
  <2>1. call[l].pc \in CheckSteps /\ call[l] # NoCall
    BY <1>4, PlainCalls DEF SettleCode, BurnRecoveryCode, Succeed, At, CheckSteps, Checking
  <2>2. Return(l) \/ \E pc \in Checking \ {"read code"} : Go(l, pc)
    BY <1>4 DEF SettleCode, BurnRecoveryCode, Succeed, Checking
  <2>3. QED
    BY <1>1, <1>2, <2>1, <2>2, ChecksGoOn, GoMoves
<1>5. CASE ReadCooldown(l)
  <2>1. call[l].pc = "read cooldown" /\ (Return(l) \/ Go(l, "issue code"))
    BY <1>5 DEF ReadCooldown, At
  <2>2. call[l] \in PlainCall
    BY <1>1, <2>1 DEF SignInCall, PlainCall, FailureCall, CheckCall, VerdictCall, DeviceCall, Checking, CheckSteps, OnDevice
  <2>3. [call[l] EXCEPT !.pc = "issue code"] \in SignInCall
    BY <2>2 DEF PlainCall, Plain, SignInCall
  <2>4. QED
    BY <1>2, <2>1, <2>3, GoMoves, PlainCalls
<1>6. CASE SwitchOffEmail(l)
  <2>1. call[l].pc = "disable email" /\ Go(l, "clear code")
    BY <1>6 DEF SwitchOffEmail, At
  <2>2. call[l] \in DeviceCall
    BY <1>1, <2>1, KindOfSignInCall DEF OnDevice
  <2>3. [call[l] EXCEPT !.pc = "clear code"] \in SignInCall
    BY <2>2 DEF DeviceCall, OnDevice, SignInCall
  <2>4. QED
    BY <2>1, <2>3, GoMoves, PlainCalls
<1>7. QED
  BY <1>2, <1>3, <1>4, <1>5, <1>6 DEF CallStep, CountFailure, MintToken, MintGoogleToken, Done,
     IssueCode, SetTrustCookie, StoreSecret, EnableApp, StoreNewCodes, RemoveFactor, SwitchToEmail,
     ClearCode, ClearFactor

LEMMA BeginningStarts ==
    ASSUME Typed, NEW l \in Lane, BeginCall(l)
    PROVE  \E c \in SignInCall : Start(l, c)
<1>1. CASE \E d \in Device, f \in Factors : RightPassword(l, d, f) \/ ContinueWithCode(l, d, f)
  BY <1>1, CheckBegins DEF BeginsCheck, SignInCall
<1>2. CASE \E d \in Device : QuietBeginning(l, d) \/ LoudBeginning(l, d)
  BY <1>2, QuietlyBegins, LoudlyBegins
<1>3. CASE \/ WrongPassword(l) \/ ResetPassword(l) \/ ResetUserMfa(l)
           \/ \E active \in BOOLEAN : SetActive(l, active)
  <2>1. acct.failedLoginCount + 1 \in Nat
    BY DEF Typed, SignInTypeOK, AccountRow
  <2>2. QED
    BY <1>3, <2>1, PlainCalls DEF WrongPassword, ResetPassword, ResetUserMfa, SetActive, SignInCall, FailureCall, Plain
<1>4. QED
  BY <1>1, <1>2, <1>3 DEF BeginCall, QuietBeginning, LoudBeginning

\* Every step of the whole is one of these.
LEMMA OneLaneMoves ==
    ASSUME Typed, NEW l \in Lane, BeginCall(l) \/ CallStep(l)
    PROVE  \E c \in SignInCall : Moves(l, c) /\ (call[l] = NoCall \/ CallStep(l))
BY BeginningStarts, StartMoves, StepMoves

---------------------------------------------------------------------------
(* Which steps write to which table                                        *)

\* The steps that write to the account as a call goes on, and as one begins.
Rewrites(l) ==
    \/ CountFailure(l) \/ BurnRecoveryCode(l) \/ Succeed(l) \/ StoreSecret(l) \/ EnableApp(l)
    \/ StoreNewCodes(l) \/ RemoveFactor(l) \/ SwitchToEmail(l) \/ SwitchOffEmail(l) \/ ClearFactor(l)

BeginsWithWrite(l) ==
    \/ ResetPassword(l) \/ (\E d \in Device : SignOutEverywhere(l, d))
    \/ \E active \in BOOLEAN : SetActive(l, active)

LEMMA WritersOfAcct ==
    ASSUME [SignInNext]_signInVars
    PROVE  UNCHANGED acct \/ LockExpires \/ \E l \in Lane : Rewrites(l) \/ BeginsWithWrite(l)
<1>1. ASSUME NEW l \in Lane, CallStep(l), ~Rewrites(l)
      PROVE  UNCHANGED acct
  BY <1>1 DEF CallStep, Rewrites, ReadCode, SettleCode, MintToken, MintGoogleToken, Done, ReadCooldown, IssueCode,
     SetTrustCookie, ClearCode
<1>2. ASSUME NEW l \in Lane, BeginCall(l), ~BeginsWithWrite(l)
      PROVE  UNCHANGED acct
  BY <1>2 DEF BeginCall, BeginsWithWrite, WrongPassword, RightPassword, ContinueWithCode, GoogleSignIn, AskForCode,
     Remember, BeginMfaSetup, ConfirmMfaSetup, RegenerateRecoveryCodes, DisableMfa, EnableEmailOtp,
     DisableEmailOtp, ForgetDevice, ResetUserMfa, Ask
<1>3. ASSUME CodeAges \/ UNCHANGED signInVars
      PROVE  UNCHANGED acct
  BY <1>3 DEF CodeAges, signInVars
<1>4. QED
  BY <1>1, <1>2, <1>3 DEF SignInNext

LEMMA WritersOfOtp ==
    ASSUME [SignInNext]_signInVars
    PROVE  UNCHANGED otp \/ CodeAges \/ \E l \in Lane : SettleCode(l) \/ IssueCode(l) \/ ClearCode(l)
<1>1. ASSUME NEW l \in Lane, CallStep(l), ~(SettleCode(l) \/ IssueCode(l) \/ ClearCode(l))
      PROVE  UNCHANGED otp
  BY <1>1 DEF CallStep, CountFailure, ReadCode, BurnRecoveryCode, Succeed, MintToken, MintGoogleToken, Done,
     ReadCooldown, SetTrustCookie, RemoveFactor, SwitchToEmail, SwitchOffEmail, ClearFactor, StoreSecret,
     EnableApp, StoreNewCodes
<1>2. ASSUME NEW l \in Lane, BeginCall(l)
      PROVE  UNCHANGED otp
  BY <1>2 DEF BeginCall, WrongPassword, RightPassword, ContinueWithCode, GoogleSignIn, AskForCode,
     Remember, BeginMfaSetup, ConfirmMfaSetup, RegenerateRecoveryCodes, DisableMfa, EnableEmailOtp,
     DisableEmailOtp, ForgetDevice, ResetUserMfa, Ask, ResetPassword, SignOutEverywhere, SetActive
<1>3. ASSUME LockExpires \/ UNCHANGED signInVars
      PROVE  UNCHANGED otp
  BY <1>3 DEF LockExpires, signInVars
<1>4. QED
  BY <1>1, <1>2, <1>3 DEF SignInNext

LEMMA WritersOfMinted ==
    ASSUME [SignInNext]_signInVars
    PROVE  UNCHANGED minted \/ \E l \in Lane : IssueCode(l) \/ StoreSecret(l) \/ EnableApp(l) \/ StoreNewCodes(l)
<1>1. ASSUME NEW l \in Lane, CallStep(l), ~(IssueCode(l) \/ StoreSecret(l) \/ EnableApp(l) \/ StoreNewCodes(l))
      PROVE  UNCHANGED minted
  BY <1>1 DEF CallStep, CountFailure, ReadCode, SettleCode, BurnRecoveryCode, Succeed, MintToken, MintGoogleToken, Done,
     ReadCooldown, SetTrustCookie, RemoveFactor, SwitchToEmail, SwitchOffEmail, ClearFactor, ClearCode
<1>2. ASSUME NEW l \in Lane, BeginCall(l)
      PROVE  UNCHANGED minted
  BY <1>2 DEF BeginCall, WrongPassword, RightPassword, ContinueWithCode, GoogleSignIn, AskForCode,
     Remember, BeginMfaSetup, ConfirmMfaSetup, RegenerateRecoveryCodes, DisableMfa, EnableEmailOtp,
     DisableEmailOtp, ForgetDevice, ResetUserMfa, Ask, ResetPassword, SignOutEverywhere, SetActive
<1>3. ASSUME LockExpires \/ CodeAges \/ UNCHANGED signInVars
      PROVE  UNCHANGED minted
  BY <1>3 DEF LockExpires, CodeAges, signInVars
<1>4. QED
  BY <1>1, <1>2, <1>3 DEF SignInNext

LEMMA WritersOfTold ==
    ASSUME [SignInNext]_signInVars
    PROVE  \/ UNCHANGED told
           \/ \E l \in Lane : \/ ReadCode(l) \/ IssueCode(l) \/ Succeed(l) \/ WrongPassword(l) \/ ResetPassword(l)
                             \/ \E d \in Device : ConfirmMfaSetup(l, d)
<1>1. ASSUME NEW l \in Lane, CallStep(l), ~(ReadCode(l) \/ IssueCode(l) \/ Succeed(l))
      PROVE  UNCHANGED told
  BY <1>1 DEF CallStep, CountFailure, SettleCode, BurnRecoveryCode, MintToken, MintGoogleToken, Done, StoreSecret,
     EnableApp, StoreNewCodes, ClearCode, ReadCooldown, SetTrustCookie, RemoveFactor, SwitchToEmail, SwitchOffEmail,
     ClearFactor
<1>2. ASSUME NEW l \in Lane, BeginCall(l),
             ~(WrongPassword(l) \/ ResetPassword(l) \/ \E d \in Device : ConfirmMfaSetup(l, d))
      PROVE  UNCHANGED told
  BY <1>2 DEF BeginCall, RightPassword, ContinueWithCode, GoogleSignIn, AskForCode,
     Remember, BeginMfaSetup, RegenerateRecoveryCodes, DisableMfa, EnableEmailOtp,
     DisableEmailOtp, ForgetDevice, ResetUserMfa, Ask, SignOutEverywhere, SetActive
<1>3. ASSUME LockExpires \/ CodeAges \/ UNCHANGED signInVars
      PROVE  UNCHANGED told
  BY <1>3 DEF LockExpires, CodeAges, signInVars
<1>4. QED
  BY <1>1, <1>2, <1>3 DEF SignInNext

---------------------------------------------------------------------------
(* The state keeps its shape                                               *)

LEMMA AcctStep ==
    ASSUME Typed, [SignInNext]_signInVars
    PROVE  acct' \in AccountRow /\ acct.sessionVersion <= acct'.sessionVersion
<1>1. acct \in AccountRow /\ minted \in [secrets : Nat, sets : Nat, codes : Nat]
  BY DEF Typed, SignInTypeOK
<1> DEFINE next == acct.sessionVersion + 1
<1>0. next \in Nat /\ acct.sessionVersion <= next
  BY <1>1 DEF AccountRow
<1> HIDE DEF next
<1>2. ASSUME NEW l \in Lane, Rewrites(l)
      PROVE  acct' \in AccountRow /\ acct.sessionVersion <= acct'.sessionVersion
  <2>1. CASE CountFailure(l)
    <3>1. call[l].count \in Nat
      <4>1. call[l] \in SignInCall /\ call[l].pc = "count failure"
        BY <2>1 DEF CountFailure, At, Typed
      <4>2. QED
        BY <4>1, KindOfSignInCall DEF FailureCall
    <3>2. nextLockout(call[l].count) \in BOOLEAN
      BY DEF nextLockout
    <3>3. acct' = [acct EXCEPT !.failedLoginCount = call[l].count, !.locked = nextLockout(call[l].count)]
      BY <2>1 DEF CountFailure
    <3>4. acct' \in AccountRow
      BY <1>1, <3>1, <3>2, <3>3 DEF AccountRow
    <3>5. acct.sessionVersion <= acct'.sessionVersion
      BY <1>1, <3>1, <3>2, <3>3 DEF AccountRow
    <3>6. QED
      BY <3>4, <3>5
  <2>2. CASE BurnRecoveryCode(l)
    <3>1. call[l].row.mfaRecoveryCodes \subseteq Nat \X RecoverySlots
      BY <2>2, KindOfSignInCall DEF BurnRecoveryCode, At, Typed, CheckSteps, Checking, AccountRow
    <3>2. PICK codes \in SUBSET (Nat \X RecoverySlots) : acct' = [acct EXCEPT !.mfaRecoveryCodes = codes]
      BY <2>2, <3>1 DEF BurnRecoveryCode
    <3>3. acct' \in AccountRow
      BY <1>1, <3>2 DEF AccountRow
    <3>4. acct.sessionVersion <= acct'.sessionVersion
      BY <1>1, <3>2 DEF AccountRow
    <3>5. QED
      BY <3>3, <3>4
  <2>3. CASE Succeed(l)
    <3>1. acct' = [acct EXCEPT !.failedLoginCount = 0, !.locked = FALSE]
      BY <2>3 DEF Succeed
    <3>2. acct' \in AccountRow
      BY <1>1, <3>1 DEF AccountRow
    <3>3. acct.sessionVersion <= acct'.sessionVersion
      BY <1>1, <3>1 DEF AccountRow
    <3>4. QED
      BY <3>2, <3>3
  <2>4. CASE StoreSecret(l)
    <3>1. PICK n \in Nat : acct' = [acct EXCEPT !.mfaSecret = n]
      <4>1. minted' = [minted EXCEPT !.secrets = @ + 1] /\ acct' = [acct EXCEPT !.mfaSecret = minted'.secrets]
        BY <2>4 DEF StoreSecret
      <4>2. minted'.secrets \in Nat
        BY <1>1, <4>1
      <4>3. QED
        BY <4>1, <4>2
    <3>2. acct' \in AccountRow
      BY <1>1, <3>1 DEF AccountRow
    <3>3. acct.sessionVersion <= acct'.sessionVersion
      BY <1>1, <3>1 DEF AccountRow
    <3>4. QED
      BY <3>2, <3>3
  <2>5. CASE EnableApp(l) \/ StoreNewCodes(l)
    <3>1. minted'.sets \in Nat
      <4>1. minted' = [minted EXCEPT !.sets = @ + 1]
        BY <2>5 DEF EnableApp, StoreNewCodes
      <4>2. QED
        BY <1>1, <4>1
    <3>2. {minted'.sets} \X RecoverySlots \subseteq Nat \X RecoverySlots
      BY <3>1
    <3>3. PICK codes \in SUBSET (Nat \X RecoverySlots) :
              acct' \in {[acct EXCEPT !.mfaRecoveryCodes = codes],
                         [acct EXCEPT !.mfaEnabled = TRUE, !.mfaMethod = "TOTP", !.mfaRecoveryCodes = codes]}
      BY <2>5, <3>2 DEF EnableApp, StoreNewCodes
    <3>4. acct' \in AccountRow
      BY <1>1, <3>3 DEF AccountRow, Methods
    <3>5. acct.sessionVersion <= acct'.sessionVersion
      <4>1. acct'.sessionVersion = acct.sessionVersion
        BY <1>1, <3>3 DEF AccountRow
      <4>2. QED
        BY <1>1, <4>1 DEF AccountRow
    <3>6. QED
      BY <3>4, <3>5
  <2>6. CASE RemoveFactor(l)
    <3>1. acct' = [acct EXCEPT !.mfaEnabled = FALSE, !.mfaMethod = "none", !.mfaSecret = 0, !.mfaRecoveryCodes = {}]
      BY <2>6 DEF RemoveFactor
    <3>2. acct' \in AccountRow
      BY <1>1, <3>1 DEF AccountRow, Methods
    <3>3. acct.sessionVersion <= acct'.sessionVersion
      BY <1>1, <3>1 DEF AccountRow
    <3>4. QED
      BY <3>2, <3>3
  <2>7. CASE SwitchToEmail(l)
    <3>1. acct' = [acct EXCEPT !.mfaEnabled = TRUE, !.mfaMethod = "EMAIL", !.sessionVersion = next]
      BY <2>7 DEF SwitchToEmail, next
    <3>2. acct' \in AccountRow
      BY <1>0, <1>1, <3>1 DEF AccountRow, Methods
    <3>3. acct'.sessionVersion = next
      BY <1>1, <3>1 DEF AccountRow
    <3>4. QED
      BY <1>0, <3>2, <3>3
  <2>8. CASE SwitchOffEmail(l)
    <3>1. acct' = [acct EXCEPT !.mfaEnabled = FALSE, !.mfaMethod = "none", !.sessionVersion = next]
      BY <2>8 DEF SwitchOffEmail, next
    <3>2. acct' \in AccountRow
      BY <1>0, <1>1, <3>1 DEF AccountRow, Methods
    <3>3. acct'.sessionVersion = next
      BY <1>1, <3>1 DEF AccountRow
    <3>4. QED
      BY <1>0, <3>2, <3>3
  <2>9. CASE ClearFactor(l)
    <3>1. acct' = [acct EXCEPT !.mfaEnabled = FALSE, !.mfaSecret = 0, !.mfaRecoveryCodes = {}, !.sessionVersion = next]
      BY <2>9 DEF ClearFactor, next
    <3>2. acct' \in AccountRow
      BY <1>0, <1>1, <3>1 DEF AccountRow, Methods
    <3>3. acct'.sessionVersion = next
      BY <1>1, <3>1 DEF AccountRow
    <3>4. QED
      BY <1>0, <3>2, <3>3
  <2>10. QED
    BY <1>2, <2>1, <2>2, <2>3, <2>4, <2>5, <2>6, <2>7, <2>8, <2>9 DEF Rewrites
<1>4. ASSUME NEW l \in Lane, BeginsWithWrite(l)
      PROVE  acct' \in AccountRow /\ acct.sessionVersion <= acct'.sessionVersion
  <2>1. PICK active \in BOOLEAN :
            \/ acct' = [acct EXCEPT !.sessionVersion = next]
            \/ acct' = [acct EXCEPT !.active = active, !.sessionVersion = next]
            \/ acct' = [acct EXCEPT !.failedLoginCount = 0, !.locked = FALSE, !.sessionVersion = next]
    BY <1>4 DEF BeginsWithWrite, ResetPassword, SignOutEverywhere, SetActive, next
  <2>2. CASE acct' = [acct EXCEPT !.sessionVersion = next]
    <3>1. acct' \in AccountRow
      BY <1>0, <1>1, <2>2 DEF AccountRow
    <3>2. acct'.sessionVersion = next
      BY <1>1, <2>2 DEF AccountRow
    <3>3. QED
      BY <1>0, <3>1, <3>2
  <2>3. CASE acct' = [acct EXCEPT !.active = active, !.sessionVersion = next]
    <3>1. acct' \in AccountRow
      BY <1>0, <1>1, <2>3 DEF AccountRow
    <3>2. acct'.sessionVersion = next
      BY <1>1, <2>3 DEF AccountRow
    <3>3. QED
      BY <1>0, <3>1, <3>2
  <2>4. CASE acct' = [acct EXCEPT !.failedLoginCount = 0, !.locked = FALSE, !.sessionVersion = next]
    <3>1. acct' \in AccountRow
      BY <1>0, <1>1, <2>4 DEF AccountRow
    <3>2. acct'.sessionVersion = next
      BY <1>1, <2>4 DEF AccountRow
    <3>3. QED
      BY <1>0, <3>1, <3>2
  <2>5. QED
    BY <2>1, <2>2, <2>3, <2>4
<1>5. CASE LockExpires
  <2>1. acct' = [acct EXCEPT !.locked = FALSE]
    BY <1>5 DEF LockExpires
  <2>2. acct' \in AccountRow
    BY <1>1, <2>1 DEF AccountRow
  <2>3. acct.sessionVersion <= acct'.sessionVersion
    BY <1>1, <2>1 DEF AccountRow
  <2>4. QED
    BY <2>2, <2>3
<1>7. acct.sessionVersion <= acct.sessionVersion
  BY <1>1 DEF AccountRow
<1>8. ASSUME UNCHANGED acct
      PROVE  acct' \in AccountRow /\ acct.sessionVersion <= acct'.sessionVersion
  BY <1>1, <1>7, <1>8
<1>9. QED
  BY <1>2, <1>4, <1>5, <1>8, WritersOfAcct

LEMMA OtpStep ==
    ASSUME Typed, [SignInNext]_signInVars
    PROVE  /\ otp' = Nowhere \/ otp' \in OtpRow
           /\ minted' \in [secrets : Nat, sets : Nat, codes : Nat]
           /\ minted.sets <= minted'.sets /\ minted.codes <= minted'.codes
<1>1. minted \in [secrets : Nat, sets : Nat, codes : Nat] /\ (otp = Nowhere \/ otp \in OtpRow)
  BY DEF Typed, SignInTypeOK
<1>2. ASSUME NEW l \in Lane, SettleCode(l)
      PROVE  (otp' = Nowhere \/ otp' \in OtpRow) /\ UNCHANGED minted
  <2>1. call[l] \in SignInCall /\ call[l].pc = "settle code"
    BY <1>2 DEF SettleCode, At, Typed
  <2>2. call[l].attempts \in Nat
    BY <2>1, KindOfSignInCall DEF VerdictCall
  <2>3. PICK n \in Nat :
            otp' = Nowhere \/ otp' = otp \/ (otp # Nowhere /\ otp' = [otp EXCEPT !.attempts = n])
    BY <1>2, <2>2 DEF SettleCode
  <2>4. otp' = Nowhere \/ otp' \in OtpRow
    BY <1>1, <2>3 DEF OtpRow
  <2>5. QED
    BY <1>2, <2>4 DEF SettleCode
<1>3. ASSUME NEW l \in Lane, IssueCode(l)
      PROVE  otp' \in OtpRow /\ minted' = [minted EXCEPT !.codes = @ + 1]
  <2>1. /\ minted' = [minted EXCEPT !.codes = @ + 1]
        /\ otp' = [id |-> minted'.codes, attempts |-> 0, expired |-> FALSE, recent |-> TRUE]
    BY <1>3 DEF IssueCode
  <2>2. minted'.codes \in Nat
    BY <1>1, <2>1
  <2>3. QED
    BY <2>1, <2>2 DEF OtpRow
<1>4. ASSUME NEW l \in Lane, StoreSecret(l) \/ EnableApp(l) \/ StoreNewCodes(l)
      PROVE  otp' = otp /\ minted' \in {[minted EXCEPT !.secrets = @ + 1], [minted EXCEPT !.sets = @ + 1]}
  BY <1>4 DEF StoreSecret, EnableApp, StoreNewCodes
<1>5. ASSUME NEW l \in Lane, ClearCode(l)
      PROVE  otp' = Nowhere /\ minted' = minted
  BY <1>5 DEF ClearCode
<1>6. CASE CodeAges
  <2>1. otp # Nowhere /\ otp' \in {[otp EXCEPT !.recent = FALSE], [otp EXCEPT !.expired = TRUE]} /\ minted' = minted
    BY <1>6 DEF CodeAges
  <2>2. otp' \in OtpRow
    BY <1>1, <2>1 DEF OtpRow
  <2>3. QED
    BY <1>1, <2>1, <2>2
<1>7. minted' \in [secrets : Nat, sets : Nat, codes : Nat]
  BY <1>1, <1>3, <1>4, WritersOfMinted
<1>8. minted.sets <= minted'.sets /\ minted.codes <= minted'.codes
  BY <1>1, <1>3, <1>4, WritersOfMinted
<1>9. otp' = Nowhere \/ otp' \in OtpRow
  BY <1>1, <1>2, <1>3, <1>5, <1>6, WritersOfOtp
<1>10. QED
  BY <1>7, <1>8, <1>9

\* The row of the emailed code: gone, or aged, or counted, or a new one.
LEMMA OtpAfter ==
    ASSUME Typed, [SignInNext]_signInVars, otp' # Nowhere
    PROVE  \/ /\ otp # Nowhere /\ otp'.id = otp.id
              /\ \/ otp'.attempts = otp.attempts
                 \/ \E l \in Lane : /\ SettleCode(l) /\ call[l].verdict = "wrong"
                                    /\ otp'.attempts = call[l].attempts
           \/ \E l \in Lane : /\ IssueCode(l) /\ otp'.id = minted'.codes /\ otp'.attempts = 0
                              /\ minted'.codes = minted.codes + 1
<1> DEFINE Same == otp # Nowhere /\ otp'.id = otp.id /\ otp'.attempts = otp.attempts
           Counted(l) == /\ otp # Nowhere /\ otp'.id = otp.id /\ SettleCode(l) /\ call[l].verdict = "wrong"
                         /\ otp'.attempts = call[l].attempts
           New(l) == /\ IssueCode(l) /\ otp'.id = minted'.codes /\ otp'.attempts = 0
                     /\ minted'.codes = minted.codes + 1
<1>1. (otp = Nowhere \/ otp \in OtpRow) /\ minted \in [secrets : Nat, sets : Nat, codes : Nat]
  BY DEF Typed, SignInTypeOK
<1>2. ASSUME NEW l \in Lane, SettleCode(l)
      PROVE  Same \/ Counted(l)
  <2>1. CASE call[l].verdict \in {"ok", "expired", "locked"}
    BY <1>2, <2>1 DEF SettleCode
  <2>2. CASE call[l].verdict = "wrong" /\ otp # Nowhere
    <3>1. otp' = [otp EXCEPT !.attempts = call[l].attempts] /\ otp \in OtpRow
      BY <1>1, <1>2, <2>2 DEF SettleCode
    <3>2. QED
      BY <1>2, <2>2, <3>1 DEF OtpRow
  <2>3. CASE ~(call[l].verdict \in {"ok", "expired", "locked"} \/ (call[l].verdict = "wrong" /\ otp # Nowhere))
    <3>1. otp' = otp
      BY <1>2, <2>3 DEF SettleCode
    <3>2. QED
      BY <3>1
  <2>4. QED
    BY <2>1, <2>2, <2>3
<1>3. ASSUME CodeAges
      PROVE  Same
  <2>1. otp \in OtpRow /\ otp # Nowhere /\ otp' \in {[otp EXCEPT !.recent = FALSE], [otp EXCEPT !.expired = TRUE]}
    BY <1>1, <1>3 DEF CodeAges
  <2>2. QED
    BY <2>1 DEF OtpRow
<1>4. ASSUME NEW l \in Lane, IssueCode(l)
      PROVE  New(l)
  BY <1>1, <1>4 DEF IssueCode
<1>5. \A l \in Lane : ~ClearCode(l)
  BY DEF ClearCode
<1>6. UNCHANGED otp => Same
  OBVIOUS
<1> HIDE DEF Same, Counted, New
<1>7. Same \/ (\E l \in Lane : Counted(l)) \/ \E l \in Lane : New(l)
  BY Zenon, <1>2, <1>3, <1>4, <1>5, <1>6, WritersOfOtp
<1>8. QED
  BY <1>7 DEF Same, Counted, New

LEMMA ToldStep ==
    ASSUME Typed, [SignInNext]_signInVars
    PROVE  /\ told' \in History
           /\ told.wrong <= told'.wrong /\ told.shown \subseteq told'.shown
           /\ acct'.sessionVersion = acct.sessionVersion => told'.resets = told.resets
<1>1. told \in History /\ acct \in AccountRow
  BY DEF Typed, SignInTypeOK
<1>2. ASSUME NEW l \in Lane, WrongPassword(l)
      PROVE  told' = [told EXCEPT !.wrong = @ + 1, !.streak = @ + 1]
  BY <1>2 DEF WrongPassword
<1>3. ASSUME NEW l \in Lane, ReadCode(l) \/ IssueCode(l)
      PROVE  \E n \in {0, told.guesses, told.guesses + 1} : told' = [told EXCEPT !.guesses = n]
  BY <1>3 DEF ReadCode, IssueCode
<1>4. ASSUME NEW l \in Lane, Succeed(l)
      PROVE  /\ told' \in History
             /\ told'.wrong = told.wrong /\ told.shown \subseteq told'.shown /\ told'.resets = told.resets
  <2>1. call[l].device \in Device /\ call[l].factor \in Factor /\ call[l].row.sessionVersion \in Nat
    BY <1>4, KindOfSignInCall DEF Succeed, At, Typed, CheckSteps, Checking, AccountRow
  <2>2. PICK spent \in SUBSET Factor, twice \in SUBSET Factor, shown \in SUBSET (Device \X Nat) :
            /\ told.shown \subseteq shown
            /\ told' = [told EXCEPT !.streak = 0, !.shown = shown, !.spent = spent, !.twice = twice]
    <3>1. /\ told.spent \cup {call[l].factor} \in SUBSET Factor /\ told.twice \cup {call[l].factor} \in SUBSET Factor
          /\ told.shown \cup {<<call[l].device, call[l].row.sessionVersion>>} \in SUBSET (Device \X Nat)
          /\ told.spent \in SUBSET Factor /\ told.twice \in SUBSET Factor /\ told.shown \in SUBSET (Device \X Nat)
      BY <1>1, <2>1 DEF History
    <3>2. QED
      BY ZenonT(60), <1>4, <3>1 DEF Succeed
  <2>3. QED
    BY <1>1, <2>2 DEF History
<1>5. ASSUME NEW l \in Lane, NEW d \in Device, ConfirmMfaSetup(l, d)
      PROVE  told' \in History /\ UNCHANGED <<told.wrong, told.shown, told.resets>>
  BY <1>1, <1>5 DEF ConfirmMfaSetup, History, AccountRow
<1>6. ASSUME NEW l \in Lane, ResetPassword(l)
      PROVE  told' = [told EXCEPT !.streak = 0, !.resets = @ + 1] /\ acct'.sessionVersion # acct.sessionVersion
  BY <1>1, <1>6 DEF ResetPassword, AccountRow
<1>10. told' \in History /\ told.wrong <= told'.wrong /\ told.shown \subseteq told'.shown
  <2>1. CASE \E l \in Lane : WrongPassword(l) \/ ReadCode(l) \/ IssueCode(l) \/ ResetPassword(l)
    <3>1. PICK w \in {told.wrong, told.wrong + 1}, n \in Nat, k \in Nat, r \in Nat :
              told' = [told EXCEPT !.wrong = w, !.streak = n, !.guesses = k, !.resets = r]
      <4>1. \A l \in Lane : WrongPassword(l) =>
                told' = [told EXCEPT !.wrong = told.wrong + 1, !.streak = told.streak + 1, !.guesses = told.guesses,
                                     !.resets = told.resets]
        BY <1>1, <1>2 DEF History
      <4>2. \A l \in Lane : ReadCode(l) \/ IssueCode(l) =>
                \E n \in {0, told.guesses, told.guesses + 1} :
                    told' = [told EXCEPT !.wrong = told.wrong, !.streak = told.streak, !.guesses = n,
                                         !.resets = told.resets]
        BY <1>1, <1>3 DEF History
      <4>3. \A l \in Lane : ResetPassword(l) =>
                told' = [told EXCEPT !.wrong = told.wrong, !.streak = 0, !.guesses = told.guesses,
                                     !.resets = told.resets + 1]
        BY <1>1, <1>6 DEF History
      <4>4. /\ told.wrong \in Nat /\ told.streak \in Nat /\ told.guesses \in Nat /\ told.resets \in Nat
            /\ told.streak + 1 \in Nat /\ told.guesses + 1 \in Nat /\ told.resets + 1 \in Nat /\ 0 \in Nat
        BY <1>1 DEF History
      <4>5. QED
        BY Zenon, <2>1, <4>1, <4>2, <4>3, <4>4
    <3>2. w \in Nat /\ told.wrong <= w
      BY <1>1 DEF History
    <3>3. told' \in History
      BY <1>1, <3>1, <3>2 DEF History
    <3>4. told'.wrong = w /\ told'.shown = told.shown
      BY <1>1, <3>1 DEF History
    <3>5. QED
      BY <3>2, <3>3, <3>4
  <2>2. CASE UNCHANGED told
    BY <1>1, <2>2 DEF History
  <2>3. QED
    BY <1>1, <1>4, <1>5, <2>1, <2>2, WritersOfTold DEF History
<1>11. acct'.sessionVersion = acct.sessionVersion => told'.resets = told.resets
  BY <1>1, <1>2, <1>3, <1>4, <1>5, <1>6, WritersOfTold DEF History
<1>12. QED
  BY <1>10, <1>11

\* A new session is of the version in force, begun after the last reset, and
\* if it says that a code was shown, one was.
SessionIsEarned(d) ==
    /\ session'[d] \in Token /\ session'[d].sessionVersion = acct.sessionVersion
    /\ session'[d].resets = told.resets
    /\ session'[d].coded => <<d, acct.sessionVersion>> \in told.shown
    /\ UNCHANGED <<acct, told>>

LEMMA SessionStep ==
    ASSUME Typed, CallsAgree, [SignInNext]_signInVars
    PROVE  /\ session' \in [Device -> Token \cup {Nowhere}]
           /\ \A d \in Device : session'[d] \in {session[d], Nowhere} \/ SessionIsEarned(d)
<1>1. session \in [Device -> Token \cup {Nowhere}] /\ acct \in AccountRow /\ told \in History
  BY DEF Typed, SignInTypeOK
<1>2. acct.sessionVersion \in Nat /\ told.resets \in Nat
  BY <1>1 DEF AccountRow, History
<1>3. ASSUME NEW e \in Device, NEW t \in Token \cup {Nowhere}, session' = [session EXCEPT ![e] = t],
             t # Nowhere => SessionIsEarned(e)
      PROVE  /\ session' \in [Device -> Token \cup {Nowhere}]
             /\ \A d \in Device : session'[d] \in {session[d], Nowhere} \/ SessionIsEarned(d)
  BY <1>1, <1>3
<1>4. ASSUME NEW l \in Lane, MintToken(l)
      PROVE  /\ session' \in [Device -> Token \cup {Nowhere}]
             /\ \A d \in Device : session'[d] \in {session[d], Nowhere} \/ SessionIsEarned(d)
  <2> DEFINE e == call[l].device
             new == [sessionVersion |-> acct.sessionVersion, coded |-> call[l].coded, resets |-> call[l].resets]
             t == IF acct.active /\ acct.sessionVersion = call[l].row.sessionVersion THEN new ELSE Nowhere
  <2>1. call[l] \in SignInCall /\ call[l].pc = "token" /\ call[l].pc \in CheckSteps
    BY <1>4 DEF MintToken, At, Typed, CheckSteps, Checking
  <2>2. e \in Device /\ call[l].coded \in BOOLEAN /\ call[l].resets \in Nat
    BY <2>1, KindOfSignInCall
  <2>3. new \in Token
    BY <1>2, <2>2 DEF Token
  <2>4. session' = [session EXCEPT ![e] = t] /\ UNCHANGED <<acct, told>>
    BY <1>4 DEF MintToken
  <2>5. Agrees(call[l])
    BY DEF CallsAgree
  <2>6. t # Nowhere => /\ t = new /\ call[l].resets = told.resets
                       /\ call[l].coded => <<e, acct.sessionVersion>> \in told.shown
    BY <2>1, <2>5 DEF Agrees
  <2>7. new.sessionVersion = acct.sessionVersion /\ new.coded = call[l].coded /\ new.resets = call[l].resets
    OBVIOUS
  <2>8. t \in Token \cup {Nowhere}
    BY <2>3
  <2> HIDE DEF e, new, t
  <2>9. session'[e] = t
    BY <1>1, <2>2, <2>4
  <2>10. t # Nowhere => SessionIsEarned(e)
    BY <2>3, <2>4, <2>6, <2>7, <2>9 DEF SessionIsEarned
  <2>11. QED
    BY <1>3, <2>2, <2>4, <2>8, <2>10
<1>5. ASSUME NEW l \in Lane, MintGoogleToken(l)
      PROVE  /\ session' \in [Device -> Token \cup {Nowhere}]
             /\ \A d \in Device : session'[d] \in {session[d], Nowhere} \/ SessionIsEarned(d)
  <2> DEFINE e == call[l].device
             new == [sessionVersion |-> acct.sessionVersion, coded |-> FALSE, resets |-> told.resets]
             t == IF acct.active THEN new ELSE Nowhere
  <2>1. call[l] \in SignInCall /\ call[l].pc \in OnDevice
    BY <1>5 DEF MintGoogleToken, At, Typed, OnDevice
  <2>2. e \in Device
    BY <2>1, KindOfSignInCall
  <2>3. new \in Token
    BY <1>2 DEF Token
  <2>4. session' = [session EXCEPT ![e] = t] /\ UNCHANGED <<acct, told>>
    BY <1>5 DEF MintGoogleToken
  <2>5. new.sessionVersion = acct.sessionVersion /\ new.coded = FALSE /\ new.resets = told.resets
    OBVIOUS
  <2>6. t \in Token \cup {Nowhere} /\ (t # Nowhere => t = new)
    BY <2>3
  <2> HIDE DEF e, new, t
  <2>7. session'[e] = t
    BY <1>1, <2>2, <2>4
  <2>8. t # Nowhere => SessionIsEarned(e)
    BY <2>3, <2>4, <2>5, <2>6, <2>7 DEF SessionIsEarned
  <2>9. QED
    BY <1>3, <2>2, <2>4, <2>6, <2>8
<1>6. ASSUME NEW l \in Lane, NEW d \in Device, SignOutEverywhere(l, d)
      PROVE  session' = [session EXCEPT ![d] = Nowhere]
  BY <1>6 DEF SignOutEverywhere
<1>7. ASSUME NEW l \in Lane, CallStep(l), ~(MintToken(l) \/ MintGoogleToken(l))
      PROVE  UNCHANGED session
  BY <1>7 DEF CallStep, CountFailure, ReadCode, SettleCode, BurnRecoveryCode, Succeed, Done, StoreSecret, IssueCode,
     EnableApp, StoreNewCodes, ClearCode,
     ReadCooldown, SetTrustCookie, RemoveFactor, SwitchToEmail, SwitchOffEmail, ClearFactor
<1>8. ASSUME NEW l \in Lane, BeginCall(l), ~\E d \in Device : SignOutEverywhere(l, d)
      PROVE  UNCHANGED session
  BY <1>8 DEF BeginCall, WrongPassword, RightPassword, ContinueWithCode, GoogleSignIn, AskForCode, ConfirmMfaSetup,
     Remember, BeginMfaSetup, RegenerateRecoveryCodes, DisableMfa, EnableEmailOtp, ResetPassword,
     DisableEmailOtp, ForgetDevice, ResetUserMfa, Ask, SetActive
<1>9. ASSUME LockExpires \/ CodeAges \/ UNCHANGED signInVars
      PROVE  UNCHANGED session
  BY <1>9 DEF LockExpires, CodeAges, signInVars
<1>10. CASE UNCHANGED session
  BY <1>1, <1>10
<1>11. CASE \E l \in Lane, d \in Device : SignOutEverywhere(l, d)
  BY <1>3, <1>6, <1>11
<1>12. QED
  BY <1>4, <1>5, <1>7, <1>8, <1>9, <1>10, <1>11 DEF SignInNext

LEMMA TrustStep ==
    ASSUME Typed, [SignInNext]_signInVars
    PROVE  /\ trust' \in [Device -> TrustCookie \cup {Nowhere}]
           /\ stepUp' \in [Device -> Nat \cup {Nowhere}]
           /\ \A d \in Device :
                  /\ \/ trust'[d] \in {trust[d], Nowhere}
                     \/ /\ trust'[d].sessionVersion = acct.sessionVersion
                        /\ \E l \in Lane : SetTrustCookie(l) /\ call[l].device = d
                  /\ stepUp'[d] \in {stepUp[d], Nowhere, acct.sessionVersion}
<1>1. /\ trust \in [Device -> TrustCookie \cup {Nowhere}] /\ stepUp \in [Device -> Nat \cup {Nowhere}]
      /\ acct \in AccountRow
  BY DEF Typed, SignInTypeOK
<1>2. acct.sessionVersion \in Nat /\ acct.mfaSecret \in Nat
  BY <1>1 DEF AccountRow
<1>3. CASE UNCHANGED <<trust, stepUp>>
  BY <1>1, <1>3
<1>4. ASSUME NEW l \in Lane, SetTrustCookie(l)
      PROVE  /\ UNCHANGED stepUp /\ trust' \in [Device -> TrustCookie \cup {Nowhere}]
             /\ \A d \in Device : \/ trust'[d] \in {trust[d], Nowhere}
                                  \/ trust'[d].sessionVersion = acct.sessionVersion /\ call[l].device = d
  <2>1. PICK k : k = [sessionVersion |-> acct.sessionVersion, fingerprint |-> acct.mfaSecret]
    OBVIOUS
  <2>2. k \in TrustCookie /\ k.sessionVersion = acct.sessionVersion
    BY <1>2, <2>1 DEF TrustCookie
  <2>3. trust' = trust \/ trust' = [trust EXCEPT ![call[l].device] = k]
    BY <1>4, <2>1 DEF SetTrustCookie
  <2>4. UNCHANGED stepUp
    BY <1>4 DEF SetTrustCookie
  <2>5. QED
    BY <1>1, <2>2, <2>3, <2>4
<1>5. ASSUME NEW l \in Lane, NEW d \in Device, SignOutEverywhere(l, d) \/ ForgetDevice(l, d)
      PROVE  trust' = [trust EXCEPT ![d] = Nowhere] /\ UNCHANGED stepUp
  BY <1>5 DEF SignOutEverywhere, ForgetDevice
<1>6. ASSUME NEW l \in Lane, MintToken(l)
      PROVE  UNCHANGED trust /\ \E d : stepUp' = [stepUp EXCEPT ![d] = Nowhere]
  BY <1>6 DEF MintToken
<1>7. ASSUME NEW l \in Lane, NEW d \in Device, GoogleSignIn(l, d)
      PROVE  UNCHANGED trust /\ stepUp' \in {stepUp, [stepUp EXCEPT ![d] = acct.sessionVersion]}
  BY <1>7 DEF GoogleSignIn
<1>8. ASSUME NEW l \in Lane, CallStep(l), ~(SetTrustCookie(l) \/ MintToken(l))
      PROVE  UNCHANGED <<trust, stepUp>>
  BY <1>8 DEF CallStep, CountFailure, ReadCode, SettleCode, BurnRecoveryCode, Succeed, Done, StoreSecret, IssueCode,
     EnableApp, StoreNewCodes, ClearCode, MintGoogleToken,
     ReadCooldown, RemoveFactor, SwitchToEmail, SwitchOffEmail, ClearFactor
<1>9. ASSUME NEW l \in Lane, BeginCall(l),
             ~\E d \in Device : SignOutEverywhere(l, d) \/ ForgetDevice(l, d) \/ GoogleSignIn(l, d)
      PROVE  UNCHANGED <<trust, stepUp>>
  BY <1>9 DEF BeginCall, WrongPassword, RightPassword, ContinueWithCode, AskForCode, ConfirmMfaSetup,
     Remember, BeginMfaSetup, RegenerateRecoveryCodes, DisableMfa, EnableEmailOtp, ResetPassword,
     DisableEmailOtp, ResetUserMfa, Ask, SetActive
<1>10. ASSUME LockExpires \/ CodeAges \/ UNCHANGED signInVars
       PROVE  UNCHANGED <<trust, stepUp>>
  BY <1>10 DEF LockExpires, CodeAges, signInVars
<1>11. CASE \E l \in Lane : SetTrustCookie(l)
  BY <1>1, <1>4, <1>11
<1>12. CASE \E l \in Lane, d \in Device : SignOutEverywhere(l, d) \/ ForgetDevice(l, d)
  BY <1>1, <1>5, <1>12
<1>13. CASE \E l \in Lane : MintToken(l)
  BY <1>1, <1>6, <1>13
<1>14. CASE \E l \in Lane, d \in Device : GoogleSignIn(l, d)
  BY <1>1, <1>2, <1>7, <1>14
<1>15. QED
  BY <1>3, <1>8, <1>9, <1>10, <1>11, <1>12, <1>13, <1>14 DEF SignInNext

LEMMA SignInTypedStep ==
    ASSUME Typed, CallsAgree, [SignInNext]_signInVars
    PROVE  Typed'
<1>1. call' \in [Lane -> SignInCall] /\ lanes' = lanes /\ calls' \in 0..CallBound[lanes']
  <2>1. CASE \E l \in Lane : BeginCall(l) \/ CallStep(l)
    BY <2>1, OneLaneMoves DEF Moves
  <2>2. CASE LockExpires \/ CodeAges \/ UNCHANGED signInVars
    BY <2>2 DEF LockExpires, CodeAges, signInVars, Typed, SignInTypeOK
  <2>3. QED
    BY <2>1, <2>2 DEF SignInNext
<1>2. acct' \in AccountRow /\ acct.sessionVersion <= acct'.sessionVersion /\ acct \in AccountRow
  BY AcctStep DEF Typed, SignInTypeOK
<1>3. acct.sessionVersion \in Nat /\ acct'.sessionVersion \in Nat
  BY <1>2 DEF AccountRow
<1>4. ASSUME NEW d \in Device, session'[d] # Nowhere
      PROVE  session'[d] \in Token /\ session'[d].sessionVersion <= acct'.sessionVersion
  <2>1. CASE session'[d] = session[d]
    BY <1>2, <1>3, <1>4, <2>1 DEF Typed, SignInTypeOK, Token
  <2>2. CASE SessionIsEarned(d)
    BY <1>2, <2>2 DEF SessionIsEarned
  <2>3. QED
    BY <1>4, <2>1, <2>2, SessionStep
<1>5. ASSUME NEW d \in Device, trust'[d] # Nowhere
      PROVE  trust'[d] \in TrustCookie /\ trust'[d].sessionVersion <= acct'.sessionVersion
  <2>1. trust'[d] \in TrustCookie
    BY <1>5, TrustStep
  <2>2. CASE trust'[d] = trust[d]
    BY <1>2, <1>3, <1>5, <2>1, <2>2 DEF Typed, SignInTypeOK, TrustCookie
  <2>3. CASE trust'[d].sessionVersion = acct.sessionVersion
    BY <1>2, <2>1, <2>3
  <2>4. QED
    BY <1>5, <2>2, <2>3, TrustStep
<1>6. ASSUME NEW d \in Device
      PROVE  stepUp'[d] = Nowhere \/ stepUp'[d] \in 0..acct'.sessionVersion
  BY <1>2, <1>3, TrustStep DEF Typed, SignInTypeOK
<1>7. lanes' \in 1..Cardinality(Lane)
  BY <1>1 DEF Typed, SignInTypeOK
<1>8. SignInTypeOK'
  BY <1>1, <1>2, <1>4, <1>5, <1>6, <1>7, OtpStep DEF SignInTypeOK
<1>9. QED
  BY <1>1, <1>8, OtpStep, ToldStep, SessionStep, TrustStep DEF Typed

---------------------------------------------------------------------------
(* What holds however calls overlap                                        *)

LEMMA GivenStaysGiven ==
    ASSUME Typed, [SignInNext]_signInVars, NEW f \in Factor, Given(f)
    PROVE  Given(f)'
<1>1. minted \in [secrets : Nat, sets : Nat, codes : Nat] /\ minted' \in [secrets : Nat, sets : Nat, codes : Nat]
      /\ minted.sets <= minted'.sets /\ minted.codes <= minted'.codes
  BY OtpStep DEF Typed
<1>2. f.kind = "email" => f.id \in Nat
  BY DEF Factor
<1>3. f.kind = "recovery" => f.code[1] \in Nat
  BY DEF Factor
<1>4. QED
  BY <1>1, <1>2, <1>3 DEF Given

\* Versions grow with the resets, and what was shown stays shown.
LEMMA AgreementLasts ==
    ASSUME Typed, [SignInNext]_signInVars, NEW c \in SignInCall, Agrees(c)
    PROVE  Agrees(c)'
<1>1. /\ acct \in AccountRow /\ acct' \in AccountRow /\ acct.sessionVersion <= acct'.sessionVersion
      /\ told \in History /\ told' \in History /\ told.wrong <= told'.wrong /\ told.shown \subseteq told'.shown
      /\ acct'.sessionVersion = acct.sessionVersion => told'.resets = told.resets
  BY AcctStep, ToldStep DEF Typed, SignInTypeOK
<1>2. /\ acct.sessionVersion \in Nat /\ acct'.sessionVersion \in Nat /\ told.wrong \in Nat /\ told'.wrong \in Nat
  BY <1>1 DEF AccountRow, History
<1>3. ASSUME c.pc = "count failure"
      PROVE  c.count <= told'.wrong
  <2>1. c.count \in Nat
    BY <1>3, KindOfSignInCall DEF FailureCall
  <2>2. c.count <= told.wrong
    BY <1>3 DEF Agrees
  <2>3. QED
    BY <1>1, <1>2, <2>1, <2>2
<1>4. ASSUME c.pc \in CheckSteps
      PROVE  /\ c.row.sessionVersion <= acct'.sessionVersion
             /\ c.row.sessionVersion = acct'.sessionVersion => c.resets = told'.resets
             /\ Given(c.factor)'
  <2>1. c.row \in AccountRow /\ c.factor \in Factor
    BY <1>4, KindOfSignInCall
  <2>2. c.row.sessionVersion \in Nat
    BY <2>1 DEF AccountRow
  <2>3. /\ c.row.sessionVersion <= acct.sessionVersion /\ Given(c.factor)
        /\ c.row.sessionVersion = acct.sessionVersion => c.resets = told.resets
    BY <1>4 DEF Agrees
  <2>4. Given(c.factor)'
    BY <2>1, <2>3, GivenStaysGiven
  <2>5. c.row.sessionVersion <= acct'.sessionVersion
    BY <1>1, <1>2, <2>2, <2>3
  <2>6. ASSUME c.row.sessionVersion = acct'.sessionVersion
        PROVE  c.resets = told'.resets
    <3>1. acct'.sessionVersion = acct.sessionVersion
      BY <1>1, <1>2, <2>3, <2>6
    <3>2. QED
      BY <1>1, <2>3, <2>6, <3>1
  <2>7. QED
    BY <2>4, <2>5, <2>6
<1>5. QED
  BY <1>1, <1>3, <1>4 DEF Agrees

LEMMA SessionsAgreeStep ==
    ASSUME Typed, TablesAgree, CallsAgree, [SignInNext]_signInVars, NEW d \in Device, session'[d] # Nowhere
    PROVE  /\ session'[d].sessionVersion = acct'.sessionVersion => session'[d].resets = told'.resets
           /\ session'[d].coded => <<d, session'[d].sessionVersion>> \in told'.shown
<1>1. /\ acct \in AccountRow /\ acct' \in AccountRow /\ acct.sessionVersion <= acct'.sessionVersion
      /\ told.shown \subseteq told'.shown
      /\ acct'.sessionVersion = acct.sessionVersion => told'.resets = told.resets
  BY AcctStep, ToldStep DEF Typed, SignInTypeOK
<1>2. acct.sessionVersion \in Nat /\ acct'.sessionVersion \in Nat
  BY <1>1 DEF AccountRow
<1>3. CASE SessionIsEarned(d)
  BY <1>3 DEF SessionIsEarned
<1>4. CASE session'[d] = session[d]
  <2>1. session[d] \in Token /\ session[d].sessionVersion <= acct.sessionVersion
    BY <1>4 DEF Typed, SignInTypeOK
  <2>2. session[d].sessionVersion \in Nat
    BY <2>1 DEF Token
  <2>3. QED
    BY <1>1, <1>2, <1>4, <2>1, <2>2 DEF TablesAgree
<1>5. QED
  BY <1>3, <1>4, SessionStep

\* Only these write the counter or the lock: a failure, a success, a reset.
LEMMA CounterKept ==
    ASSUME Typed, NEW l \in Lane,
           (Rewrites(l) /\ ~CountFailure(l) /\ ~Succeed(l)) \/ (BeginsWithWrite(l) /\ ~ResetPassword(l))
    PROVE  acct'.failedLoginCount = acct.failedLoginCount /\ (acct'.locked => acct.locked)
<1>1. acct \in AccountRow
  BY DEF Typed, SignInTypeOK
<1>2. CASE BurnRecoveryCode(l) \/ StoreSecret(l) \/ StoreNewCodes(l)
  <2>1. PICK x : acct' = [acct EXCEPT !.mfaRecoveryCodes = x] \/ acct' = [acct EXCEPT !.mfaSecret = x]
    BY <1>2 DEF BurnRecoveryCode, StoreSecret, StoreNewCodes
  <2>2. QED
    BY <1>1, <2>1 DEF AccountRow
<1>3. CASE EnableApp(l)
  <2>1. PICK x : acct' = [acct EXCEPT !.mfaEnabled = TRUE, !.mfaMethod = "TOTP", !.mfaRecoveryCodes = x]
    BY <1>3 DEF EnableApp
  <2>2. QED
    BY <1>1, <2>1 DEF AccountRow
<1>4. CASE RemoveFactor(l)
  <2>1. acct' = [acct EXCEPT !.mfaEnabled = FALSE, !.mfaMethod = "none", !.mfaSecret = 0, !.mfaRecoveryCodes = {}]
    BY <1>4 DEF RemoveFactor
  <2>2. QED
    BY <1>1, <2>1 DEF AccountRow
<1>5. CASE SwitchToEmail(l) \/ SwitchOffEmail(l)
  <2>1. PICK e, m, v : acct' = [acct EXCEPT !.mfaEnabled = e, !.mfaMethod = m, !.sessionVersion = v]
    BY <1>5 DEF SwitchToEmail, SwitchOffEmail
  <2>2. QED
    BY <1>1, <2>1 DEF AccountRow
<1>6. CASE ClearFactor(l)
  <2>1. PICK v : acct' = [acct EXCEPT !.mfaEnabled = FALSE, !.mfaSecret = 0, !.mfaRecoveryCodes = {}, !.sessionVersion = v]
    BY <1>6 DEF ClearFactor
  <2>2. QED
    BY <1>1, <2>1 DEF AccountRow
<1>7. CASE (\E d \in Device : SignOutEverywhere(l, d)) \/ \E active \in BOOLEAN : SetActive(l, active)
  <2>1. PICK a, v : acct' = [acct EXCEPT !.sessionVersion = v] \/ acct' = [acct EXCEPT !.active = a, !.sessionVersion = v]
    BY <1>7 DEF SignOutEverywhere, SetActive
  <2>2. QED
    BY <1>1, <2>1 DEF AccountRow
<1>8. QED
  BY Zenon, <1>2, <1>3, <1>4, <1>5, <1>6, <1>7 DEF Rewrites, BeginsWithWrite

LEMMA CounterStep ==
    ASSUME Typed, [SignInNext]_signInVars
    PROVE  \/ acct'.failedLoginCount = acct.failedLoginCount /\ (acct'.locked => acct.locked)
           \/ acct'.failedLoginCount = 0 /\ ~acct'.locked
           \/ \E l \in Lane : /\ CountFailure(l) /\ acct'.failedLoginCount = call[l].count
                              /\ acct'.locked = nextLockout(call[l].count)
<1> DEFINE Kept == acct'.failedLoginCount = acct.failedLoginCount /\ (acct'.locked => acct.locked)
           Cleared == acct'.failedLoginCount = 0 /\ ~acct'.locked
<1>1. acct \in AccountRow
  BY DEF Typed, SignInTypeOK
<1>2. ASSUME NEW l \in Lane, CountFailure(l)
      PROVE  acct'.failedLoginCount = call[l].count /\ acct'.locked = nextLockout(call[l].count)
  <2>1. acct' = [acct EXCEPT !.failedLoginCount = call[l].count, !.locked = nextLockout(call[l].count)]
    BY <1>2 DEF CountFailure
  <2>2. QED
    BY <1>1, <2>1 DEF AccountRow
<1>3. ASSUME NEW l \in Lane, Succeed(l)
      PROVE  Cleared
  <2>1. acct' = [acct EXCEPT !.failedLoginCount = 0, !.locked = FALSE]
    BY <1>3 DEF Succeed
  <2>2. QED
    BY <1>1, <2>1 DEF AccountRow
<1>4. ASSUME NEW l \in Lane, ResetPassword(l)
      PROVE  Cleared
  <2>1. acct' = [acct EXCEPT !.failedLoginCount = 0, !.locked = FALSE, !.sessionVersion = @ + 1]
    BY <1>4 DEF ResetPassword
  <2>2. QED
    BY <1>1, <2>1 DEF AccountRow
<1>5. LockExpires => Kept
  <2>1. LockExpires => acct' = [acct EXCEPT !.locked = FALSE]
    BY DEF LockExpires
  <2>2. QED
    BY <1>1, <2>1 DEF AccountRow
<1>6. UNCHANGED acct => Kept
  OBVIOUS
<1>7. \A l \in Lane : Rewrites(l) \/ BeginsWithWrite(l) => Kept \/ CountFailure(l) \/ Succeed(l) \/ ResetPassword(l)
  BY CounterKept
<1> HIDE DEF Kept, Cleared
<1>8. Kept \/ Cleared \/ \E l \in Lane : CountFailure(l)
  BY Zenon, <1>3, <1>4, <1>5, <1>6, <1>7, WritersOfAcct
<1>9. QED
  BY <1>2, <1>8 DEF Kept, Cleared

LEMMA TablesAgreeStep ==
    ASSUME Typed, TablesAgree, CallsAgree, [SignInNext]_signInVars
    PROVE  TablesAgree'
<1>1. Typed'
  BY SignInTypedStep
<1>2. /\ acct \in AccountRow /\ acct' \in AccountRow /\ told \in History /\ told' \in History
      /\ told.wrong <= told'.wrong
  BY <1>1, ToldStep DEF Typed, SignInTypeOK
<1>3. /\ acct.failedLoginCount \in Nat /\ acct'.failedLoginCount \in Nat
      /\ told.wrong \in Nat /\ told'.wrong \in Nat /\ MAX_ATTEMPTS_BEFORE_LOCK \in Nat
      /\ told.spent \subseteq Factor
  BY <1>2, SignInAssumption DEF AccountRow, History
<1>4. acct'.failedLoginCount <= told'.wrong /\ NobodyIsLockedForNothing'
  <2>1. ASSUME NEW l \in Lane, CountFailure(l)
        PROVE  call[l].count \in Nat /\ call[l].count <= told.wrong
    <3>1. call[l] \in SignInCall /\ call[l].pc = "count failure" /\ Agrees(call[l])
      BY <2>1 DEF CountFailure, At, Typed, CallsAgree
    <3>2. QED
      BY <3>1, KindOfSignInCall DEF FailureCall, Agrees
  <2>2. acct.failedLoginCount <= told.wrong /\ (acct.locked => told.wrong >= MAX_ATTEMPTS_BEFORE_LOCK)
    BY DEF TablesAgree, NobodyIsLockedForNothing
  <2>3. CASE acct'.failedLoginCount = acct.failedLoginCount /\ (acct'.locked => acct.locked)
    <3>1. acct'.failedLoginCount <= told'.wrong
      BY <1>2, <1>3, <2>2, <2>3
    <3>2. NobodyIsLockedForNothing'
      BY <1>2, <1>3, <2>2, <2>3 DEF NobodyIsLockedForNothing
    <3>3. QED
      BY <3>1, <3>2
  <2>4. CASE acct'.failedLoginCount = 0 /\ ~acct'.locked
    BY <1>3, <2>4 DEF NobodyIsLockedForNothing
  <2>5. ASSUME NEW l \in Lane, CountFailure(l), acct'.failedLoginCount = call[l].count,
               acct'.locked = nextLockout(call[l].count)
        PROVE  acct'.failedLoginCount <= told'.wrong /\ NobodyIsLockedForNothing'
    <3>1. PICK n \in Nat : n = call[l].count /\ n <= told.wrong
      BY <2>1, <2>5
    <3>2. n <= told'.wrong
      BY <1>2, <1>3, <3>1
    <3>3. acct'.locked => n >= MAX_ATTEMPTS_BEFORE_LOCK
      BY <2>5, <3>1 DEF nextLockout
    <3>4. acct'.locked => told'.wrong >= MAX_ATTEMPTS_BEFORE_LOCK
      BY <1>3, <3>2, <3>3
    <3>5. QED
      BY <2>5, <3>1, <3>2, <3>4 DEF NobodyIsLockedForNothing
  <2>6. QED
    BY <2>3, <2>4, <2>5, CounterStep
<1>5. otp' # Nowhere => otp'.id \in 1..minted'.codes
  <2>1. minted \in [secrets : Nat, sets : Nat, codes : Nat] /\ minted' \in [secrets : Nat, sets : Nat, codes : Nat]
        /\ minted.codes <= minted'.codes
    BY <1>1, OtpStep DEF Typed
  <2>2. otp # Nowhere => otp.id \in 1..minted.codes
    BY DEF TablesAgree
  <2>3. minted.codes \in Nat /\ minted'.codes \in Nat
    BY <2>1
  <2>4. CASE otp # Nowhere /\ otp'.id = otp.id
    BY <2>1, <2>2, <2>3, <2>4
  <2>5. CASE otp'.id = minted'.codes /\ minted'.codes = minted.codes + 1
    BY <2>3, <2>5
  <2>6. QED
    BY <2>4, <2>5, OtpAfter
<1>6. \A f \in told'.spent : Given(f)'
  <2>1. told'.spent = told.spent \/ \E l \in Lane : At(l, "succeed") /\ told'.spent = told.spent \cup {call[l].factor}
    <3>1. ASSUME NEW l \in Lane, Succeed(l)
          PROVE  told'.spent = told.spent \/ (At(l, "succeed") /\ told'.spent = told.spent \cup {call[l].factor})
      BY <1>2, <3>1 DEF Succeed, History
    <3>2. ASSUME NEW l \in Lane, WrongPassword(l) \/ ReadCode(l) \/ IssueCode(l) \/ ResetPassword(l)
                 \/ \E d \in Device : ConfirmMfaSetup(l, d)
          PROVE  told'.spent = told.spent
      BY <1>2, <3>2 DEF WrongPassword, ReadCode, IssueCode, ResetPassword, ConfirmMfaSetup, History
    <3>3. QED
      BY <3>1, <3>2, WritersOfTold
  <2>2. ASSUME NEW l \in Lane, At(l, "succeed")
        PROVE  Given(call[l].factor) /\ call[l].factor \in Factor
    <3>1. call[l] \in SignInCall /\ call[l].pc \in CheckSteps /\ Agrees(call[l])
      BY <2>2 DEF At, Typed, CallsAgree, CheckSteps, Checking
    <3>2. QED
      BY <3>1, KindOfSignInCall DEF Agrees
  <2>3. \A f \in told'.spent : f \in Factor /\ Given(f)
    BY <1>3, <2>1, <2>2 DEF TablesAgree
  <2>4. QED
    BY <2>3, GivenStaysGiven
<1>7. QED
  BY <1>4, <1>5, <1>6, SessionsAgreeStep DEF TablesAgree

\* A check that goes on agrees with the tables as it did.
LEMMA CheckAgreesStill ==
    ASSUME Typed, [SignInNext]_signInVars, NEW c \in SignInCall, Agrees(c), c.pc \in CheckSteps,
           NEW e, e.row = c.row, e.resets = c.resets, e.factor = c.factor
    PROVE  /\ e.row.sessionVersion <= acct'.sessionVersion
           /\ e.row.sessionVersion = acct'.sessionVersion => e.resets = told'.resets
           /\ Given(e.factor)'
BY AgreementLasts DEF Agrees, Given

LEMMA BeginningAgrees ==
    ASSUME Typed, TablesAgree, [SignInNext]_signInVars, NEW l \in Lane, BeginCall(l)
    PROVE  \E c \in SignInCall : call'[l] = c /\ Agrees(c)'
<1>1. acct \in AccountRow /\ told \in History /\ minted' = minted
  <2>1. minted' = minted
    BY WritersOfMinted DEF BeginCall, WrongPassword, RightPassword, ContinueWithCode, GoogleSignIn, AskForCode,
       Remember, BeginMfaSetup, ConfirmMfaSetup, RegenerateRecoveryCodes, DisableMfa, EnableEmailOtp,
       DisableEmailOtp, ForgetDevice, ResetUserMfa, Ask, ResetPassword, SignOutEverywhere, SetActive
  <2>2. QED
    BY <2>1 DEF Typed, SignInTypeOK
<1>2. ASSUME NEW c \in SignInCall, Start(l, c), c.pc \notin CheckSteps \cup {"count failure"}
      PROVE  call'[l] = c /\ Agrees(c)'
  <2>1. call'[l] = c
    BY <1>2, StartMoves DEF Moves
  <2>2. Agrees(c)'
    BY <1>2 DEF Agrees, CheckSteps, Checking
  <2>3. QED
    BY <2>1, <2>2
<1>3. CASE WrongPassword(l)
  <2>1. PICK n \in Nat : n = acct.failedLoginCount + 1
    BY <1>1 DEF AccountRow
  <2>2. PICK c : c = [pc |-> "count failure", count |-> n]
    OBVIOUS
  <2>3. c \in SignInCall /\ c.pc = "count failure" /\ c.count = n
    BY <2>1, <2>2 DEF SignInCall, FailureCall
  <2>4. Start(l, c)
    BY <1>3, <2>1, <2>2 DEF WrongPassword
  <2>5. told'.wrong = told.wrong + 1
    BY <1>1, <1>3 DEF WrongPassword, History
  <2>6. acct.failedLoginCount <= told.wrong /\ acct.failedLoginCount \in Nat /\ told.wrong \in Nat
    BY <1>1 DEF TablesAgree, AccountRow, History
  <2>7. n <= told'.wrong
    BY <2>1, <2>5, <2>6
  <2>8. Agrees(c)'
    BY <2>3, <2>7 DEF Agrees, CheckSteps, Checking
  <2>9. QED
    BY <2>3, <2>4, <2>8, StartMoves DEF Moves
<1>4. ASSUME NEW d \in Device, NEW f \in Factors, RightPassword(l, d, f) \/ ContinueWithCode(l, d, f)
      PROVE  \E c \in SignInCall : call'[l] = c /\ Agrees(c)'
  <2>1. PICK c : BeginsCheck(l, d, f, c)
    BY <1>4, CheckBegins
  <2>2. /\ Start(l, c) /\ c \in SignInCall /\ c.pc \in {"succeed", "read code", "burn"}
        /\ c.row = acct /\ c.factor = f /\ c.resets = told.resets /\ acct' = acct /\ told' = told
        /\ c.pc = "burn" => f.kind = "recovery" /\ f.code \in acct.mfaRecoveryCodes
    BY <2>1 DEF BeginsCheck, SignInCall
  <2>3. acct.sessionVersion <= acct.sessionVersion
    BY <1>1 DEF AccountRow
  <2>4. Given(f)'
    BY <1>1, FactorsAreGiven DEF Given
  <2>5. Agrees(c)'
    BY <2>2, <2>3, <2>4 DEF Agrees
  <2>6. QED
    BY <2>2, <2>5, StartMoves DEF Moves
<1>5. ASSUME NEW d \in Device, QuietBeginning(l, d)
      PROVE  \E c \in SignInCall : call'[l] = c /\ Agrees(c)'
  BY <1>2, <1>5, QuietlyBegins
<1>6. ASSUME NEW d \in Device, GoogleSignIn(l, d) \/ ConfirmMfaSetup(l, d)
      PROVE  \E c \in SignInCall : call'[l] = c /\ Agrees(c)'
  <2>1. \E c \in SignInCall : Start(l, c) /\ c.pc \in {"google token", "enable app", "read cooldown", "done"}
    BY <1>6, PlainCalls DEF GoogleSignIn, ConfirmMfaSetup, Plain, OnDevice
  <2>2. QED
    BY <1>2, <2>1 DEF CheckSteps, Checking
<1>7. CASE \/ ResetPassword(l) \/ ResetUserMfa(l) \/ (\E d \in Device : SignOutEverywhere(l, d) \/ ForgetDevice(l, d))
           \/ \E active \in BOOLEAN : SetActive(l, active)
  <2>1. \E pc \in {"done", "clear factor"} : Start(l, [pc |-> pc])
    BY <1>7 DEF ResetPassword, ResetUserMfa, SignOutEverywhere, ForgetDevice, SetActive
  <2>2. QED
    BY <1>2, <2>1, PlainCalls DEF CheckSteps, Checking, Plain
<1>8. QED
  BY <1>3, <1>4, <1>5, <1>6, <1>7 DEF BeginCall, QuietBeginning

LEMMA GoingOnAgrees ==
    ASSUME Typed, CallsAgree, [SignInNext]_signInVars, NEW l \in Lane, CallStep(l)
    PROVE  \E c \in SignInCall : call'[l] = c /\ Agrees(c)'
<1>1. call[l] \in SignInCall /\ Agrees(call[l]) /\ told \in History
  BY DEF Typed, CallsAgree
<1>2. Return(l) => call'[l] = NoCall
  BY ReturnMoves DEF Moves
<1>3. NoCall \in SignInCall /\ Agrees(NoCall)'
  BY PlainCalls DEF Agrees, CheckSteps, Checking
<1>4. PICK c \in SignInCall : call'[l] = c
  BY StepMoves DEF Moves
<1>5. ASSUME ReadCode(l)
      PROVE  Agrees(c)'
  <2>1. call[l].pc \in CheckSteps
    BY <1>5 DEF ReadCode, At, CheckSteps, Checking
  <2>2. /\ c.pc = "settle code" /\ c.row = call[l].row /\ c.resets = call[l].resets /\ c.factor = call[l].factor
        /\ c.verdict = Judge(call[l].factor)
    BY <1>4, <1>5 DEF ReadCode, Typed
  <2>3. Judge(call[l].factor) = "ok" => call[l].factor.kind = "email"
    BY DEF Judge
  <2>4. /\ c.row.sessionVersion <= acct'.sessionVersion
        /\ c.row.sessionVersion = acct'.sessionVersion => c.resets = told'.resets
        /\ Given(c.factor)'
    BY <1>1, <2>1, <2>2, CheckAgreesStill
  <2>5. QED
    BY <2>2, <2>3, <2>4 DEF Agrees
<1>6. ASSUME NEW pc \in {"succeed", "burn"}, call[l].pc \in CheckSteps, Go(l, pc),
             pc = "burn" => call[l].factor.kind = "recovery" /\ call[l].factor.code \in call[l].row.mfaRecoveryCodes
      PROVE  Agrees(c)'
  <2>1. c = [call[l] EXCEPT !.pc = pc]
    BY <1>4, <1>6 DEF Go, Typed
  <2>2. c.pc = pc /\ c.row = call[l].row /\ c.resets = call[l].resets /\ c.factor = call[l].factor
    BY <1>1, <1>6, <2>1, ChecksGoOn DEF Checking
  <2>3. /\ c.row.sessionVersion <= acct'.sessionVersion
        /\ c.row.sessionVersion = acct'.sessionVersion => c.resets = told'.resets
        /\ Given(c.factor)'
    BY <1>1, <1>6, <2>2, CheckAgreesStill
  <2>4. QED
    BY <1>6, <2>2, <2>3 DEF Agrees
<1>7. ASSUME Succeed(l)
      PROVE  Agrees(c)'
  <2>1. call[l].pc \in CheckSteps /\ Go(l, "token")
    BY <1>7 DEF Succeed, At, CheckSteps, Checking
  <2>2. c = [call[l] EXCEPT !.pc = "token"]
    BY <1>4, <2>1 DEF Go, Typed
  <2>3. /\ c.pc = "token" /\ c.row = call[l].row /\ c.resets = call[l].resets /\ c.factor = call[l].factor
        /\ c.device = call[l].device /\ c.coded = call[l].coded
    BY <1>1, <2>1, <2>2, ChecksGoOn DEF Checking
  <2>4. /\ c.row.sessionVersion <= acct'.sessionVersion
        /\ c.row.sessionVersion = acct'.sessionVersion => c.resets = told'.resets
        /\ Given(c.factor)'
    BY <1>1, <2>1, <2>3, CheckAgreesStill
  <2>5. c.coded => <<c.device, c.row.sessionVersion>> \in told'.shown
    BY <1>1, <1>7, <2>3 DEF Succeed, History
  <2>6. QED
    BY <2>3, <2>4, <2>5 DEF Agrees
<1>8. ASSUME NEW pc \in {"issue code", "clear code"}, Go(l, pc), call[l].pc \in {"read cooldown", "disable email"}
      PROVE  Agrees(c)'
  <2>1. c = [call[l] EXCEPT !.pc = pc]
    BY <1>4, <1>8 DEF Go, Typed
  <2>2. call[l] \in PlainCall \cup DeviceCall
    BY <1>1, <1>8 DEF SignInCall, FailureCall, CheckCall, VerdictCall, Checking, CheckSteps
  <2>3. c.pc = pc
    BY <2>1, <2>2 DEF PlainCall, DeviceCall
  <2>4. QED
    BY <1>8, <2>3 DEF Agrees, CheckSteps, Checking
<1>9. SettleCode(l) \/ BurnRecoveryCode(l) => Return(l) \/ Agrees(c)'
  <2>1. SettleCode(l) => call[l].pc \in CheckSteps
    BY DEF SettleCode, At, CheckSteps, Checking
  <2>2. BurnRecoveryCode(l) => call[l].pc \in CheckSteps /\ Go(l, "succeed")
    BY DEF BurnRecoveryCode, At, CheckSteps, Checking
  <2>3. SettleCode(l) => \/ Return(l) \/ Go(l, "succeed")
                         \/ /\ call[l].factor.kind = "recovery" /\ call[l].factor.code \in call[l].row.mfaRecoveryCodes
                            /\ Go(l, "burn")
    BY DEF SettleCode
  <2>4. QED
    BY <1>6, <2>1, <2>2, <2>3
<1>10. ReadCooldown(l) \/ SwitchOffEmail(l) => Return(l) \/ Agrees(c)'
  BY <1>8 DEF ReadCooldown, SwitchOffEmail, At
<1>11. Return(l) \/ Agrees(c)'
  BY <1>5, <1>7, <1>9, <1>10 DEF CallStep, CountFailure, MintToken, MintGoogleToken, Done, IssueCode, SetTrustCookie,
     StoreSecret, EnableApp, StoreNewCodes, RemoveFactor, SwitchToEmail, ClearCode, ClearFactor
<1>12. QED
  BY <1>2, <1>3, <1>4, <1>11

LEMMA CallsAgreeStep ==
    ASSUME Typed, TablesAgree, CallsAgree, [SignInNext]_signInVars
    PROVE  CallsAgree'
<1>1. \A k \in Lane : \E c \in SignInCall : call'[k] = c /\ Agrees(c)'
  <2>1. \A k \in Lane : call'[k] = call[k] => \E c \in SignInCall : call'[k] = c /\ Agrees(c)'
    BY AgreementLasts DEF Typed, CallsAgree
  <2>2. ASSUME NEW l \in Lane, BeginCall(l) \/ CallStep(l)
        PROVE  \A k \in Lane : \E c \in SignInCall : call'[k] = c /\ Agrees(c)'
    <3>1. \A k \in Lane \ {l} : call'[k] = call[k]
      BY <2>2, OneLaneMoves DEF Moves
    <3>2. \E c \in SignInCall : call'[l] = c /\ Agrees(c)'
      BY <2>2, BeginningAgrees, GoingOnAgrees
    <3>3. QED
      BY <2>1, <3>1, <3>2
  <2>3. CASE LockExpires \/ CodeAges \/ UNCHANGED signInVars
    BY <2>1, <2>3 DEF LockExpires, CodeAges, signInVars
  <2>4. QED
    BY <2>2, <2>3 DEF SignInNext
<1>2. SUFFICES ASSUME NEW l \in Lane
               PROVE  Agrees(call[l])'
  BY DEF CallsAgree
<1>3. PICK c \in SignInCall : call'[l] = c /\ Agrees(c)'
  BY <1>1
<1>4. QED
  BY <1>3 DEF Agrees, Given

---------------------------------------------------------------------------
(* What the steps leave of a table                                         *)

SameFactor == UNCHANGED <<acct.mfaEnabled, acct.mfaMethod, acct.mfaSecret>>

LEMMA FactorAfter ==
    ASSUME Typed, [SignInNext]_signInVars
    PROVE  \/ SameFactor
           \/ acct'.mfaEnabled = FALSE
           \/ acct'.mfaEnabled = TRUE /\ acct'.mfaMethod = "EMAIL"
           \/ \E l \in Lane : StoreSecret(l) /\ UNCHANGED acct.mfaEnabled
           \/ \E l \in Lane : /\ EnableApp(l) /\ UNCHANGED acct.mfaSecret
                              /\ acct'.mfaEnabled = TRUE /\ acct'.mfaMethod = "TOTP"
<1> DEFINE Off == acct'.mfaEnabled = FALSE
           Emailed == acct'.mfaEnabled = TRUE /\ acct'.mfaMethod = "EMAIL"
<1>1. acct \in AccountRow
  BY DEF Typed, SignInTypeOK
<1>2. ASSUME NEW l \in Lane, CountFailure(l) \/ BurnRecoveryCode(l) \/ Succeed(l) \/ StoreNewCodes(l) \/ BeginsWithWrite(l)
      PROVE  SameFactor
  <2>1. \E x, y : acct' \in {[acct EXCEPT !.failedLoginCount = x, !.locked = y], [acct EXCEPT !.mfaRecoveryCodes = x],
                            [acct EXCEPT !.failedLoginCount = 0, !.locked = FALSE, !.sessionVersion = x],
                            [acct EXCEPT !.active = y, !.sessionVersion = x], [acct EXCEPT !.sessionVersion = x]}
    BY <1>2 DEF CountFailure, BurnRecoveryCode, Succeed, StoreNewCodes, BeginsWithWrite, ResetPassword,
       SignOutEverywhere, SetActive
  <2>2. QED
    BY <1>1, <2>1 DEF AccountRow, SameFactor
<1>3. ASSUME NEW l \in Lane, StoreSecret(l)
      PROVE  UNCHANGED acct.mfaEnabled
  <2>1. \E x : acct' = [acct EXCEPT !.mfaSecret = x]
    BY <1>3 DEF StoreSecret
  <2>2. QED
    BY <1>1, <2>1 DEF AccountRow
<1>4. ASSUME NEW l \in Lane, EnableApp(l)
      PROVE  UNCHANGED acct.mfaSecret /\ acct'.mfaEnabled = TRUE /\ acct'.mfaMethod = "TOTP"
  <2>1. \E x : acct' = [acct EXCEPT !.mfaEnabled = TRUE, !.mfaMethod = "TOTP", !.mfaRecoveryCodes = x]
    BY <1>4 DEF EnableApp
  <2>2. QED
    BY <1>1, <2>1 DEF AccountRow
<1>5. ASSUME NEW l \in Lane, RemoveFactor(l)
      PROVE  Off
  <2>1. acct' = [acct EXCEPT !.mfaEnabled = FALSE, !.mfaMethod = "none", !.mfaSecret = 0, !.mfaRecoveryCodes = {}]
    BY <1>5 DEF RemoveFactor
  <2>2. QED
    BY <1>1, <2>1 DEF AccountRow
<1>6. ASSUME NEW l \in Lane, SwitchToEmail(l)
      PROVE  Emailed
  <2>1. \E x : acct' = [acct EXCEPT !.mfaEnabled = TRUE, !.mfaMethod = "EMAIL", !.sessionVersion = x]
    BY <1>6 DEF SwitchToEmail
  <2>2. QED
    BY <1>1, <2>1 DEF AccountRow
<1>7. ASSUME NEW l \in Lane, SwitchOffEmail(l)
      PROVE  Off
  <2>1. \E x : acct' = [acct EXCEPT !.mfaEnabled = FALSE, !.mfaMethod = "none", !.sessionVersion = x]
    BY <1>7 DEF SwitchOffEmail
  <2>2. QED
    BY <1>1, <2>1 DEF AccountRow
<1>8. ASSUME NEW l \in Lane, ClearFactor(l)
      PROVE  Off
  <2>1. \E x : acct' = [acct EXCEPT !.mfaEnabled = FALSE, !.mfaSecret = 0, !.mfaRecoveryCodes = {}, !.sessionVersion = x]
    BY <1>8 DEF ClearFactor
  <2>2. QED
    BY <1>1, <2>1 DEF AccountRow
<1>9. LockExpires => SameFactor
  <2>1. LockExpires => acct' = [acct EXCEPT !.locked = FALSE]
    BY DEF LockExpires
  <2>2. QED
    BY <1>1, <2>1 DEF AccountRow, SameFactor
<1>10. UNCHANGED acct => SameFactor
  BY DEF SameFactor
<1> HIDE DEF Off, Emailed
<1>11. SameFactor \/ Off \/ Emailed \/ (\E l \in Lane : StoreSecret(l)) \/ \E l \in Lane : EnableApp(l)
  BY Zenon, <1>2, <1>5, <1>6, <1>7, <1>8, <1>9, <1>10, WritersOfAcct DEF Rewrites
<1>12. QED
  BY <1>3, <1>4, <1>11 DEF Off, Emailed

LEMMA CodesAfter ==
    ASSUME Typed, [SignInNext]_signInVars
    PROVE  /\ \/ acct'.mfaRecoveryCodes \in {acct.mfaRecoveryCodes, {}}
              \/ \E l \in Lane : /\ BurnRecoveryCode(l)
                                 /\ acct'.mfaRecoveryCodes = call[l].row.mfaRecoveryCodes \ {call[l].factor.code}
              \/ \E l \in Lane : EnableApp(l) \/ StoreNewCodes(l)
           /\ \A l \in Lane : EnableApp(l) \/ StoreNewCodes(l) =>
                  acct'.mfaRecoveryCodes = {minted'.sets} \X RecoverySlots
<1> DEFINE Same == acct'.mfaRecoveryCodes = acct.mfaRecoveryCodes
           Empty == acct'.mfaRecoveryCodes = {}
<1>1. acct \in AccountRow
  BY DEF Typed, SignInTypeOK
<1>2. ASSUME NEW l \in Lane,
             CountFailure(l) \/ Succeed(l) \/ StoreSecret(l) \/ SwitchToEmail(l) \/ SwitchOffEmail(l) \/ BeginsWithWrite(l)
      PROVE  Same
  <2>1. \E x, y, z : acct' \in {[acct EXCEPT !.failedLoginCount = x, !.locked = y], [acct EXCEPT !.mfaSecret = x],
                               [acct EXCEPT !.failedLoginCount = 0, !.locked = FALSE, !.sessionVersion = x],
                               [acct EXCEPT !.active = y, !.sessionVersion = x], [acct EXCEPT !.sessionVersion = x],
                               [acct EXCEPT !.mfaEnabled = x, !.mfaMethod = y, !.sessionVersion = z]}
    BY <1>2 DEF CountFailure, Succeed, StoreSecret, SwitchToEmail, SwitchOffEmail, BeginsWithWrite, ResetPassword,
       SignOutEverywhere, SetActive
  <2>2. QED
    BY <1>1, <2>1 DEF AccountRow
<1>3. ASSUME NEW l \in Lane, BurnRecoveryCode(l)
      PROVE  acct'.mfaRecoveryCodes = call[l].row.mfaRecoveryCodes \ {call[l].factor.code}
  BY <1>1, <1>3 DEF BurnRecoveryCode, AccountRow
<1>4. ASSUME NEW l \in Lane, EnableApp(l) \/ StoreNewCodes(l)
      PROVE  acct'.mfaRecoveryCodes = {minted'.sets} \X RecoverySlots
  <2>1. PICK x : x = {minted'.sets} \X RecoverySlots
    OBVIOUS
  <2>2. \/ acct' = [acct EXCEPT !.mfaEnabled = TRUE, !.mfaMethod = "TOTP", !.mfaRecoveryCodes = x]
        \/ acct' = [acct EXCEPT !.mfaRecoveryCodes = x]
    BY <1>4, <2>1 DEF EnableApp, StoreNewCodes
  <2>3. acct'.mfaRecoveryCodes = x
    BY <1>1, <2>2 DEF AccountRow
  <2>4. QED
    BY <2>1, <2>3
<1>5. ASSUME NEW l \in Lane, RemoveFactor(l)
      PROVE  Empty
  <2>1. acct' = [acct EXCEPT !.mfaEnabled = FALSE, !.mfaMethod = "none", !.mfaSecret = 0, !.mfaRecoveryCodes = {}]
    BY <1>5 DEF RemoveFactor
  <2>2. QED
    BY <1>1, <2>1 DEF AccountRow
<1>6. ASSUME NEW l \in Lane, ClearFactor(l)
      PROVE  Empty
  <2>1. \E x : acct' = [acct EXCEPT !.mfaEnabled = FALSE, !.mfaSecret = 0, !.mfaRecoveryCodes = {}, !.sessionVersion = x]
    BY <1>6 DEF ClearFactor
  <2>2. QED
    BY <1>1, <2>1 DEF AccountRow
<1>7. LockExpires => Same
  <2>1. LockExpires => acct' = [acct EXCEPT !.locked = FALSE]
    BY DEF LockExpires
  <2>2. QED
    BY <1>1, <2>1 DEF AccountRow
<1>8. UNCHANGED acct => Same
  OBVIOUS
<1> HIDE DEF Same, Empty
<1>9. Same \/ Empty \/ \E l \in Lane : BurnRecoveryCode(l) \/ EnableApp(l) \/ StoreNewCodes(l)
  BY Zenon, <1>2, <1>5, <1>6, <1>7, <1>8, WritersOfAcct DEF Rewrites
<1>10. QED
  BY <1>3, <1>4, <1>9 DEF Same, Empty

LEMMA SetsAfter ==
    ASSUME Typed, [SignInNext]_signInVars
    PROVE  /\ \/ minted'.sets = minted.sets
              \/ \E l \in Lane : (EnableApp(l) \/ StoreNewCodes(l)) /\ minted'.sets = minted.sets + 1
           /\ \A l \in Lane : EnableApp(l) \/ StoreNewCodes(l) => minted'.sets = minted.sets + 1
<1>1. minted \in [secrets : Nat, sets : Nat, codes : Nat]
  BY DEF Typed
<1>2. ASSUME NEW l \in Lane, IssueCode(l) \/ StoreSecret(l)
      PROVE  minted'.sets = minted.sets
  BY <1>1, <1>2 DEF IssueCode, StoreSecret
<1>3. ASSUME NEW l \in Lane, EnableApp(l) \/ StoreNewCodes(l)
      PROVE  minted'.sets = minted.sets + 1
  BY <1>1, <1>3 DEF EnableApp, StoreNewCodes
<1>4. QED
  BY <1>2, <1>3, WritersOfMinted

\* What was spent, and what was spent twice.
LEMMA SpentAfter ==
    ASSUME Typed, [SignInNext]_signInVars
    PROVE  /\ told.proven \subseteq told'.proven
           /\ \/ told'.spent = told.spent /\ told'.twice = told.twice
              \/ \E l \in Lane : /\ Succeed(l) /\ call[l].coded
                                 /\ told'.spent = told.spent \cup {call[l].factor}
                                 /\ told'.twice = IF call[l].factor \in told.spent
                                                  THEN told.twice \cup {call[l].factor} ELSE told.twice
<1>1. told \in History
  BY DEF Typed
<1>2. ASSUME NEW l \in Lane, Succeed(l)
      PROVE  /\ told'.proven = told.proven
             /\ ~call[l].coded => told'.spent = told.spent /\ told'.twice = told.twice
             /\ call[l].coded => /\ told'.spent = told.spent \cup {call[l].factor}
                                 /\ told'.twice = IF call[l].factor \in told.spent
                                                  THEN told.twice \cup {call[l].factor} ELSE told.twice
  BY <1>1, <1>2 DEF Succeed, History
<1>3. ASSUME NEW l \in Lane, WrongPassword(l) \/ ReadCode(l) \/ IssueCode(l) \/ ResetPassword(l)
      PROVE  told'.spent = told.spent /\ told'.twice = told.twice /\ told'.proven = told.proven
  BY <1>1, <1>3 DEF WrongPassword, ReadCode, IssueCode, ResetPassword, History
<1>4. ASSUME NEW l \in Lane, NEW d \in Device, ConfirmMfaSetup(l, d)
      PROVE  told'.spent = told.spent /\ told'.twice = told.twice /\ told.proven \subseteq told'.proven
  BY <1>1, <1>4 DEF ConfirmMfaSetup, History
<1>5. told.proven \subseteq told'.proven
  BY <1>2, <1>3, <1>4, WritersOfTold
<1>6. QED
  BY <1>2, <1>3, <1>4, <1>5, WritersOfTold

\* The counters of failures and of guesses.
LEMMA CountsAfter ==
    ASSUME Typed, [SignInNext]_signInVars
    PROVE  /\ \/ told'.streak = told.streak
              \/ \E l \in Lane : WrongPassword(l) /\ told'.streak = told.streak + 1
              \/ \E l \in Lane : (Succeed(l) \/ ResetPassword(l)) /\ told'.streak = 0
           /\ \/ told'.guesses = told.guesses
              \/ \E l \in Lane : /\ ReadCode(l) /\ Judge(call[l].factor) \in {"wrong", "locked"}
                                 /\ told'.guesses = told.guesses + 1
              \/ \E l \in Lane : IssueCode(l) /\ told'.guesses = 0
<1>1. told \in History
  BY DEF Typed
<1>2. ASSUME NEW l \in Lane, Succeed(l)
      PROVE  told'.streak = 0 /\ told'.guesses = told.guesses
  BY <1>1, <1>2 DEF Succeed, History
<1>3. ASSUME NEW l \in Lane, ResetPassword(l)
      PROVE  told'.streak = 0 /\ told'.guesses = told.guesses
  BY <1>1, <1>3 DEF ResetPassword, History
<1>4. ASSUME NEW l \in Lane, WrongPassword(l)
      PROVE  told'.streak = told.streak + 1 /\ told'.guesses = told.guesses
  BY <1>1, <1>4 DEF WrongPassword, History
<1>5. ASSUME NEW l \in Lane, IssueCode(l)
      PROVE  told'.streak = told.streak /\ told'.guesses = 0
  BY <1>1, <1>5 DEF IssueCode, History
<1>6. ASSUME NEW l \in Lane, ReadCode(l)
      PROVE  /\ told'.streak = told.streak
             /\ told'.guesses = IF Judge(call[l].factor) \in {"wrong", "locked"} THEN told.guesses + 1 ELSE told.guesses
  BY <1>1, <1>6 DEF ReadCode, History
<1>7. ASSUME NEW l \in Lane, NEW d \in Device, ConfirmMfaSetup(l, d)
      PROVE  told'.streak = told.streak /\ told'.guesses = told.guesses
  BY <1>1, <1>7 DEF ConfirmMfaSetup, History
<1>8. QED
  BY <1>2, <1>3, <1>4, <1>5, <1>6, <1>7, WritersOfTold

---------------------------------------------------------------------------
(* One call after the other                                                *)

\* With one lane in use, a call begins only when none is in flight, and goes
\* on as the only one.
LEMMA Solo ==
    ASSUME Typed, Alone, AloneInv, NEW l \in Lane, BeginCall(l) \/ CallStep(l)
    PROVE  /\ StandsAlone(l)
           /\ \A k \in Lane \ {l} : call'[k] = NoCall
           /\ BeginCall(l) => call[l] = NoCall
<1>1. PICK m \in Lane : StandsAlone(m)
  BY DEF AloneInv
<1>2. \A k \in Lane \ {l} : call'[k] = call[k]
  BY OneLaneMoves DEF Moves
<1>3. CASE CallStep(l)
  <2>1. call[l] # NoCall
    BY <1>3, StepMoves
  <2>2. m = l
    BY <1>1, <2>1 DEF StandsAlone
  <2>3. QED
    BY <1>1, <1>2, <2>1, <2>2, BeginningStarts, StartMoves DEF StandsAlone
<1>4. CASE BeginCall(l)
  <2> DEFINE busy == {k \in Lane : call[k] # NoCall}
  <2>1. Cardinality(busy) < 1 /\ call[l] = NoCall
    BY <1>4, BeginningStarts DEF Start, Alone
  <2>2. IsFiniteSet(busy)
    BY FS_Subset, SignInAssumption
  <2>3. busy = {}
    BY <2>1, <2>2, FS_EmptySet, FS_CardinalityType
  <2>4. \A k \in Lane : call[k] = NoCall
    BY <2>3
  <2>5. QED
    BY <1>1, <1>2, <2>4 DEF StandsAlone
<1>5. QED
  BY <1>3, <1>4

LEMMA TablesStandStep ==
    ASSUME SignInInv, Alone, [SignInNext]_signInVars
    PROVE  TablesStand'
<1>1. /\ Typed /\ TablesAgree /\ AloneInv /\ TablesStand
      /\ told \in History /\ acct \in AccountRow
  BY DEF SignInInv, AloneInv, Typed, SignInTypeOK
<1>2. ASSUME NEW l \in Lane, CallStep(l)
      PROVE  StillSo(call[l])
  BY <1>1, <1>2, Solo DEF StandsAlone
<1>3. \A f \in told.spent : f \in Factor /\ Given(f)
  BY <1>1 DEF TablesAgree, History
<1>4. minted.sets \in Nat /\ minted.codes \in Nat
  BY <1>1 DEF Typed
<1>5. ASSUME NEW l \in Lane, Succeed(l), call[l].coded, call[l].factor.kind = "recovery"
      PROVE  call[l].factor \notin told.spent /\ call[l].factor.code \notin acct.mfaRecoveryCodes
  BY <1>2, <1>5 DEF StillSo, CallStep, Succeed, At
<1>6. ASSUME NEW l \in Lane, Succeed(l), call[l].coded, call[l].factor.kind = "email"
      PROVE  call[l].factor \notin told.spent /\ otp = Nowhere
  BY <1>2, <1>6 DEF StillSo, CallStep, Succeed, At
<1>7. ASSUME NEW c \in acct'.mfaRecoveryCodes
      PROVE  c[1] = minted'.sets /\ RecoveryCode(c) \notin told'.spent
  <2>1. CASE \E l \in Lane : EnableApp(l) \/ StoreNewCodes(l)
    <3>1. c[1] = minted'.sets /\ minted'.sets = minted.sets + 1
      BY <1>1, <1>7, <2>1, CodesAfter, SetsAfter
    <3>2. told' = told
      BY <2>1 DEF EnableApp, StoreNewCodes
    <3>3. RecoveryCode(c).kind = "recovery" /\ RecoveryCode(c).code = c
      BY DEF RecoveryCode
    <3>4. ~Given(RecoveryCode(c))
      BY <1>4, <3>1, <3>3 DEF Given
    <3>5. QED
      BY <1>3, <3>1, <3>2, <3>4
  <2>2. CASE ~\E l \in Lane : EnableApp(l) \/ StoreNewCodes(l)
    <3>1. ASSUME NEW l \in Lane, BurnRecoveryCode(l)
          PROVE  call[l].row.mfaRecoveryCodes = acct.mfaRecoveryCodes
      BY <1>2, <3>1 DEF StillSo, CallStep, BurnRecoveryCode, At
    <3>2. c \in acct.mfaRecoveryCodes
      BY <1>1, <1>7, <2>2, <3>1, CodesAfter
    <3>3. c[1] = minted'.sets
      BY <1>1, <2>2, <3>2, SetsAfter DEF TablesStand
    <3>4. RecoveryCode(c).kind = "recovery" /\ RecoveryCode(c).code = c /\ RecoveryCode(c) \notin told.spent
      BY <1>1, <3>2 DEF RecoveryCode, TablesStand
    <3>5. \A l \in Lane : Succeed(l) /\ call[l].coded => call[l].factor # RecoveryCode(c)
      BY <1>5, <3>2, <3>4
    <3>6. RecoveryCode(c) \notin told'.spent
      BY <1>1, <3>4, <3>5, SpentAfter
    <3>7. QED
      BY <3>3, <3>6
  <2>3. QED
    BY <2>1, <2>2
<1>8. acct'.mfaEnabled /\ acct'.mfaMethod = "TOTP" => acct'.mfaSecret \in told'.proven \ {0}
  <2>1. told.proven \subseteq told'.proven
    BY <1>1, SpentAfter
  <2>2. CASE SameFactor
    BY <1>1, <2>1, <2>2 DEF SameFactor, TablesStand
  <2>3. ASSUME NEW l \in Lane, StoreSecret(l)
        PROVE  ~acct.mfaEnabled
    BY <1>2, <2>3 DEF StillSo, CallStep, StoreSecret, At
  <2>4. ASSUME NEW l \in Lane, EnableApp(l)
        PROVE  acct.mfaSecret \in told.proven \ {0}
    BY <1>2, <2>4 DEF StillSo, CallStep, EnableApp, At
  <2>5. QED
    BY <1>1, <2>1, <2>2, <2>3, <2>4, FactorAfter
<1>9. ASSUME NEW d \in Device, trust'[d] # Nowhere
      PROVE  <<d, trust'[d].sessionVersion>> \in told'.shown
  <2>1. told.shown \subseteq told'.shown
    BY <1>1, ToldStep
  <2>2. ASSUME NEW l \in Lane, SetTrustCookie(l)
        PROVE  <<call[l].device, acct.sessionVersion>> \in told.shown
    BY <1>2, <2>2 DEF StillSo, CallStep, SetTrustCookie, At
  <2>3. CASE trust'[d] = trust[d]
    BY <1>1, <1>9, <2>1, <2>3 DEF TablesStand
  <2>4. QED
    BY <1>1, <1>9, <2>1, <2>2, <2>3, TrustStep
<1>10. ASSUME otp' # Nowhere
       PROVE  EmailCode(otp'.id) \notin told'.spent
  <2>1. EmailCode(otp'.id).kind = "email" /\ EmailCode(otp'.id).id = otp'.id
    BY DEF EmailCode
  <2>2. CASE otp # Nowhere /\ otp'.id = otp.id
    <3>1. EmailCode(otp'.id) \notin told.spent
      BY <1>1, <2>2 DEF TablesStand
    <3>2. \A l \in Lane : Succeed(l) /\ call[l].coded => call[l].factor # EmailCode(otp'.id)
      BY <1>6, <2>1, <2>2
    <3>3. QED
      BY <1>1, <3>1, <3>2, SpentAfter
  <2>3. ASSUME NEW l \in Lane, IssueCode(l), otp'.id = minted'.codes, minted'.codes = minted.codes + 1
        PROVE  EmailCode(otp'.id) \notin told'.spent
    <3>1. told'.spent = told.spent
      BY <1>1, <2>3 DEF IssueCode, History
    <3>2. ~Given(EmailCode(otp'.id))
      BY <1>4, <2>1, <2>3 DEF Given
    <3>3. QED
      BY <1>3, <3>1, <3>2
  <2>4. QED
    BY <1>1, <1>10, <2>2, <2>3, OtpAfter
<1>11. OneUse'
  <2>1. \A f \in told.twice : f.kind \notin {"email", "recovery"}
    BY <1>1 DEF TablesStand, OneUse
  <2>2. \A f \in told'.twice : f.kind \notin {"email", "recovery"}
    BY <1>1, <1>5, <1>6, <2>1, SpentAfter
  <2>3. QED
    BY <2>2 DEF OneUse
<1>12. QED
  BY <1>7, <1>8, <1>9, <1>10, <1>11 DEF TablesStand, EmailCode, RecoveryCode

\* A step that neither counts nor judges leaves the counters right.
LEMMA CountersStay ==
    ASSUME NEW c, c.pc \notin {"count failure", "settle code"},
           acct.failedLoginCount = told.streak,
           otp = Nowhere \/ (otp.attempts = told.guesses /\ told.guesses < MAX_ATTEMPTS),
           UNCHANGED <<acct.failedLoginCount, told.streak, told.guesses>>, otp' \in {Nowhere, otp}
    PROVE  CountersFollow(c)'
BY DEF CountersFollow

\* The steps at which StillSo asks for something.
Watched == CheckSteps \cup {"trust", "store secret", "enable app", "google token"}

LEMMA NothingWatched ==
    ASSUME NEW c, c.pc \notin Watched
    PROVE  StillSo(c)'
BY DEF StillSo, Watched, CheckSteps, Checking

\* A call that begins has read what is so.
LEMMA BeginningStands ==
    ASSUME Typed, TablesAgree, TablesStand, NEW l \in Lane, BeginCall(l), CountersFollow(NoCall)
    PROVE  \E c \in SignInCall : call'[l] = c /\ StillSo(c)' /\ CountersFollow(c)'
<1>1. /\ acct \in AccountRow /\ told \in History
      /\ acct.failedLoginCount = told.streak
      /\ otp = Nowhere \/ (otp.attempts = told.guesses /\ told.guesses < MAX_ATTEMPTS)
  BY PlainCalls DEF Typed, SignInTypeOK, CountersFollow
<1>2. \A c \in SignInCall : Start(l, c) => call'[l] = c
  BY StartMoves DEF Moves
<1>3. otp' = otp
  BY DEF BeginCall, WrongPassword, RightPassword, ContinueWithCode, GoogleSignIn, AskForCode,
     Remember, BeginMfaSetup, ConfirmMfaSetup, RegenerateRecoveryCodes, DisableMfa, EnableEmailOtp,
     DisableEmailOtp, ForgetDevice, ResetUserMfa, Ask, ResetPassword, SignOutEverywhere, SetActive
<1>4. CASE WrongPassword(l)
  <2>1. PICK n \in Nat : n = acct.failedLoginCount + 1
    BY <1>1 DEF AccountRow
  <2>2. PICK c : c = [pc |-> "count failure", count |-> n]
    OBVIOUS
  <2>3. c \in SignInCall /\ c.pc = "count failure" /\ c.count = n
    BY <2>1, <2>2 DEF SignInCall, FailureCall
  <2>4. Start(l, c)
    BY <1>4, <2>1, <2>2 DEF WrongPassword
  <2>5. told'.streak = told.streak + 1 /\ told'.guesses = told.guesses
    BY <1>1, <1>4 DEF WrongPassword, History
  <2>6. CountersFollow(c)'
    BY <1>1, <1>3, <2>1, <2>3, <2>5 DEF CountersFollow
  <2>7. StillSo(c)'
    BY <2>3, NothingWatched DEF Watched, CheckSteps, Checking
  <2>8. QED
    BY <1>2, <2>3, <2>4, <2>6, <2>7
<1>5. ASSUME NEW d \in Device, NEW f \in Factors, RightPassword(l, d, f) \/ ContinueWithCode(l, d, f)
      PROVE  \E c \in SignInCall : call'[l] = c /\ StillSo(c)' /\ CountersFollow(c)'
  <2>1. PICK c : BeginsCheck(l, d, f, c)
    BY <1>5, CheckBegins
  <2>2. /\ Start(l, c) /\ c \in CheckCall /\ c.pc \in {"succeed", "read code", "burn"}
        /\ c.device = d /\ c.row = acct
        /\ UNCHANGED <<acct, otp, trust, told>>
        /\ ~c.coded => c.pc = "succeed" /\ (~acct.mfaEnabled \/ Trusted(d, acct))
        /\ c.pc = "succeed" /\ c.coded => c.factor.kind = "app"
    BY <2>1 DEF BeginsCheck
  <2>3. Trusted(c.device, acct)' = Trusted(d, acct)
    BY <2>2 DEF Trusted
  <2>4. StillSo(c)'
    BY <2>2, <2>3 DEF StillSo
  <2>5. CountersFollow(c)'
    BY <1>1, <2>2, CountersStay
  <2>6. QED
    BY <1>2, <2>2, <2>4, <2>5 DEF SignInCall
<1>6. ASSUME NEW d \in Device, QuietBeginning(l, d)
      PROVE  \E c \in SignInCall : call'[l] = c /\ StillSo(c)' /\ CountersFollow(c)'
  <2>1. UNCHANGED <<acct, otp, session, trust, stepUp, minted, told>>
    BY <1>6, QuietlyBegins
  <2>2. PICK c \in SignInCall : /\ Start(l, c) /\ c.pc \notin CheckSteps \cup {"count failure", "google token", "enable app"}
                                /\ c.pc = "trust" => c.device = d /\ Working(d) /\ session[d].coded
                                /\ c.pc = "store secret" => ~acct.mfaEnabled
    BY <1>6, QuietlyBegins
  <2>3. Working(d) /\ session[d].coded => <<d, acct.sessionVersion>> \in told.shown
    BY DEF Working, TablesAgree
  <2>4. StillSo(c)'
    BY <2>1, <2>2, <2>3 DEF StillSo, CheckSteps, Checking
  <2>5. CountersFollow(c)'
    BY <1>1, <2>1, <2>2, CountersStay DEF CheckSteps, Checking
  <2>6. QED
    BY <1>2, <2>2, <2>4, <2>5
<1>7. ASSUME NEW d \in Device, GoogleSignIn(l, d)
      PROVE  \E c \in SignInCall : call'[l] = c /\ StillSo(c)' /\ CountersFollow(c)'
  <2>1. UNCHANGED <<acct, otp, session, trust, minted, told>>
    BY <1>7 DEF GoogleSignIn
  <2>2. PICK c \in SignInCall : /\ Start(l, c) /\ c.pc \in {"google token", "read cooldown", "done"}
                                /\ c.pc = "google token" => c.device = d /\ (~acct.mfaEnabled \/ Trusted(d, acct))
    BY <1>7, PlainCalls DEF GoogleSignIn, Plain, OnDevice
  <2>3. Trusted(d, acct)' = Trusted(d, acct)
    BY <2>1 DEF Trusted
  <2>4. StillSo(c)'
    BY <2>1, <2>2, <2>3 DEF StillSo
  <2>5. CountersFollow(c)'
    BY <1>1, <2>1, <2>2, CountersStay
  <2>6. QED
    BY <1>2, <2>2, <2>4, <2>5
<1>8. ASSUME NEW d \in Device, ConfirmMfaSetup(l, d)
      PROVE  \E c \in SignInCall : call'[l] = c /\ StillSo(c)' /\ CountersFollow(c)'
  <2>1. PICK c : c = [pc |-> "enable app", device |-> d]
    OBVIOUS
  <2>2. c \in SignInCall /\ Start(l, c) /\ c.pc = "enable app"
    BY <1>8, <2>1, PlainCalls DEF ConfirmMfaSetup, OnDevice
  <2>3. /\ acct' = acct /\ acct.mfaSecret # 0
        /\ told'.proven = told.proven \cup {acct.mfaSecret}
        /\ told'.streak = told.streak /\ told'.guesses = told.guesses
    BY <1>1, <1>8 DEF ConfirmMfaSetup, History
  <2>4. StillSo(c)'
    BY <2>2, <2>3 DEF StillSo
  <2>5. CountersFollow(c)'
    BY <1>1, <1>3, <2>2, <2>3, CountersStay
  <2>6. QED
    BY <1>2, <2>2, <2>4, <2>5
<1>9. ASSUME \/ ResetPassword(l) \/ ResetUserMfa(l) \/ (\E d \in Device : SignOutEverywhere(l, d) \/ ForgetDevice(l, d))
             \/ \E active \in BOOLEAN : SetActive(l, active)
      PROVE  \E c \in SignInCall : call'[l] = c /\ StillSo(c)' /\ CountersFollow(c)'
  <2>1. PICK c \in SignInCall : Start(l, c) /\ c.pc \in {"done", "clear factor"}
    BY <1>9, PlainCalls DEF ResetPassword, ResetUserMfa, SignOutEverywhere, ForgetDevice, SetActive, Plain
  <2>2. acct'.failedLoginCount = told'.streak /\ told'.guesses = told.guesses
    <3>1. CASE ResetPassword(l)
      <4>1. acct'.failedLoginCount = 0
        BY <1>1, <3>1 DEF ResetPassword, AccountRow
      <4>2. told'.streak = 0 /\ told'.guesses = told.guesses
        BY <1>1, <3>1 DEF ResetPassword, History
      <4>3. QED
        BY <4>1, <4>2
    <3>2. CASE ResetUserMfa(l) \/ \E d \in Device : ForgetDevice(l, d)
      BY <1>1, <3>2 DEF ResetUserMfa, ForgetDevice
    <3>3. CASE (\E d \in Device : SignOutEverywhere(l, d)) \/ \E active \in BOOLEAN : SetActive(l, active)
      <4>1. told' = told
        BY <3>3 DEF SignOutEverywhere, SetActive
      <4>2. ResetPassword(l) => told'.resets = told.resets + 1
        BY <1>1 DEF ResetPassword, History
      <4>3. told.resets # told.resets + 1
        BY <1>1 DEF History
      <4>4. BeginsWithWrite(l) /\ ~ResetPassword(l)
        BY <3>3, <4>1, <4>2, <4>3 DEF BeginsWithWrite
      <4>5. acct'.failedLoginCount = acct.failedLoginCount
        BY <4>4, CounterKept
      <4>6. QED
        BY <1>1, <4>1, <4>5
    <3>4. QED
      BY <1>9, <3>1, <3>2, <3>3
  <2>3. CountersFollow(c)'
    BY <1>1, <1>3, <2>1, <2>2 DEF CountersFollow
  <2>4. StillSo(c)'
    BY <2>1, NothingWatched DEF Watched, CheckSteps, Checking
  <2>5. QED
    BY <1>2, <2>1, <2>3, <2>4
<1>10. QED
  BY <1>4, <1>5, <1>6, <1>7, <1>8, <1>9 DEF BeginCall, QuietBeginning

\* A step that only writes the account, and ends the call.
Ends(l) ==
    \/ MintToken(l) \/ MintGoogleToken(l) \/ Done(l) \/ SetTrustCookie(l) \/ StoreSecret(l) \/ EnableApp(l)
    \/ StoreNewCodes(l) \/ RemoveFactor(l) \/ SwitchToEmail(l) \/ ClearCode(l) \/ ClearFactor(l)

\* A call that goes on finds what it has read as it was: nobody else is there.
LEMMA GoingOnStands ==
    ASSUME Typed, TablesStand, NEW l \in Lane, CallStep(l), Agrees(call[l]), StillSo(call[l]), CountersFollow(call[l])
    PROVE  \E c \in SignInCall : call'[l] = c /\ StillSo(c)' /\ CountersFollow(c)'
<1>1. /\ acct \in AccountRow /\ told \in History /\ call[l] \in SignInCall
      /\ otp = Nowhere \/ otp \in OtpRow
      /\ MAX_ATTEMPTS \in Nat \ {0}
  BY SignInAssumption DEF Typed, SignInTypeOK
<1>2. PICK c \in SignInCall : Moves(l, c)
  BY StepMoves
<1>3. call'[l] = c
  BY <1>2 DEF Moves
<1>4. Return(l) => c = NoCall
  BY <1>3, ReturnMoves DEF Moves
<1>5. NoCall.pc = "idle"
  BY PlainCalls
<1>6. call[l].pc \notin {"count failure", "settle code"} =>
          /\ acct.failedLoginCount = told.streak
          /\ otp = Nowhere \/ (otp.attempts = told.guesses /\ told.guesses < MAX_ATTEMPTS)
  BY DEF CountersFollow
<1>7. ASSUME CountFailure(l)
      PROVE  StillSo(c)' /\ CountersFollow(c)'
  <2>1. acct' = [acct EXCEPT !.failedLoginCount = call[l].count, !.locked = nextLockout(call[l].count)]
    BY <1>7 DEF CountFailure
  <2>2. acct'.failedLoginCount = call[l].count
    BY <1>1, <2>1 DEF AccountRow
  <2>3. call[l].pc = "count failure" /\ c = NoCall /\ UNCHANGED <<otp, told>>
    BY <1>4, <1>7 DEF CountFailure, At
  <2>4. CountersFollow(c)'
    BY <1>5, <2>2, <2>3 DEF CountersFollow
  <2>5. QED
    BY <1>5, <2>3, <2>4, NothingWatched DEF Watched, CheckSteps, Checking
<1>8. ASSUME Ends(l) \/ SwitchOffEmail(l) \/ ReadCooldown(l)
      PROVE  StillSo(c)' /\ CountersFollow(c)'
  <2>1. call[l].pc \notin {"count failure", "settle code"}
    BY <1>8 DEF Ends, SwitchOffEmail, ReadCooldown, MintToken, MintGoogleToken, Done, SetTrustCookie, StoreSecret,
       EnableApp, StoreNewCodes, RemoveFactor, SwitchToEmail, ClearCode, ClearFactor, At
  <2>2. c.pc \in {"idle", "clear code", "issue code"}
    <3>1. ASSUME NEW pc \in {"clear code", "issue code"}, Go(l, pc), call[l].pc \in {"disable email", "read cooldown"}
          PROVE  c.pc = pc
      <4>1. call[l] \in DeviceCall \cup PlainCall
        BY <1>1, <3>1 DEF SignInCall, FailureCall, CheckCall, VerdictCall, Checking, CheckSteps
      <4>2. c = [call[l] EXCEPT !.pc = pc]
        BY <1>3, <3>1 DEF Go, Typed
      <4>3. QED
        BY <4>1, <4>2 DEF DeviceCall, PlainCall
    <3>2. SwitchOffEmail(l) => Go(l, "clear code") /\ call[l].pc = "disable email"
      BY DEF SwitchOffEmail, At
    <3>3. ReadCooldown(l) => (Go(l, "issue code") \/ Return(l)) /\ call[l].pc = "read cooldown"
      BY DEF ReadCooldown, At
    <3>4. Ends(l) => Return(l)
      BY DEF Ends, MintToken, MintGoogleToken, Done, SetTrustCookie, StoreSecret,
         EnableApp, StoreNewCodes, RemoveFactor, SwitchToEmail, ClearCode, ClearFactor
    <3>5. QED
      BY <1>4, <1>5, <1>8, <3>1, <3>2, <3>3, <3>4
  <2>3. told' = told /\ otp' \in {Nowhere, otp}
    BY <1>8 DEF Ends, SwitchOffEmail, ReadCooldown, MintToken, MintGoogleToken, Done, SetTrustCookie, StoreSecret,
       EnableApp, StoreNewCodes, RemoveFactor, SwitchToEmail, ClearCode, ClearFactor
  <2>4. acct'.failedLoginCount = acct.failedLoginCount
    <3>1. CASE acct' = acct
      BY <3>1
    <3>2. CASE StoreSecret(l) \/ EnableApp(l) \/ StoreNewCodes(l) \/ RemoveFactor(l) \/ SwitchToEmail(l)
               \/ SwitchOffEmail(l) \/ ClearFactor(l)
      <4>1. ~CountFailure(l) /\ ~Succeed(l)
        BY <3>2 DEF StoreSecret, EnableApp, StoreNewCodes, RemoveFactor, SwitchToEmail, SwitchOffEmail, ClearFactor,
           CountFailure, Succeed, At
      <4>2. QED
        BY <3>2, <4>1, CounterKept DEF Rewrites
    <3>3. QED
      BY <1>8, <3>1, <3>2 DEF Ends, MintToken, MintGoogleToken, Done, SetTrustCookie, ClearCode, ReadCooldown
  <2>5. CountersFollow(c)'
    BY <1>6, <2>1, <2>2, <2>3, <2>4, CountersStay
  <2>6. QED
    BY <2>2, <2>5, NothingWatched DEF Watched, CheckSteps, Checking
<1>9. ASSUME IssueCode(l)
      PROVE  StillSo(c)' /\ CountersFollow(c)'
  <2>1. c = NoCall /\ acct' = acct /\ call[l].pc = "issue code"
    BY <1>4, <1>9 DEF IssueCode, At
  <2>2. otp'.attempts = 0 /\ told'.guesses = 0 /\ told'.streak = told.streak
    BY <1>1, <1>9 DEF IssueCode, History
  <2>3. 0 < MAX_ATTEMPTS
    BY <1>1
  <2>4. CountersFollow(c)'
    BY <1>5, <1>6, <2>1, <2>2, <2>3 DEF CountersFollow
  <2>5. QED
    BY <1>5, <2>1, <2>4, NothingWatched DEF Watched, CheckSteps, Checking
<1>10. ASSUME ReadCode(l)
       PROVE  StillSo(c)' /\ CountersFollow(c)'
  <2> DEFINE verdict == Judge(call[l].factor)
  <2>1. call[l].pc = "read code" /\ acct' = acct /\ otp' = otp
    BY <1>10 DEF ReadCode, At
  <2>2. /\ c.pc = "settle code" /\ c.row = call[l].row /\ c.factor = call[l].factor /\ c.coded = call[l].coded
        /\ c.verdict = verdict /\ c.attempts = IF otp = Nowhere THEN 0 ELSE otp.attempts + 1
    BY <1>3, <1>10 DEF ReadCode, Typed
  <2>3. /\ told'.spent = told.spent /\ told'.streak = told.streak
        /\ told'.guesses = IF verdict \in {"wrong", "locked"} THEN told.guesses + 1 ELSE told.guesses
    BY <1>1, <1>10 DEF ReadCode, History
  <2>4. call[l].coded /\ call[l].row.mfaRecoveryCodes = acct.mfaRecoveryCodes
    BY <2>1 DEF StillSo
  <2>5. verdict = "ok" => /\ otp # Nowhere /\ call[l].factor.kind = "email" /\ call[l].factor.id = otp.id
    BY DEF Judge
  <2>6. verdict = "ok" => call[l].factor \notin told.spent
    <3>1. SUFFICES ASSUME verdict = "ok"
                   PROVE  call[l].factor \notin told.spent
      OBVIOUS
    <3>2. call[l].factor \in Factor
      BY <1>1, <2>1, KindOfSignInCall DEF CheckSteps, Checking
    <3>3. call[l].factor = EmailCode(otp.id)
      BY <2>5, <3>1, <3>2 DEF Factor, EmailCode
    <3>4. QED
      BY <2>5, <3>1, <3>3 DEF TablesStand
  <2>7. StillSo(c)'
    BY <2>1, <2>2, <2>3, <2>4, <2>6 DEF StillSo
  <2>8. verdict = "none" => otp = Nowhere
    BY DEF Judge
  <2>9. ASSUME verdict = "wrong"
        PROVE  c.attempts = told'.guesses /\ told'.guesses < MAX_ATTEMPTS
    <3>1. otp # Nowhere /\ ~(otp.attempts + 1 >= MAX_ATTEMPTS)
      BY <2>9 DEF Judge
    <3>2. otp.attempts = told.guesses /\ otp.attempts \in Nat
      BY <1>1, <1>6, <2>1, <3>1 DEF OtpRow
    <3>3. PICK n \in Nat : n = otp.attempts + 1
      BY <3>2
    <3>4. n < MAX_ATTEMPTS
      BY <1>1, <3>1, <3>3
    <3>5. c.attempts = n /\ told'.guesses = n
      BY <2>2, <2>3, <2>9, <3>1, <3>2, <3>3
    <3>6. QED
      BY <3>4, <3>5
  <2>10. CountersFollow(c)'
    BY <1>6, <2>1, <2>2, <2>3, <2>8, <2>9 DEF CountersFollow
  <2>11. QED
    BY <2>7, <2>10
<1>11. ASSUME SettleCode(l)
       PROVE  StillSo(c)' /\ CountersFollow(c)'
  <2>1. call[l].pc = "settle code" /\ acct' = acct /\ told' = told
    BY <1>11 DEF SettleCode, At
  <2>2. call[l].verdict \in Verdicts /\ call[l].pc \in CheckSteps
    BY <1>1, <2>1, KindOfSignInCall DEF VerdictCall, CheckSteps
  <2>3. /\ call[l].coded /\ call[l].row.mfaRecoveryCodes = acct.mfaRecoveryCodes
        /\ call[l].verdict = "ok" => call[l].factor \notin told.spent /\ call[l].factor.kind = "email"
    BY <2>1 DEF StillSo, Agrees
  <2>4. /\ call[l].verdict = "wrong" => call[l].attempts = told.guesses /\ told.guesses < MAX_ATTEMPTS
        /\ call[l].verdict = "none" => otp = Nowhere
        /\ acct.failedLoginCount = told.streak
    BY <2>1 DEF CountersFollow
  <2>5. call[l].verdict \in {"ok", "expired", "locked"} => otp' = Nowhere
    BY <1>11 DEF SettleCode
  <2>6. call[l].verdict = "none" => otp' = Nowhere
    <3>1. call[l].verdict = "none" => otp' = otp
      BY <1>11 DEF SettleCode
    <3>2. QED
      BY <2>4, <3>1
  <2>7. call[l].verdict = "wrong" => otp' = Nowhere \/ otp'.attempts = call[l].attempts
    <3>1. CASE call[l].verdict = "wrong" /\ otp # Nowhere
      <4>1. otp' = [otp EXCEPT !.attempts = call[l].attempts] /\ otp \in OtpRow
        BY <1>1, <1>11, <3>1 DEF SettleCode
      <4>2. QED
        BY <4>1 DEF OtpRow
    <3>2. CASE call[l].verdict = "wrong" /\ otp = Nowhere
      BY <1>11, <3>2 DEF SettleCode
    <3>3. QED
      BY <3>1, <3>2
  <2>8. otp' = Nowhere \/ (otp'.attempts = told'.guesses /\ told'.guesses < MAX_ATTEMPTS)
    BY <2>1, <2>2, <2>4, <2>5, <2>6, <2>7 DEF Verdicts
  <2>9. c.pc \notin {"count failure", "settle code"} => CountersFollow(c)'
    BY <2>1, <2>4, <2>8 DEF CountersFollow
  <2>10. ASSUME NEW pc \in {"succeed", "burn"}, Go(l, pc)
         PROVE  c.pc = pc /\ c.factor = call[l].factor /\ c.coded = call[l].coded /\ c.row = call[l].row
    <3>1. c = [call[l] EXCEPT !.pc = pc]
      BY <1>3, <2>10 DEF Go, Typed
    <3>2. pc \in Checking \ {"read code"}
      BY DEF Checking
    <3>3. QED
      BY <1>1, <2>2, <3>1, <3>2, ChecksGoOn
  <2>11. CASE call[l].verdict = "ok" /\ Go(l, "succeed")
    <3>1. StillSo(c)'
      BY <2>1, <2>3, <2>5, <2>10, <2>11 DEF StillSo
    <3>2. QED
      BY <2>9, <2>10, <2>11, <3>1
  <2>12. CASE Go(l, "burn")
    <3>1. StillSo(c)'
      BY <2>1, <2>3, <2>10, <2>12 DEF StillSo
    <3>2. QED
      BY <2>9, <2>10, <2>12, <3>1
  <2>13. CASE Return(l)
    BY <1>4, <1>5, <2>9, <2>13, NothingWatched DEF Watched, CheckSteps, Checking
  <2>14. QED
    BY <1>11, <2>11, <2>12, <2>13 DEF SettleCode
<1>12. ASSUME BurnRecoveryCode(l)
       PROVE  StillSo(c)' /\ CountersFollow(c)'
  <2>1. call[l].pc = "burn" /\ otp' = otp /\ told' = told /\ Go(l, "succeed") /\ call[l].pc \in CheckSteps
    BY <1>12 DEF BurnRecoveryCode, At, CheckSteps, Checking
  <2>2. c.pc = "succeed" /\ c.factor = call[l].factor /\ c.coded = call[l].coded
    <3>1. c = [call[l] EXCEPT !.pc = "succeed"]
      BY <1>3, <2>1 DEF Go, Typed
    <3>2. QED
      BY <1>1, <2>1, <3>1, ChecksGoOn DEF Checking
  <2>3. /\ call[l].coded /\ call[l].row.mfaRecoveryCodes = acct.mfaRecoveryCodes
        /\ call[l].factor.kind = "recovery" /\ call[l].factor.code \in call[l].row.mfaRecoveryCodes
    BY <2>1 DEF StillSo, Agrees
  <2>4. acct'.mfaRecoveryCodes = acct.mfaRecoveryCodes \ {call[l].factor.code}
    BY <1>1, <1>12, <2>3 DEF BurnRecoveryCode, AccountRow
  <2>5. call[l].factor = RecoveryCode(call[l].factor.code)
    <3>1. call[l].factor \in Factor
      BY <1>1, <2>1, KindOfSignInCall
    <3>2. QED
      BY <2>3, <3>1 DEF Factor, RecoveryCode
  <2>6. call[l].factor \notin told.spent
    BY <2>3, <2>5 DEF TablesStand
  <2>7. StillSo(c)'
    BY <2>1, <2>2, <2>3, <2>4, <2>6 DEF StillSo
  <2>8. acct'.failedLoginCount = acct.failedLoginCount
    <3>1. ~CountFailure(l) /\ ~Succeed(l)
      BY <2>1 DEF CountFailure, Succeed, At
    <3>2. QED
      BY <1>12, <3>1, CounterKept DEF Rewrites
  <2>9. CountersFollow(c)'
    BY <1>6, <2>1, <2>2, <2>8, CountersStay
  <2>10. QED
    BY <2>7, <2>9
<1>13. ASSUME Succeed(l)
       PROVE  StillSo(c)' /\ CountersFollow(c)'
  <2>1. call[l].pc = "succeed" /\ otp' = otp /\ trust' = trust /\ Go(l, "token") /\ call[l].pc \in CheckSteps
    BY <1>13 DEF Succeed, At, CheckSteps, Checking
  <2>2. c.pc = "token" /\ c.device = call[l].device /\ c.coded = call[l].coded
    <3>1. c = [call[l] EXCEPT !.pc = "token"]
      BY <1>3, <2>1 DEF Go, Typed
    <3>2. QED
      BY <1>1, <2>1, <3>1, ChecksGoOn DEF Checking
  <2>3. acct' = [acct EXCEPT !.failedLoginCount = 0, !.locked = FALSE]
    BY <1>13 DEF Succeed
  <2>4. /\ acct'.failedLoginCount = 0 /\ acct'.mfaEnabled = acct.mfaEnabled /\ acct'.mfaSecret = acct.mfaSecret
        /\ acct'.sessionVersion = acct.sessionVersion
    BY <1>1, <2>3 DEF AccountRow
  <2>5. told'.streak = 0 /\ told'.guesses = told.guesses
    BY <1>1, <1>13 DEF Succeed, History
  <2>6. ~call[l].coded => ~acct.mfaEnabled \/ Trusted(call[l].device, acct)
    BY <2>1 DEF StillSo
  <2>7. Trusted(c.device, acct)' = Trusted(call[l].device, acct)
    BY <2>1, <2>2, <2>4 DEF Trusted
  <2>8. StillSo(c)'
    BY <2>2, <2>4, <2>6, <2>7 DEF StillSo
  <2>9. CountersFollow(c)'
    BY <1>6, <2>1, <2>2, <2>4, <2>5 DEF CountersFollow
  <2>10. QED
    BY <2>8, <2>9
<1>14. StillSo(c)' /\ CountersFollow(c)'
  BY <1>7, <1>8, <1>9, <1>10, <1>11, <1>12, <1>13 DEF CallStep, Ends
<1>15. QED
  BY <1>3, <1>14

\* Time passes: locks end, codes age, and what a call has read is as it was.
LEMMA TimeStands ==
    ASSUME Typed, NEW c, StillSo(c), CountersFollow(c), LockExpires \/ CodeAges \/ UNCHANGED signInVars
    PROVE  StillSo(c)' /\ CountersFollow(c)'
<1>1. /\ acct \in AccountRow
      /\ otp = Nowhere \/ otp \in OtpRow
  BY DEF Typed, SignInTypeOK
<1>2. CASE LockExpires
  <2>1. acct' = [acct EXCEPT !.locked = FALSE] /\ otp' = otp /\ told' = told /\ trust' = trust
    BY <1>2 DEF LockExpires
  <2>2. /\ acct'.mfaEnabled = acct.mfaEnabled /\ acct'.mfaSecret = acct.mfaSecret
        /\ acct'.sessionVersion = acct.sessionVersion /\ acct'.mfaRecoveryCodes = acct.mfaRecoveryCodes
        /\ acct'.failedLoginCount = acct.failedLoginCount
    BY <1>1, <2>1 DEF AccountRow
  <2>3. Trusted(c.device, acct)' = Trusted(c.device, acct)
    BY <2>1, <2>2 DEF Trusted
  <2>4. StillSo(c)'
    BY <2>1, <2>2, <2>3 DEF StillSo
  <2>5. CountersFollow(c)'
    BY <2>1, <2>2 DEF CountersFollow
  <2>6. QED
    BY <2>4, <2>5
<1>3. CASE CodeAges
  <2>1. /\ otp # Nowhere /\ otp' \in {[otp EXCEPT !.recent = FALSE], [otp EXCEPT !.expired = TRUE]}
        /\ acct' = acct /\ told' = told /\ trust' = trust
    BY <1>3 DEF CodeAges
  <2>2. otp'.attempts = otp.attempts
    BY <1>1, <2>1 DEF OtpRow
  <2>3. Trusted(c.device, acct)' = Trusted(c.device, acct)
    BY <2>1 DEF Trusted
  <2>4. StillSo(c)'
    BY <2>1, <2>3 DEF StillSo
  <2>5. CountersFollow(c)'
    BY <2>1, <2>2 DEF CountersFollow
  <2>6. QED
    BY <2>4, <2>5
<1>4. CASE UNCHANGED signInVars
  <2>1. acct' = acct /\ otp' = otp /\ told' = told /\ trust' = trust
    BY <1>4 DEF signInVars
  <2>2. Trusted(c.device, acct)' = Trusted(c.device, acct)
    BY <2>1 DEF Trusted
  <2>3. StillSo(c)'
    BY <2>1, <2>2 DEF StillSo
  <2>4. CountersFollow(c)'
    BY <2>1 DEF CountersFollow
  <2>5. QED
    BY <2>3, <2>4
<1>5. QED
  BY <1>2, <1>3, <1>4

LEMMA AloneStep ==
    ASSUME SignInInv, [SignInNext]_signInVars
    PROVE  AloneInv'
<1>1. Typed /\ TablesAgree /\ CallsAgree /\ AloneInv
  BY DEF SignInInv
<1>2. Alone' = Alone
  <2>1. lanes' = lanes
    BY <1>1, OneLaneMoves DEF SignInNext, Moves, LockExpires, CodeAges, signInVars
  <2>2. QED
    BY <2>1 DEF Alone
<1>3. SUFFICES ASSUME Alone
               PROVE  TablesStand' /\ \E l \in Lane : StandsAlone(l)'
  BY <1>2 DEF AloneInv
<1>4. TablesStand' /\ TablesStand
  BY <1>1, <1>3, TablesStandStep DEF AloneInv
<1>5. ASSUME NEW l \in Lane, NEW c, call'[l] = c, StillSo(c)', CountersFollow(c)',
             \A k \in Lane \ {l} : call'[k] = NoCall
      PROVE  StandsAlone(l)'
  <2>1. StillSo(call[l])'
    BY <1>5 DEF StillSo, Trusted
  <2>2. CountersFollow(call[l])'
    BY <1>5 DEF CountersFollow
  <2>3. QED
    BY <1>5, <2>1, <2>2 DEF StandsAlone, NoCall
<1>6. ASSUME NEW l \in Lane, BeginCall(l)
      PROVE  StandsAlone(l)'
  <2>1. StandsAlone(l) /\ call[l] = NoCall /\ \A k \in Lane \ {l} : call'[k] = NoCall
    BY <1>1, <1>3, <1>6, Solo
  <2>2. CountersFollow(NoCall)
    BY <2>1 DEF StandsAlone
  <2>3. \E c \in SignInCall : call'[l] = c /\ StillSo(c)' /\ CountersFollow(c)'
    BY <1>1, <1>4, <1>6, <2>2, BeginningStands
  <2>4. QED
    BY <1>5, <2>1, <2>3
<1>7. ASSUME NEW l \in Lane, CallStep(l)
      PROVE  StandsAlone(l)'
  <2>1. StandsAlone(l) /\ \A k \in Lane \ {l} : call'[k] = NoCall
    BY <1>1, <1>3, <1>7, Solo
  <2>2. Agrees(call[l]) /\ StillSo(call[l]) /\ CountersFollow(call[l])
    BY <1>1, <2>1 DEF StandsAlone, CallsAgree
  <2>3. \E c \in SignInCall : call'[l] = c /\ StillSo(c)' /\ CountersFollow(c)'
    BY <1>1, <1>4, <1>7, <2>2, GoingOnStands
  <2>4. QED
    BY <1>5, <2>1, <2>3
<1>8. CASE LockExpires \/ CodeAges \/ UNCHANGED signInVars
  <2>1. PICK l \in Lane : StandsAlone(l)
    BY <1>1, <1>3 DEF AloneInv
  <2>2. call' = call
    BY <1>8 DEF LockExpires, CodeAges, signInVars
  <2>3. PICK c : c = call[l] /\ StillSo(c) /\ CountersFollow(c)
    BY <2>1 DEF StandsAlone
  <2>4. StillSo(c)' /\ CountersFollow(c)'
    BY <1>1, <1>8, <2>3, TimeStands
  <2>5. call'[l] = c /\ \A k \in Lane \ {l} : call'[k] = NoCall
    BY <2>1, <2>2, <2>3 DEF StandsAlone
  <2>6. StandsAlone(l)'
    BY <1>5, <2>4, <2>5
  <2>7. QED
    BY <1>4, <2>6
<1>9. QED
  BY <1>4, <1>6, <1>7, <1>8 DEF SignInNext
---------------------------------------------------------------------------
(* The theorems                                                            *)

LEMMA SignInStarts == SignInInit => SignInInv
<1> SUFFICES ASSUME SignInInit
             PROVE  SignInInv
  OBVIOUS
<1>1. /\ acct \in AccountRow /\ FreshAccount(acct) /\ otp = Nowhere /\ calls = 0 /\ lanes \in 1..Cardinality(Lane)
      /\ session = [d \in Device |-> Nowhere] /\ trust = [d \in Device |-> Nowhere]
      /\ stepUp = [d \in Device |-> Nowhere] /\ call = [l \in Lane |-> NoCall]
  BY SignInAssumption DEF SignInInit
<1>2. /\ minted = [secrets |-> acct.mfaSecret, sets |-> IF acct.mfaRecoveryCodes = {} THEN 0 ELSE 1, codes |-> 0]
      /\ told = [wrong |-> 0, streak |-> 0, guesses |-> 0, resets |-> 0,
                 proven |-> {acct.mfaSecret}, spent |-> {}, twice |-> {}, shown |-> {}]
  BY DEF SignInInit
<1>3. Cardinality(Lane) \in Nat
  BY SignInAssumption, FS_CardinalityType
<1>4. CallBound[lanes] \in Nat
  BY <1>1, <1>3, SignInAssumption
<1>5. acct.mfaSecret \in Nat /\ acct.mfaRecoveryCodes \in SUBSET (Nat \X RecoverySlots)
  BY <1>1 DEF AccountRow
<1>6. Typed
  <2>1. SignInTypeOK
    BY <1>1, <1>4 DEF SignInTypeOK
  <2>2. call \in [Lane -> SignInCall]
    BY <1>1, PlainCalls
  <2>3. minted \in [secrets : Nat, sets : Nat, codes : Nat]
    BY <1>2, <1>5
  <2>4. told \in History
    BY <1>2, <1>5 DEF History
  <2>5. QED
    BY <1>1, <2>1, <2>2, <2>3, <2>4 DEF Typed
<1>7. TablesAgree
  <2>1. acct.failedLoginCount = 0 /\ ~acct.locked /\ told.wrong = 0 /\ told.spent = {}
    BY <1>1, <1>2 DEF FreshAccount
  <2>2. QED
    BY <1>1, <2>1 DEF TablesAgree, NobodyIsLockedForNothing
<1>8. CallsAgree
  BY <1>1 DEF CallsAgree, Agrees, NoCall, CheckSteps, Checking
<1>9. TablesStand
  <2>1. \A c \in acct.mfaRecoveryCodes : c[1] = minted.sets /\ RecoveryCode(c) \notin told.spent
    BY <1>1, <1>2 DEF FreshAccount
  <2>2. acct.mfaEnabled /\ acct.mfaMethod = "TOTP" => acct.mfaSecret \in told.proven \ {0}
    BY <1>1, <1>2, <1>5 DEF FreshAccount
  <2>3. told.twice = {}
    BY <1>2
  <2>4. QED
    BY <1>1, <2>1, <2>2, <2>3 DEF TablesStand, OneUse
<1>10. \E l \in Lane : StandsAlone(l)
  <2>1. Lane # {}
    BY <1>1, <1>3, FS_EmptySet
  <2>2. PICK l \in Lane : TRUE
    BY <2>1
  <2>3. StillSo(NoCall)
    BY DEF StillSo, NoCall
  <2>4. CountersFollow(NoCall)
    BY <1>1, <1>2 DEF CountersFollow, NoCall, FreshAccount
  <2>5. QED
    BY <1>1, <2>2, <2>3, <2>4 DEF StandsAlone
<1>11. QED
  BY <1>6, <1>7, <1>8, <1>9, <1>10 DEF SignInInv, AloneInv

\* What holds of the account, its cookies and codes and the calls in flight
\* holds from the first call on.
THEOREM SignInInvariance == SignInSpec => []SignInInv
<1>1. SignInInv /\ [SignInNext]_signInVars => SignInInv'
  BY SignInTypedStep, TablesAgreeStep, CallsAgreeStep, AloneStep DEF SignInInv
<1>2. QED
  BY SignInStarts, <1>1, PTL DEF SignInSpec

\* The rows and cookies of the sign-in code keep the shape of their tables:
\* no session, trusted-device cookie or pending sign-in carries a
\* sessionVersion the account has not had.
THEOREM SignInTypeInvariance == SignInSpec => []SignInTypeOK
<1>1. SignInInv => SignInTypeOK
  BY DEF SignInInv, Typed
<1>2. QED
  BY SignInInvariance, <1>1, PTL

\* resetPassword bumps sessionVersion and the jwt callback compares it, so no
\* session works whose password was checked before the last reset, however
\* many sign-ins, resets and sign-outs overlap.
THEOREM ResetsEndSessions == SignInSpec => []SessionsDieWithReset
<1>1. SignInInv => SessionsDieWithReset
  BY DEF SignInInv, TablesAgree, SessionsDieWithReset, Working
<1>2. QED
  BY SignInInvariance, <1>1, PTL

\* The failure counter is written from rows that may be stale by then, and
\* still locks nobody who has not failed MAX_ATTEMPTS_BEFORE_LOCK times.
THEOREM LocksAreEarned == SignInSpec => []NobodyIsLockedForNothing
<1>1. SignInInv => NobodyIsLockedForNothing
  BY DEF SignInInv, TablesAgree
<1>2. QED
  BY SignInInvariance, <1>1, PTL

LEMMA AtRest ==
    ASSUME SignInInv, Alone, \A l \in Lane : call[l] = NoCall
    PROVE  TablesStand /\ CountersFollow(NoCall)
BY DEF SignInInv, AloneInv, StandsAlone

\* One attempt after the other, the counter of the row is the number of
\* failures since the last success or reset: no path of the credentials
\* provider forgets one or counts one twice.
THEOREM EveryFailureCounts == SignInSpec => []FailuresAreCounted
<1>1. SignInInv => FailuresAreCounted
  BY AtRest DEF FailuresAreCounted, CountersFollow, NoCall
<1>2. QED
  BY SignInInvariance, <1>1, PTL

\* verifyEmailOtp and issueEmailOtp between them never leave a code in the
\* table at which MAX_ATTEMPTS guesses were made, if nothing overlaps.
THEOREM GuessesStayCapped == SignInSpec => []GuessesAreCapped
<1>1. SignInInv => GuessesAreCapped
  BY AtRest DEF GuessesAreCapped, CountersFollow, NoCall
<1>2. QED
  BY SignInInvariance, <1>1, PTL

\* An emailed code or a recovery code that let somebody in is gone before the
\* next call begins.
THEOREM CodesWorkOnce == SignInSpec => []OneUseAlone
<1>1. SignInInv => OneUseAlone
  BY DEF SignInInv, AloneInv, TablesStand, OneUseAlone
<1>2. QED
  BY SignInInvariance, <1>1, PTL

\* enableApp and regenerateRecoveryCodes replace the whole set; burning a code
\* writes back no code of an older one.
THEOREM OldSetsAreDead == SignInSpec => []OnlyTheLastSetWorks
<1>1. SignInInv => OnlyTheLastSetWorks
  BY DEF SignInInv, AloneInv, TablesStand, OnlyTheLastSetWorks
<1>2. QED
  BY SignInInvariance, <1>1, PTL

\* The secret of an app in force is one a code was typed back from: neither
\* repeating nor abandoning beginMfaSetup changes it.
THEOREM AppIsProven == SignInSpec => []EnrolledAppIsProven
<1>1. SignInInv => EnrolledAppIsProven
  BY DEF SignInInv, AloneInv, TablesStand, EnrolledAppIsProven
<1>2. QED
  BY SignInInvariance, <1>1, PTL

\* A trusted-device cookie that still verifies is of a device that presented
\* a code under the sessionVersion in force.
THEOREM TrustIsShown == SignInSpec => []TrustedDeviceShowedACode
<1>1. SignInInv => TrustedDeviceShowedACode
  <2> SUFFICES ASSUME SignInInv, Alone, NEW d \in Device, Trusted(d, acct)
               PROVE  <<d, acct.sessionVersion>> \in told.shown
    BY DEF TrustedDeviceShowedACode
  <2>1. trust[d] # Nowhere /\ trust[d].sessionVersion = acct.sessionVersion
    BY DEF Trusted
  <2>2. QED
    BY <2>1 DEF SignInInv, AloneInv, TablesStand
<1>2. QED
  BY SignInInvariance, <1>1, PTL

---------------------------------------------------------------------------
(* The factor is asked for                                                 *)

LEMMA WritersOfSession ==
    ASSUME [SignInNext]_signInVars
    PROVE  \/ UNCHANGED session
           \/ \E l \in Lane : \/ MintToken(l) \/ MintGoogleToken(l)
                             \/ \E d \in Device : SignOutEverywhere(l, d)
<1>1. ASSUME NEW l \in Lane, CallStep(l), ~(MintToken(l) \/ MintGoogleToken(l))
      PROVE  UNCHANGED session
  BY <1>1 DEF CallStep, CountFailure, ReadCode, SettleCode, BurnRecoveryCode, Succeed, Done, StoreSecret, IssueCode,
     EnableApp, StoreNewCodes, ClearCode,
     ReadCooldown, SetTrustCookie, RemoveFactor, SwitchToEmail, SwitchOffEmail, ClearFactor
<1>2. ASSUME NEW l \in Lane, BeginCall(l), ~\E d \in Device : SignOutEverywhere(l, d)
      PROVE  UNCHANGED session
  BY <1>2 DEF BeginCall, WrongPassword, RightPassword, ContinueWithCode, GoogleSignIn, AskForCode, ConfirmMfaSetup,
     Remember, BeginMfaSetup, RegenerateRecoveryCodes, DisableMfa, EnableEmailOtp, ResetPassword,
     DisableEmailOtp, ForgetDevice, ResetUserMfa, Ask, SetActive
<1>3. ASSUME LockExpires \/ CodeAges \/ UNCHANGED signInVars
      PROVE  UNCHANGED session
  BY <1>3 DEF LockExpires, CodeAges, signInVars
<1>4. QED
  BY <1>1, <1>2, <1>3 DEF SignInNext

LEMMA FactorIsAskedStep ==
    ASSUME SignInInv, [SignInNext]_signInVars, NEW d \in Device,
           Alone, acct.mfaEnabled, session'[d] # session[d], session'[d] # Nowhere
    PROVE  session'[d].coded \/ Trusted(d, acct)
<1>1. /\ Typed /\ AloneInv /\ call \in [Lane -> SignInCall] /\ session \in [Device -> Token \cup {Nowhere}]
  BY DEF SignInInv, Typed
<1>2. ASSUME NEW l \in Lane, MintToken(l)
      PROVE  session'[d].coded \/ Trusted(d, acct)
  <2>1. call[l].pc = "token" /\ StandsAlone(l)
    BY <1>1, <1>2, Solo DEF CallStep, MintToken, At
  <2>2. ~call[l].coded => Trusted(call[l].device, acct)
    BY <2>1 DEF StandsAlone, StillSo
  <2>3. call[l].device = d /\ session'[d].coded = call[l].coded
    BY <1>1, <1>2 DEF MintToken
  <2>4. QED
    BY <2>2, <2>3
<1>3. ASSUME NEW l \in Lane, MintGoogleToken(l)
      PROVE  session'[d].coded \/ Trusted(d, acct)
  <2>1. call[l].pc = "google token" /\ StandsAlone(l)
    BY <1>1, <1>3, Solo DEF CallStep, MintGoogleToken, At
  <2>2. Trusted(call[l].device, acct)
    BY <2>1 DEF StandsAlone, StillSo
  <2>3. call[l].device = d
    BY <1>1, <1>3 DEF MintGoogleToken
  <2>4. QED
    BY <2>2, <2>3
<1>4. ASSUME NEW l \in Lane, NEW e \in Device, SignOutEverywhere(l, e)
      PROVE  FALSE
  BY <1>1, <1>4 DEF SignOutEverywhere
<1>5. QED
  BY <1>2, <1>3, <1>4, WritersOfSession

\* "Sign in with Google can never be a way around": no step of the
\* credentials provider, "mfa-continue" or the jwt callback hands a device a
\* session of an account with a second factor unless the code was presented
\* or the device is trusted.
THEOREM FactorIsAlwaysAsked == SignInSpec => FactorIsAsked
<1>1. SignInInv /\ [SignInNext]_signInVars =>
          [\A d \in Device : Alone /\ acct.mfaEnabled /\ session'[d] # session[d] /\ session'[d] # Nowhere
               => session'[d].coded \/ Trusted(d, acct)]_signInVars
  BY FactorIsAskedStep
<1>2. QED
  BY SignInInvariance, <1>1, PTL DEF SignInSpec, FactorIsAsked
=============================================================================
