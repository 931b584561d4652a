------------------------------- MODULE SignIn -------------------------------
(***************************************************************************)
(* Signing in to one account: the credentials and "mfa-continue" providers *)
(* and the jwt callback of lib/auth/config.ts, the emailed codes of        *)
(* lib/auth/emailOtp.ts, recovery codes, trusted devices, the enrolment    *)
(* and removal of a second factor (dashboard/mfa/actions.ts,               *)
(* account/emailOtpActions.ts), and what ends sessions.                    *)
(*                                                                         *)
(* Every await on the database is a step, so calls in flight interleave    *)
(* between reading the row and writing it.  A call that is refused writes  *)
(* only to the event log and is left out: its condition is a guard.        *)
(***************************************************************************)
EXTENDS Naturals, FiniteSets

CONSTANTS
    Device,         \* browsers of the account's owner
    Lane,           \* calls that may be in flight at once
    CallBound,      \* bound of the model: calls begun, by lanes in use
    MAX_ATTEMPTS_BEFORE_LOCK,   \* lib/auth/lockout.ts
    MAX_ATTEMPTS,   \* guesses at one emailed code (lib/auth/emailOtp.ts)
    RecoverySlots,  \* the codes of one set of recovery codes
    FirstAccounts,  \* the rows the account may start as
    Nowhere         \* no session, no cookie, no code

\* The account starts without a history: nobody has failed yet, its recovery
\* codes are the first set, and an app that is in force has a secret.
FreshAccount(a) ==
    /\ a.failedLoginCount = 0 /\ ~a.locked
    /\ a.mfaRecoveryCodes \subseteq {1} \X RecoverySlots
    /\ a.mfaEnabled /\ a.mfaMethod = "TOTP" => a.mfaSecret # 0

VARIABLES
    acct,           \* the User row
    otp,            \* the EmailOtp row of the account, or Nowhere
    session,        \* by device: the session token, or Nowhere
    trust,          \* by device: the "remember this device" cookie, or Nowhere
    stepUp,         \* by device: sessionVersion in a pending Google sign-in
    call,           \* the calls in flight
    lanes,          \* how many calls may overlap in this behaviour
    calls,          \* history: calls begun
    minted,         \* history: secrets, sets of recovery codes, emailed codes made
    told            \* history: what the owner typed and what became of it

signInVars == <<acct, otp, session, trust, stepUp, call, lanes, calls, minted, told>>

---------------------------------------------------------------------------
(* Rows, cookies and calls                                                 *)

Methods == {"none", "TOTP", "EMAIL"}

\* Secret 0 is null.  A recovery code is the number of its set and a slot.
AccountRow ==
    [active : BOOLEAN, failedLoginCount : Nat, locked : BOOLEAN,
     sessionVersion : Nat, mfaEnabled : BOOLEAN, mfaMethod : Methods,
     mfaSecret : Nat, mfaRecoveryCodes : SUBSET (Nat \X RecoverySlots)]

ASSUME SignInAssumption ==
    /\ IsFiniteSet(Lane) /\ CallBound \in [1..Cardinality(Lane) -> Nat]
    /\ MAX_ATTEMPTS_BEFORE_LOCK \in Nat /\ MAX_ATTEMPTS \in Nat \ {0}
    /\ \A a \in FirstAccounts : a \in AccountRow /\ FreshAccount(a)

OtpRow == [id : Nat, attempts : Nat, expired : BOOLEAN, recent : BOOLEAN]
Token == [sessionVersion : Nat, coded : BOOLEAN, resets : Nat]
TrustCookie == [sessionVersion : Nat, fingerprint : Nat]

Working(d) ==
    /\ session[d] # Nowhere
    /\ acct.active
    /\ session[d].sessionVersion = acct.sessionVersion

\* verifyTrustToken: the cookie still describes the row.
Trusted(d, row) ==
    /\ trust[d] # Nowhere
    /\ trust[d] = [sessionVersion |-> row.sessionVersion, fingerprint |-> row.mfaSecret]

\* What is typed into the code field; a guess is the emailed code 0.
Factors ==
    [kind : {"none"}]
        \cup [kind : {"app"}, secret : 1..minted.secrets]
        \cup [kind : {"email"}, id : 0..minted.codes]
        \cup [kind : {"recovery"}, code : (1..minted.sets) \X RecoverySlots]

NoCall == [pc |-> "idle"]

Start(l, next) ==
    /\ call[l] = NoCall
    /\ Cardinality({k \in Lane : call[k] # NoCall}) < lanes
    /\ calls < CallBound[lanes]
    /\ calls' = calls + 1
    /\ call' = [call EXCEPT ![l] = next]
    /\ UNCHANGED lanes

Go(l, pc) == call' = [call EXCEPT ![l].pc = pc] /\ UNCHANGED <<calls, lanes>>
Return(l) == call' = [call EXCEPT ![l] = NoCall] /\ UNCHANGED <<calls, lanes>>
At(l, pc) == call[l].pc = pc

SignInInit ==
    /\ acct \in FirstAccounts
    /\ otp = Nowhere
    /\ session = [d \in Device |-> Nowhere]
    /\ trust = [d \in Device |-> Nowhere]
    /\ stepUp = [d \in Device |-> Nowhere]
    /\ call = [l \in Lane |-> NoCall]
    /\ lanes \in 1..Cardinality(Lane)
    /\ calls = 0
    /\ minted = [secrets |-> acct.mfaSecret,
                 sets |-> IF acct.mfaRecoveryCodes = {} THEN 0 ELSE 1,
                 codes |-> 0]
    /\ told = [wrong |-> 0, streak |-> 0, guesses |-> 0, resets |-> 0,
               proven |-> {acct.mfaSecret}, spent |-> {}, twice |-> {},
               shown |-> {}]

---------------------------------------------------------------------------
(* The credentials provider: password, then the second factor              *)

\* A wrong password: failedLoginCount + 1 is computed from the row read here.
WrongPassword(l) ==
    /\ acct.active /\ ~acct.locked
    /\ Start(l, [pc |-> "count failure", count |-> acct.failedLoginCount + 1])
    /\ told' = [told EXCEPT !.wrong = @ + 1, !.streak = @ + 1]
    /\ UNCHANGED <<acct, otp, session, trust, stepUp, minted>>

nextLockout(count) == count >= MAX_ATTEMPTS_BEFORE_LOCK

\* Mutant: the counter of the row is kept while the lock is decided.
CountFailureUnlessLocked(l) ==
    /\ At(l, "count failure")
    /\ acct' = [acct EXCEPT !.failedLoginCount = IF nextLockout(call[l].count) THEN 0 ELSE call[l].count,
                            !.locked = nextLockout(call[l].count)]
    /\ Return(l)
    /\ UNCHANGED <<otp, session, trust, stepUp, minted, told>>

\* Mutant: any failure locks.
CountFailureAndLock(l) ==
    /\ At(l, "count failure")
    /\ acct' = [acct EXCEPT !.failedLoginCount = call[l].count, !.locked = TRUE]
    /\ Return(l)
    /\ UNCHANGED <<otp, session, trust, stepUp, minted, told>>

CountFailure(l) ==
    /\ At(l, "count failure")
    /\ acct' = [acct EXCEPT !.failedLoginCount = call[l].count,
                            !.locked = nextLockout(call[l].count)]
    /\ Return(l)
    /\ UNCHANGED <<otp, session, trust, stepUp, minted, told>>

\* What the second factor needs next, given the row that was read: a code of
\* the app is decided on the spot, an emailed code by a row of its own, and a
\* recovery code is tried once the normal factor has not matched.
FactorStep(row, f) ==
    CASE f.kind = "app" /\ row.mfaMethod # "EMAIL" /\ row.mfaSecret # 0
             /\ f.secret = row.mfaSecret -> "succeed"
      [] f.kind # "none" /\ row.mfaMethod = "EMAIL" -> "read code"
      [] f.kind = "recovery" /\ row.mfaMethod # "EMAIL" /\ f.code \in row.mfaRecoveryCodes -> "burn"
      [] OTHER -> "refused"

RightPassword(l, d, f) ==
    /\ acct.active /\ ~acct.locked
    /\ LET free == ~acct.mfaEnabled \/ Trusted(d, acct)
           pc == IF free THEN "succeed" ELSE FactorStep(acct, f)
       IN /\ free => f.kind = "none"
          /\ pc # "refused"
          /\ Start(l, [pc |-> pc, device |-> d, row |-> acct, factor |-> f,
                       coded |-> ~free, resets |-> told.resets])
    /\ UNCHANGED <<acct, otp, session, trust, stepUp, minted, told>>

\* verifyEmailOtp: the row is read once, and judged by what was read.
Judge(f) ==
    CASE otp = Nowhere -> "none"
      [] otp # Nowhere /\ otp.expired -> "expired"
      [] otp # Nowhere /\ ~otp.expired /\ f.kind = "email" /\ f.id = otp.id -> "ok"
      [] otp # Nowhere /\ ~otp.expired /\ ~(f.kind = "email" /\ f.id = otp.id) ->
             IF otp.attempts + 1 >= MAX_ATTEMPTS THEN "locked" ELSE "wrong"

ReadCode(l) ==
    /\ At(l, "read code")
    /\ LET verdict == Judge(call[l].factor) IN
       /\ call' = [call EXCEPT ![l] =
              [pc |-> "settle code", device |-> @.device, row |-> @.row,
               factor |-> @.factor, coded |-> @.coded, resets |-> @.resets,
               verdict |-> verdict,
               attempts |-> IF otp = Nowhere THEN 0 ELSE otp.attempts + 1]]
       /\ told' = [told EXCEPT !.guesses =
              IF verdict \in {"wrong", "locked"} THEN @ + 1 ELSE @]
    /\ UNCHANGED <<acct, otp, session, trust, stepUp, calls, lanes, minted>>

\* Mutant: a matched code is left for the retention sweep.
SettleCodeLeavingIt(l) ==
    /\ At(l, "settle code")
    /\ otp' = CASE call[l].verdict \in {"expired", "locked"} -> Nowhere
                [] call[l].verdict = "wrong" /\ otp # Nowhere ->
                       [otp EXCEPT !.attempts = call[l].attempts]
                [] OTHER -> otp
    /\ IF call[l].verdict = "ok" THEN Go(l, "succeed") ELSE Return(l)
    /\ UNCHANGED <<acct, session, trust, stepUp, minted, told>>

\* Mutant: the guess is not written down.
SettleCodeUncounted(l) ==
    /\ At(l, "settle code")
    /\ otp' = IF call[l].verdict = "wrong" THEN otp ELSE Nowhere
    /\ IF call[l].verdict = "ok" THEN Go(l, "succeed") ELSE Return(l)
    /\ UNCHANGED <<acct, session, trust, stepUp, minted, told>>

\* The row is deleted, or the guess written, by the account's id; a row that
\* is gone is not an error.  A code that did not match may be a recovery code.
SettleCode(l) ==
    /\ At(l, "settle code")
    /\ otp' = CASE call[l].verdict \in {"ok", "expired", "locked"} -> Nowhere
                [] call[l].verdict = "wrong" /\ otp # Nowhere ->
                       [otp EXCEPT !.attempts = call[l].attempts]
                [] OTHER -> otp
    /\ LET f == call[l].factor IN
       \/ call[l].verdict = "ok" /\ Go(l, "succeed")
       \/ /\ call[l].verdict # "ok" /\ f.kind = "recovery"
          /\ f.code \in call[l].row.mfaRecoveryCodes /\ Go(l, "burn")
       \/ /\ call[l].verdict # "ok"
          /\ ~(f.kind = "recovery" /\ f.code \in call[l].row.mfaRecoveryCodes)
          /\ Return(l)
    /\ UNCHANGED <<acct, session, trust, stepUp, minted, told>>

\* consumeRecoveryCode: the list as it was read, without this code, is
\* written back.
BurnRecoveryCode(l) ==
    /\ At(l, "burn")
    /\ acct' = [acct EXCEPT !.mfaRecoveryCodes =
                    call[l].row.mfaRecoveryCodes \ {call[l].factor.code}]
    /\ Go(l, "succeed")
    /\ UNCHANGED <<otp, session, trust, stepUp, minted, told>>

\* The sign-in is accepted: counter and lock are cleared.
Succeed(l) ==
    /\ At(l, "succeed")
    /\ acct' = [acct EXCEPT !.failedLoginCount = 0, !.locked = FALSE]
    /\ told' = [told EXCEPT
           !.streak = 0,
           !.shown = IF call[l].coded
                     THEN @ \cup {<<call[l].device, call[l].row.sessionVersion>>} ELSE @,
           !.spent = IF call[l].coded THEN @ \cup {call[l].factor} ELSE @,
           !.twice = IF call[l].coded /\ call[l].factor \in told.spent
                     THEN @ \cup {call[l].factor} ELSE @]
    /\ Go(l, "token")
    /\ UNCHANGED <<otp, session, trust, stepUp, minted>>

\* Mutant: the token takes the sessionVersion of the row as it is by now.
MintFreshToken(l) ==
    /\ At(l, "token")
    /\ session' = [session EXCEPT ![call[l].device] =
           IF acct.active
           THEN [sessionVersion |-> acct.sessionVersion, coded |-> call[l].coded,
                 resets |-> call[l].resets]
           ELSE Nowhere]
    /\ stepUp' = [stepUp EXCEPT ![call[l].device] = Nowhere]
    /\ Return(l)
    /\ UNCHANGED <<acct, otp, trust, minted, told>>

\* The jwt callback: the token carries the sessionVersion of the row that was
\* checked, and is refused when the row has moved on.
MintToken(l) ==
    /\ At(l, "token")
    /\ session' = [session EXCEPT ![call[l].device] =
           IF acct.active /\ acct.sessionVersion = call[l].row.sessionVersion
           THEN [sessionVersion |-> acct.sessionVersion, coded |-> call[l].coded,
                 resets |-> call[l].resets]
           ELSE Nowhere]
    /\ stepUp' = [stepUp EXCEPT ![call[l].device] = Nowhere]
    /\ Return(l)
    /\ UNCHANGED <<acct, otp, trust, minted, told>>

\* "mfa-continue": the second half of a Google sign-in, for a pending token
\* whose sessionVersion still holds.
ContinueWithCode(l, d, f) ==
    /\ stepUp[d] # Nowhere
    /\ acct.active /\ acct.mfaEnabled /\ acct.sessionVersion = stepUp[d]
    /\ f.kind \in {"app", "email"}
    /\ FactorStep(acct, f) # "refused"
    /\ Start(l, [pc |-> FactorStep(acct, f), device |-> d, row |-> acct, factor |-> f,
                 coded |-> TRUE, resets |-> told.resets])
    /\ UNCHANGED <<acct, otp, session, trust, stepUp, minted, told>>

\* Mutant: Google alone is enough.
GoogleSignInOutright(l, d) ==
    /\ acct.active
    /\ Start(l, [pc |-> "google token", device |-> d])
    /\ UNCHANGED <<acct, otp, session, trust, stepUp, minted, told>>

\* The signIn callback for a linked Google identity, after the row was read:
\* no second factor, or a trusted device, goes on to a token of the row as
\* the jwt callback finds it; anything else ends in a pending token.
GoogleSignIn(l, d) ==
    /\ acct.active
    /\ IF ~acct.mfaEnabled \/ Trusted(d, acct)
       THEN Start(l, [pc |-> "google token", device |-> d])
            /\ UNCHANGED stepUp
       ELSE /\ stepUp' = [stepUp EXCEPT ![d] = acct.sessionVersion]
            /\ Start(l, [pc |-> IF acct.mfaMethod = "EMAIL" THEN "read cooldown"
                                                           ELSE "done"])
    /\ UNCHANGED <<acct, otp, session, trust, minted, told>>

MintGoogleToken(l) ==
    /\ At(l, "google token")
    /\ session' = [session EXCEPT ![call[l].device] =
           IF acct.active
           THEN [sessionVersion |-> acct.sessionVersion, coded |-> FALSE,
                 resets |-> told.resets]
           ELSE Nowhere]
    /\ Return(l)
    /\ UNCHANGED <<acct, otp, trust, stepUp, minted, told>>

Done(l) ==
    /\ At(l, "done") /\ Return(l)
    /\ UNCHANGED <<acct, otp, session, trust, stepUp, minted, told>>

\* checkMfaRequired and resendSignInCode: the password was right and the
\* account uses emailed codes.
AskForCode(l, d) ==
    /\ acct.active /\ acct.mfaEnabled /\ acct.mfaMethod = "EMAIL"
    /\ ~Trusted(d, acct)
    /\ Start(l, [pc |-> "read cooldown"])
    /\ UNCHANGED <<acct, otp, session, trust, stepUp, minted, told>>

\* issueEmailOtp: no code within a minute of the last; otherwise the row is
\* replaced and the counter starts again.
ReadCooldown(l) ==
    /\ At(l, "read cooldown")
    /\ IF otp # Nowhere /\ otp.recent THEN Return(l) ELSE Go(l, "issue code")
    /\ UNCHANGED <<acct, otp, session, trust, stepUp, minted, told>>

IssueCode(l) ==
    /\ At(l, "issue code")
    /\ minted' = [minted EXCEPT !.codes = @ + 1]
    /\ otp' = [id |-> minted'.codes, attempts |-> 0, expired |-> FALSE, recent |-> TRUE]
    /\ told' = [told EXCEPT !.guesses = 0]
    /\ Return(l)
    /\ UNCHANGED <<acct, session, trust, stepUp>>

\* Mutant: the login form asks to be remembered after any sign-in.
RememberAnySession(l, d) ==
    /\ Working(d)
    /\ Start(l, [pc |-> "trust", device |-> d])
    /\ UNCHANGED <<acct, otp, session, trust, stepUp, minted, told>>

\* rememberThisDevice, called by the login form after a sign-in with a code:
\* the session is checked, then the row is read, then the cookie is set.
Remember(l, d) ==
    /\ Working(d) /\ session[d].coded
    /\ Start(l, [pc |-> "trust", device |-> d])
    /\ UNCHANGED <<acct, otp, session, trust, stepUp, minted, told>>

SetTrustCookie(l) ==
    /\ At(l, "trust")
    /\ trust' = IF acct.mfaEnabled
                THEN [trust EXCEPT ![call[l].device] =
                          [sessionVersion |-> acct.sessionVersion,
                           fingerprint |-> acct.mfaSecret]]
                ELSE trust
    /\ Return(l)
    /\ UNCHANGED <<acct, otp, session, stepUp, minted, told>>

---------------------------------------------------------------------------
(* Enrolling and removing a second factor                                  *)

\* A signed-in call that reads the row and then writes it.
Ask(l, d, pc) ==
    /\ Working(d)
    /\ Start(l, [pc |-> pc, device |-> d])
    /\ UNCHANGED <<acct, otp, session, trust, stepUp, minted, told>>

\* Mutant: an enrolled factor does not refuse a new enrolment.
BeginMfaSetupAgain(l, d) == Ask(l, d, "store secret")

BeginMfaSetup(l, d) == ~acct.mfaEnabled /\ Ask(l, d, "store secret")

StoreSecret(l) ==
    /\ At(l, "store secret")
    /\ minted' = [minted EXCEPT !.secrets = @ + 1]
    /\ acct' = [acct EXCEPT !.mfaSecret = minted'.secrets]
    /\ Return(l)
    /\ UNCHANGED <<otp, session, trust, stepUp, told>>

\* confirmMfaSetup: the code typed is of the secret that was read.
ConfirmMfaSetup(l, d) ==
    /\ Working(d)
    /\ acct.mfaSecret # 0
    /\ Start(l, [pc |-> "enable app", device |-> d])
    /\ told' = [told EXCEPT !.proven = @ \cup {acct.mfaSecret}]
    /\ UNCHANGED <<acct, otp, session, trust, stepUp, minted>>

EnableApp(l) ==
    /\ At(l, "enable app")
    /\ minted' = [minted EXCEPT !.sets = @ + 1]
    /\ acct' = [acct EXCEPT !.mfaEnabled = TRUE, !.mfaMethod = "TOTP",
                            !.mfaRecoveryCodes = {minted'.sets} \X RecoverySlots]
    /\ Return(l)
    /\ UNCHANGED <<otp, session, trust, stepUp, told>>

RegenerateRecoveryCodes(l, d) == acct.mfaEnabled /\ Ask(l, d, "new codes")

\* Mutant: the new codes join those that are left.
StoreMoreCodes(l) ==
    /\ At(l, "new codes")
    /\ minted' = [minted EXCEPT !.sets = @ + 1]
    /\ acct' = [acct EXCEPT !.mfaRecoveryCodes = @ \cup ({minted'.sets} \X RecoverySlots)]
    /\ Return(l)
    /\ UNCHANGED <<otp, session, trust, stepUp, told>>

StoreNewCodes(l) ==
    /\ At(l, "new codes")
    /\ minted' = [minted EXCEPT !.sets = @ + 1]
    /\ acct' = [acct EXCEPT !.mfaRecoveryCodes = {minted'.sets} \X RecoverySlots]
    /\ Return(l)
    /\ UNCHANGED <<otp, session, trust, stepUp, told>>

DisableMfa(l, d) == Ask(l, d, "disable")

RemoveFactor(l) ==
    /\ At(l, "disable")
    /\ acct' = [acct EXCEPT !.mfaEnabled = FALSE, !.mfaMethod = "none",
                            !.mfaSecret = 0, !.mfaRecoveryCodes = {}]
    /\ Return(l)
    /\ UNCHANGED <<otp, session, trust, stepUp, minted, told>>

EnableEmailOtp(l, d) ==
    /\ ~(acct.mfaEnabled /\ acct.mfaMethod = "TOTP")
    /\ Ask(l, d, "enable email")

SwitchToEmail(l) ==
    /\ At(l, "enable email")
    /\ acct' = [acct EXCEPT !.mfaEnabled = TRUE, !.mfaMethod = "EMAIL",
                            !.sessionVersion = @ + 1]
    /\ Return(l)
    /\ UNCHANGED <<otp, session, trust, stepUp, minted, told>>

\* disableEmailOtp: the row, then the outstanding code.
DisableEmailOtp(l, d) ==
    /\ acct.mfaEnabled /\ acct.mfaMethod = "EMAIL"
    /\ Ask(l, d, "disable email")

SwitchOffEmail(l) ==
    /\ At(l, "disable email")
    /\ acct' = [acct EXCEPT !.mfaEnabled = FALSE, !.mfaMethod = "none",
                            !.sessionVersion = @ + 1]
    /\ Go(l, "clear code")
    /\ UNCHANGED <<otp, session, trust, stepUp, minted, told>>

ClearCode(l) ==
    /\ At(l, "clear code")
    /\ otp' = Nowhere
    /\ Return(l)
    /\ UNCHANGED <<acct, session, trust, stepUp, minted, told>>

---------------------------------------------------------------------------
(* What ends sessions, and the passing of time                             *)

\* resetPassword, once its link was consumed: one updateMany.
ResetPassword(l) ==
    /\ Start(l, [pc |-> "done"])
    /\ acct' = [acct EXCEPT !.failedLoginCount = 0, !.locked = FALSE,
                            !.sessionVersion = @ + 1]
    /\ told' = [told EXCEPT !.streak = 0, !.resets = @ + 1]
    /\ UNCHANGED <<otp, session, trust, stepUp, minted>>

\* resetUserMfa: another administrator clears a lost second factor.
ResetUserMfa(l) ==
    /\ acct.mfaEnabled
    /\ Start(l, [pc |-> "clear factor"])
    /\ UNCHANGED <<acct, otp, session, trust, stepUp, minted, told>>

\* Mutant: the versions start again with the factor.
ClearFactorAndVersion(l) ==
    /\ At(l, "clear factor")
    /\ acct' = [acct EXCEPT !.mfaEnabled = FALSE, !.mfaSecret = 0,
                            !.mfaRecoveryCodes = {}, !.sessionVersion = 0]
    /\ Return(l)
    /\ UNCHANGED <<otp, session, trust, stepUp, minted, told>>

\* mfaMethod is left as it was.
ClearFactor(l) ==
    /\ At(l, "clear factor")
    /\ acct' = [acct EXCEPT !.mfaEnabled = FALSE, !.mfaSecret = 0,
                            !.mfaRecoveryCodes = {}, !.sessionVersion = @ + 1]
    /\ Return(l)
    /\ UNCHANGED <<otp, session, trust, stepUp, minted, told>>

\* signOutEverywhere: revokeAllSessions, then the cookies of this browser.
SignOutEverywhere(l, d) ==
    /\ Working(d)
    /\ Start(l, [pc |-> "done"])
    /\ acct' = [acct EXCEPT !.sessionVersion = @ + 1]
    /\ trust' = [trust EXCEPT ![d] = Nowhere]
    /\ session' = [session EXCEPT ![d] = Nowhere]
    /\ UNCHANGED <<otp, stepUp, minted, told>>

\* forgetThisDevice, and changePassword, which drops the cookie and keeps the
\* sessions.
ForgetDevice(l, d) ==
    /\ Working(d) /\ trust[d] # Nowhere
    /\ Start(l, [pc |-> "done"])
    /\ trust' = [trust EXCEPT ![d] = Nowhere]
    /\ UNCHANGED <<acct, otp, session, stepUp, minted, told>>

\* setUserStatus: a suspension bumps sessionVersion.
SetActive(l, active) ==
    /\ acct.active # active
    /\ Start(l, [pc |-> "done"])
    /\ acct' = [acct EXCEPT !.active = active, !.sessionVersion = @ + 1]
    /\ UNCHANGED <<otp, session, trust, stepUp, minted, told>>

LockExpires ==
    /\ acct.locked
    /\ acct' = [acct EXCEPT !.locked = FALSE]
    /\ UNCHANGED <<otp, session, trust, stepUp, call, lanes, calls, minted, told>>

\* A minute, and then ten, after a code was issued.
CodeAges ==
    /\ otp # Nowhere /\ ~otp.expired
    /\ otp' = IF otp.recent THEN [otp EXCEPT !.recent = FALSE]
                            ELSE [otp EXCEPT !.expired = TRUE]
    /\ UNCHANGED <<acct, session, trust, stepUp, call, lanes, calls, minted, told>>

BeginCall(l) ==
    \/ WrongPassword(l)
    \/ \E d \in Device, f \in Factors : RightPassword(l, d, f) \/ ContinueWithCode(l, d, f)
    \/ \E d \in Device :
          \/ GoogleSignIn(l, d) \/ AskForCode(l, d) \/ Remember(l, d)
          \/ BeginMfaSetup(l, d) \/ ConfirmMfaSetup(l, d)
          \/ RegenerateRecoveryCodes(l, d) \/ DisableMfa(l, d)
          \/ EnableEmailOtp(l, d) \/ DisableEmailOtp(l, d)
          \/ SignOutEverywhere(l, d) \/ ForgetDevice(l, d)
    \/ ResetPassword(l) \/ ResetUserMfa(l)
    \/ \E active \in BOOLEAN : SetActive(l, active)

CallStep(l) ==
    \/ CountFailure(l) \/ ReadCode(l) \/ SettleCode(l) \/ BurnRecoveryCode(l)
    \/ Succeed(l) \/ MintToken(l) \/ MintGoogleToken(l) \/ Done(l)
    \/ ReadCooldown(l) \/ IssueCode(l) \/ SetTrustCookie(l)
    \/ StoreSecret(l) \/ EnableApp(l) \/ StoreNewCodes(l) \/ RemoveFactor(l)
    \/ SwitchToEmail(l) \/ SwitchOffEmail(l) \/ ClearCode(l) \/ ClearFactor(l)

SignInNext ==
    \/ \E l \in Lane : BeginCall(l) \/ CallStep(l)
    \/ LockExpires
    \/ CodeAges

SignInSpec == SignInInit /\ [][SignInNext]_signInVars

---------------------------------------------------------------------------

\* Every row, cookie and session has the shape of its table, and a session
\* or a cookie never carries a sessionVersion the account has not had.
SignInTypeOK ==
    /\ acct \in AccountRow
    /\ otp = Nowhere \/ otp \in OtpRow
    /\ \A d \in Device :
          /\ session[d] # Nowhere =>
                session[d] \in Token /\ session[d].sessionVersion <= acct.sessionVersion
          /\ trust[d] # Nowhere =>
                trust[d] \in TrustCookie /\ trust[d].sessionVersion <= acct.sessionVersion
          /\ stepUp[d] = Nowhere \/ stepUp[d] \in 0..acct.sessionVersion
    /\ lanes \in 1..Cardinality(Lane) /\ calls \in 0..CallBound[lanes]

Alone == lanes = 1

\* "A password reset is exactly the moment to assume every existing session
\* might be attacker-held" (reset-password/actions.ts): no session works whose
\* password was checked before the last reset, however the reset and the
\* sign-in overlapped.
SessionsDieWithReset ==
    \A d \in Device : Working(d) => session[d].resets = told.resets

\* Nobody is locked out who has not failed MAX_ATTEMPTS_BEFORE_LOCK times,
\* whatever overlapping attempts write over one another.
NobodyIsLockedForNothing == acct.locked => told.wrong >= MAX_ATTEMPTS_BEFORE_LOCK

\* "Exponential backoff after repeated failed logins" (lib/auth/lockout.ts):
\* with attempts one after the other every failure since the last success
\* counts, and a streak of them locks.
FailuresAreCounted ==
    Alone /\ (\A l \in Lane : call[l] = NoCall) => acct.failedLoginCount = told.streak

\* "Remove any one and it is brute-forceable" (lib/auth/emailOtp.ts): no code
\* survives MAX_ATTEMPTS wrong guesses.
GuessesAreCapped ==
    Alone /\ otp # Nowhere /\ (\A l \in Lane : call[l] = NoCall)
        => told.guesses < MAX_ATTEMPTS

\* "So a code can never be used twice" (lib/auth/emailOtp.ts), "consumed on
\* success, never replayable" (lib/auth/config.ts).
OneUse == \A f \in told.twice : f.kind \notin {"email", "recovery"}

\* ... which holds when nothing overlaps.
OneUseAlone == Alone => OneUse

\* "The old codes stop working at once" (dashboard/mfa/actions.ts): only the
\* set that was shown last is stored.
OnlyTheLastSetWorks ==
    Alone => \A c \in acct.mfaRecoveryCodes : c[1] = minted.sets

\* An authenticator in force is one whose code was typed back: abandoning or
\* repeating the enrolment never leaves the account with a secret nobody has.
EnrolledAppIsProven ==
    Alone /\ acct.mfaEnabled /\ acct.mfaMethod = "TOTP"
        => acct.mfaSecret \in told.proven \ {0}

\* A device is trusted only if it presented a code since sessions were last
\* revoked: "log out everywhere ... revoke[s] every trusted device"
\* (lib/auth/trustedDevice.ts).
TrustedDeviceShowedACode ==
    Alone => \A d \in Device : Trusted(d, acct) => <<d, acct.sessionVersion>> \in told.shown

\* An account with a second factor is never entered without it, except from a
\* trusted device - "Sign in with Google can never be a way around".
FactorIsAsked ==
    [][\A d \in Device :
          Alone /\ acct.mfaEnabled /\ session'[d] # session[d] /\ session'[d] # Nowhere
              => session'[d].coded \/ Trusted(d, acct)]_signInVars
=============================================================================
