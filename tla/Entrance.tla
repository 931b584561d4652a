------------------------------ MODULE Entrance ------------------------------
(***************************************************************************)
(* The login page in the browser: the password form with its code step,    *)
(* and the code form a Google sign-in leads to.  One press of the button   *)
(* is several calls - what the account asks for, the sign-in, remembering  *)
(* the device, reading the session - and the person may turn to another    *)
(* account, change the tick or press again while they run.  What the       *)
(* server makes of each call is SignIn's; here it answers anything that    *)
(* what it was sent allows.                                                *)
(***************************************************************************)
EXTENDS Naturals, FiniteSets

CONSTANT PressBound     \* times the person presses the button

ASSUME EntranceAssumption == PressBound \in Nat

VARIABLES
    face,           \* the form on the page: of a password, of Google's code, or left
    asking,         \* the account whose code is asked for, or "nobody"
    busy,           \* the button is disabled
    notice,         \* the message above it
    tick,           \* "don't ask again on this device"
    press,          \* presses under way
    signedIn,       \* the account of the session cookie, or "nobody"
    remembered,     \* the account of the trust cookie, or "nobody"
    leaving,        \* where the page has been told to go, or "nowhere"
    from,           \* the address has a path to go back to
    presses,        \* history: presses so far
    entered,        \* history: a press was accepted
    ticked,         \* history: accounts whose code was accepted with the tick on
    mixed,          \* history: a sign-in overlapped another, or another tab's
    lost            \* history: a call of the password form was lost

entranceVars == <<face, asking, busy, notice, tick, press, signedIn, remembered, leaving,
                  from, presses, entered, ticked, mixed, lost>>

\* Accounts by their second factor: none, an app (of an editor), or a mail.
Known == {"plain", "app", "mail"}
HasFactor(w) == w \in {"app", "mail"}
HomeOf(w) == IF w = "app" THEN "/dashboard" ELSE "/"

\* The two code forms: a rendering of LoginForm, or StepUpForm for a valid token.
EntranceInit ==
    /\ \/ face = "login" /\ asking = "nobody"
       \/ face = "google" /\ asking \in {"app", "mail"}
    /\ busy = FALSE /\ notice = "none" /\ tick = TRUE /\ press = {} /\ leaving = "nowhere"
    /\ signedIn = "nobody" /\ remembered = "nobody" /\ from \in BOOLEAN
    /\ presses = 0 /\ entered = FALSE /\ ticked = {} /\ mixed = FALSE /\ lost = FALSE

---------------------------------------------------------------------------
\* Which form is drawn: the password's, or the one for a code.
PasswordForm == face = "login" /\ asking = "nobody"
CodeForm == face # "gone" /\ asking # "nobody"

Press(at, w, right, code) ==
    /\ ~busy /\ presses < PressBound
    /\ press' = press \cup {[at |-> at, who |-> w, right |-> right, code |-> code, tick |-> tick, by |-> face]}
    /\ presses' = presses + 1 /\ busy' = TRUE /\ notice' = "none"
    /\ UNCHANGED <<face, asking, tick, signedIn, remembered, leaving, from, entered, ticked, mixed, lost>>

\* onSubmitCredentials, and its first call.
SubmitCredentials(w, right) == PasswordForm /\ Press("check", w, right, "none")

\* onSubmitTotp, and onSubmit of the form after Google.
SubmitCode(code) == CodeForm /\ Press("sign", asking, TRUE, code)

Heard(p) == p.by = face         \* the form that made the call is still there

\* A press ends, with a message or without, and its form's button is freed.
End(p, n) ==
    /\ press' = press \ {p}
    /\ busy' = (busy /\ ~Heard(p)) /\ notice' = (IF Heard(p) /\ n # "none" THEN n ELSE notice)

\* Mutant: the early return of a locked account keeps the button.
LockedAndWaiting(p) ==
    /\ p.at = "check" /\ p.right
    /\ press' = press \ {p} /\ notice' = "locked"
    /\ UNCHANGED <<face, asking, busy, tick, signedIn, remembered, leaving, from, presses, entered, ticked, mixed, lost>>

\* checkMfaRequired knows the password: the account is locked,
AnswerLocked(p) ==
    /\ p.at = "check" /\ p.right /\ End(p, "locked")
    /\ UNCHANGED <<face, asking, tick, signedIn, remembered, leaving, from, presses, entered, ticked, mixed, lost>>

\* or a code is needed.
AnswerCode(p) ==
    /\ p.at = "check" /\ p.right /\ HasFactor(p.who) /\ remembered # p.who
    /\ asking' = p.who /\ End(p, "none")
    /\ UNCHANGED <<face, tick, signedIn, remembered, leaving, from, presses, entered, ticked, mixed, lost>>

\* No code, or nothing said: a wrong password, too many calls, a suspension.
AnswerProceed(p) ==
    /\ p.at = "check" /\ press' = (press \ {p}) \cup {[p EXCEPT !.at = "sign"]}
    /\ UNCHANGED <<face, asking, busy, notice, tick, signedIn, remembered, leaving, from, presses, entered, ticked, mixed, lost>>

\* Mutant: the tick counts as it is when the answer comes.
AcceptedByTheTick(p) ==
    /\ p.at = "sign" /\ p.right
    /\ ~HasFactor(p.who) \/ p.code = "right" \/ (p.by = "login" /\ remembered = p.who)
    /\ signedIn' = p.who /\ entered' = TRUE
    /\ press' = (press \ {p}) \cup {[p EXCEPT !.at = IF p.code # "none" /\ tick THEN "remember" ELSE "read"]}
    /\ busy' = (busy /\ (p.by = "login" \/ ~Heard(p)))
    /\ ticked' = IF p.code # "none" /\ p.tick THEN ticked \cup {p.who} ELSE ticked
    /\ mixed' = (mixed \/ \E q \in press : q.at \in {"remember", "read"} /\ q.who # p.who)
    /\ UNCHANGED <<face, asking, notice, tick, remembered, leaving, from, presses, lost>>

\* The sign-in is accepted.  The form after Google frees its button here.
Accepted(p) ==
    /\ p.at = "sign" /\ p.right
    /\ ~HasFactor(p.who) \/ p.code = "right" \/ (p.by = "login" /\ remembered = p.who)
    /\ signedIn' = p.who /\ entered' = TRUE
    /\ press' = (press \ {p}) \cup {[p EXCEPT !.at = IF p.code # "none" /\ p.tick THEN "remember" ELSE "read"]}
    /\ busy' = (busy /\ (p.by = "login" \/ ~Heard(p)))
    /\ ticked' = IF p.code # "none" /\ p.tick THEN ticked \cup {p.who} ELSE ticked
    /\ mixed' = (mixed \/ \E q \in press : q.at \in {"remember", "read"} /\ q.who # p.who)
    /\ UNCHANGED <<face, asking, notice, tick, remembered, leaving, from, presses, lost>>

\* It is refused: wrong, locked by now, used already.
Refused(p) ==
    /\ p.at = "sign" /\ End(p, IF p.code # "none" THEN "code" ELSE "credentials")
    /\ UNCHANGED <<face, asking, tick, signedIn, remembered, leaving, from, presses, entered, ticked, mixed, lost>>

\* The check or the sign-in never comes back: nothing frees the button.
CallLost(p) ==
    /\ p.at \in {"check", "sign"} /\ press' = press \ {p} /\ lost' = (lost \/ p.by = "login")
    /\ UNCHANGED <<face, asking, busy, notice, tick, signedIn, remembered, leaving, from, presses, entered, ticked, mixed>>

\* Mutant: a failure to remember the device ends the press.
RememberOrFail(p) ==
    /\ p.at = "remember" /\ End(p, "none")
    /\ UNCHANGED <<face, asking, tick, signedIn, remembered, leaving, from, presses, entered, ticked, mixed, lost>>

\* rememberThisDevice works for the session the browser has by then, if that
\* account has a factor; a failure of it is swallowed.
RememberDevice(p) ==
    /\ p.at = "remember" /\ press' = (press \ {p}) \cup {[p EXCEPT !.at = "read"]}
    /\ remembered' \in {remembered, IF HasFactor(signedIn) THEN signedIn ELSE remembered}
    /\ UNCHANGED <<face, asking, busy, notice, tick, signedIn, leaving, from, presses, entered, ticked, mixed, lost>>

\* The session is read, or can't be, which reads as nobody's; the page is told
\* to go where the address says or to the home of that account.
ReadSession(p) ==
    /\ p.at = "read" /\ End(p, "none")
    /\ \E read \in {signedIn, "nobody"} :
           leaving' = IF from /\ p.by = "login" THEN "from" ELSE HomeOf(read)
    /\ UNCHANGED <<face, asking, tick, signedIn, remembered, from, presses, entered, ticked, mixed, lost>>

\* Mutant: turning to another account frees the button.
TurnAndFree ==
    /\ face = "login" /\ asking # "nobody" /\ asking' = "nobody" /\ busy' = FALSE
    /\ UNCHANGED <<face, notice, tick, press, signedIn, remembered, leaving, from, presses, entered, ticked, mixed, lost>>

\* "Use a different account": back to the password, with the message and the
\* press that is under way; after Google, to a login form that knows nothing.
UseDifferentAccount ==
    /\ CodeForm /\ asking' = "nobody" /\ face' = "login"
    /\ IF face = "login" THEN UNCHANGED <<busy, notice, tick>>
       ELSE busy' = FALSE /\ notice' = "none" /\ tick' = TRUE
    /\ from' = (from /\ face = "login")
    /\ UNCHANGED <<press, signedIn, remembered, leaving, presses, entered, ticked, mixed, lost>>

\* onResend clears the message; its own answer has a line to itself.
Resend ==
    /\ face = "login" /\ asking = "mail" /\ ~busy /\ notice' = "none"
    /\ UNCHANGED <<face, asking, busy, tick, press, signedIn, remembered, leaving, from, presses, entered, ticked, mixed, lost>>

TickOrUntick ==
    /\ CodeForm /\ tick' = ~tick
    /\ UNCHANGED <<face, asking, busy, notice, press, signedIn, remembered, leaving, from, presses, entered, ticked, mixed, lost>>

\* Somebody signs in or out in another tab of the same browser.
OtherTab ==
    /\ signedIn' \in Known \cup {"nobody"} /\ mixed' = TRUE
    /\ UNCHANGED <<face, asking, busy, notice, tick, press, remembered, leaving, from, presses, entered, ticked, lost>>

\* The full navigation: what still runs is dropped with the page.
PageLeft ==
    /\ face # "gone" /\ leaving # "nowhere" /\ face' = "gone" /\ press' = {}
    /\ UNCHANGED <<asking, busy, notice, tick, signedIn, remembered, leaving, from, presses, entered, ticked, mixed, lost>>

EntranceNext ==
    \/ \E w \in Known, right \in BOOLEAN : SubmitCredentials(w, right)
    \/ \E code \in {"right", "wrong"} : SubmitCode(code)
    \/ \E p \in press : \/ AnswerLocked(p) \/ AnswerCode(p) \/ AnswerProceed(p) \/ Accepted(p) \/ Refused(p)
                        \/ CallLost(p) \/ RememberDevice(p) \/ ReadSession(p)
    \/ UseDifferentAccount \/ Resend \/ TickOrUntick \/ OtherTab \/ PageLeft

EntranceSpec == EntranceInit /\ [][EntranceNext]_entranceVars

---------------------------------------------------------------------------
EntranceTypeOK ==
    /\ face \in {"login", "google", "gone"} /\ {asking, signedIn, remembered} \subseteq Known \cup {"nobody"}
    /\ {busy, tick, from, entered, mixed, lost} \subseteq BOOLEAN /\ ticked \subseteq Known
    /\ notice \in {"none", "locked", "code", "credentials"} /\ presses \in 0..PressBound
    /\ leaving \in {"nowhere", "/", "/dashboard", "from"}
    /\ \A p \in press : p.at \in {"check", "sign", "remember", "read"} /\ p.who \in Known

\* A browser that has signed in goes on to a page, whatever fails after it:
\* remembering the device, reading the session, or a second press.
SignedInGoesOn == entered => press # {} \/ leaving # "nowhere"

\* A device is remembered for an account whose owner left the tick on when
\* pressing the button, unless two sign-ins of one browser run into each other.
TickIsObeyed == ~mixed => remembered \in ticked \cup {"nobody"}

\* The password form has one press under way, whichever account it turns to
\* meanwhile, and its button waits for nothing else but a call that was lost.
OneSignInAtATime ==
    LET own == {p \in press : p.by = "login"} IN
    face = "login" => Cardinality(own) <= 1 /\ (busy <=> own # {} \/ lost)

EntranceHolds == SignedInGoesOn /\ TickIsObeyed /\ OneSignInAtATime
=============================================================================
