-------------------------- MODULE Identity_proofs --------------------------
(***************************************************************************)
(* Proofs about Identity: its seven parts run one at a time, so each       *)
(* behaviour of the whole is a behaviour of every part, and what is proved *)
(* of a part holds of the whole.  Signing in, links by mail and Google     *)
(* have modules of proofs of their own; the gate, the login page, the      *)
(* phone number and the account page's contact section are proved about    *)
(* here, for any number of accounts, requests and presses.                 *)
(***************************************************************************)
EXTENDS Identity, SignIn_proofs, Links_proofs

LEMMA AtMostOne ==
    ASSUME NEW S, \A a, b \in S : a = b
    PROVE  Cardinality(S) <= 1
<1>1. CASE S = {}
  BY <1>1, FS_EmptySet
<1>2. ASSUME NEW a, S = {a}
      PROVE  Cardinality(S) <= 1
  <2>1. Cardinality({a}) = 1
    BY FS_Singleton
  <2>2. QED
    BY <1>2, <2>1
<1>3. S = {} \/ \E a : S = {a}
  OBVIOUS
<1>4. QED
  BY <1>1, <1>2, <1>3

---------------------------------------------------------------------------
(* The gate                                                                *)

\* A page one was sent to is served, and putting right what was missing does
\* not take it back.
GateInv ==
    /\ visitor \in Visitor /\ page \in Page /\ hops \in 0..1
    /\ hops = 1 => Served

\* Where one is sent, one is served, by the order of the rules.
LEMMA RedirectedIsServed ==
    ASSUME NEW v \in Visitor, NEW p \in Page, Redirect(v, p) # Serve
    PROVE  Redirect(v, p) \in Page /\ Redirect(v, Redirect(v, p)) = Serve
<1> USE DEF Page, StaffPages, AdminPages, OpenWhileChanging, Serve
<1>1. Redirect(v, p) \in {"/account/password", "/login", "/", "/dashboard/mfa", "/dashboard"}
  BY DEF Redirect
<1>2. CASE Redirect(v, p) \in {"/account/password", "/login"}
  BY <1>2 DEF Redirect
<1>3. CASE Redirect(v, p) = "/"
  BY <1>3 DEF Redirect
<1>4. CASE Redirect(v, p) \in {"/dashboard/mfa", "/dashboard"}
  BY <1>4 DEF Redirect
<1>5. QED
  BY <1>1, <1>2, <1>3, <1>4

LEMMA GateStep == GateInv /\ [GateNext]_gateVars => GateInv'
<1> SUFFICES ASSUME GateInv, [GateNext]_gateVars
             PROVE  GateInv'
  OBVIOUS
<1>1. visitor \in Visitor /\ page \in Page /\ hops \in 0..1 /\ (hops = 1 => Served)
  BY DEF GateInv
<1>2. CASE FollowRedirect
  <2>1. hops = 0 /\ hops' = 1 /\ visitor' = visitor /\ page' = Redirect(visitor, page)
    BY <1>1, <1>2 DEF FollowRedirect
  <2>2. page' \in Page /\ Redirect(visitor, page') = Serve
    BY <1>1, <1>2, <2>1, RedirectedIsServed DEF FollowRedirect, Served
  <2>3. QED
    BY <1>1, <2>1, <2>2 DEF GateInv, Served
<1>3. CASE Navigate
  BY <1>1, <1>3 DEF Navigate, GateInv
<1>4. CASE PutRight
  <2>1. UNCHANGED <<page, hops>> /\ page \in {"/account/password", "/dashboard/mfa"}
    BY <1>4 DEF PutRight
  <2>2. visitor' \in Visitor
    <3>1. CASE visitor' = [visitor EXCEPT !.mustChangePassword = FALSE]
      BY <1>1, <3>1 DEF Visitor
    <3>2. CASE visitor' = [visitor EXCEPT !.mfaEnabled = TRUE, !.mfaUsesApp = TRUE]
      BY <1>1, <3>2 DEF Visitor
    <3>3. QED
      BY <1>4, <3>1, <3>2 DEF PutRight
  <2>3. Served'
    <3>1. CASE page = "/account/password"
      BY <2>1, <3>1 DEF Served, Redirect, StaffPages, AdminPages, OpenWhileChanging
    <3>2. CASE page = "/dashboard/mfa"
      <4>1. visitor' = [visitor EXCEPT !.mfaEnabled = TRUE, !.mfaUsesApp = TRUE] /\ Served
        BY <1>4, <3>2 DEF PutRight
      <4>2. /\ visitor'.signedIn = visitor.signedIn /\ visitor'.role = visitor.role
            /\ visitor'.mustChangePassword = visitor.mustChangePassword
        BY <1>1, <4>1 DEF Visitor
      <4>3. visitor.signedIn /\ ~visitor.mustChangePassword /\ Staff(visitor)
        BY <1>4, <3>2, <4>1 DEF PutRight, Served, Redirect, Serve, StaffPages, AdminPages, OpenWhileChanging
      <4>4. QED
        BY <2>1, <3>2, <4>2, <4>3 DEF Served, Redirect, Staff, AdminPages, OpenWhileChanging
    <3>3. QED
      BY <2>1, <3>1, <3>2
  <2>4. QED
    BY <1>1, <2>1, <2>2, <2>3 DEF GateInv
<1>5. CASE UNCHANGED gateVars
  BY <1>1, <1>5 DEF gateVars, GateInv, Served
<1>6. QED
  BY <1>2, <1>3, <1>4, <1>5 DEF GateNext

\* Whatever is missing, proxy.ts sends a navigation on once at most.
THEOREM NoCircles == GateSpec => []RedirectsEnd
<1>1. GateInit => GateInv
  BY DEF GateInit, GateInv
<1>2. GateInv => RedirectsEnd
  BY DEF GateInv, RedirectsEnd
<1>3. QED
  BY <1>1, <1>2, GateStep, PTL DEF GateSpec

\* What proxy.ts serves below /dashboard it serves to staff who chose their
\* password and enrolled what their role asks for, in any order of its rules.
THEOREM OnlyStaffPass == GateSpec => []DashboardIsGuarded
<1>1. GateInit => GateInv
  BY DEF GateInit, GateInv
<1>2. GateInv => DashboardIsGuarded
  <2> SUFFICES ASSUME GateInv, Served, page \in StaffPages
               PROVE  /\ visitor.signedIn /\ Staff(visitor) /\ ~visitor.mustChangePassword
                      /\ page # "/dashboard/mfa" => ~LacksFactor(visitor)
                      /\ page \in AdminPages => visitor.role = "ADMIN"
    BY DEF DashboardIsGuarded, LacksFactor, Staff, STAFF_ROLES
  <2>1. page \notin OpenWhileChanging
    BY DEF StaffPages, AdminPages, OpenWhileChanging
  <2>2. QED
    BY <2>1 DEF Served, Redirect, Serve
<1>3. QED
  BY <1>1, <1>2, GateStep, PTL DEF GateSpec

---------------------------------------------------------------------------
(* The login page                                                          *)

PressStep == {"check", "sign", "remember", "read"}
PressRow == [at : PressStep, who : Known, right : BOOLEAN, code : {"none", "right", "wrong"},
             tick : BOOLEAN, by : {"login", "google"}]
OwnPresses == {p \in press : p.by = "login"}

\* The password form has at most one press under way and waits for it or for
\* a call that was lost; the form after Google comes before it.
OwnPressIsOne ==
    /\ face = "google" => OwnPresses = {} /\ ~lost
    /\ face = "login" =>
           /\ \A p, q \in OwnPresses : p = q
           /\ busy <=> OwnPresses # {} \/ lost
           /\ lost => OwnPresses = {}

\* A press that was accepted is of the account signed in, unless another one
\* overlapped, and goes on until the page is told where to go.
PressesGoOn ==
    /\ entered => leaving # "nowhere" \/ \E p \in press : p.at \in {"remember", "read"}
    /\ \A p \in press : p.at = "remember" => p.who \in ticked
    /\ ~mixed => \A p \in press : p.at \in {"remember", "read"} => p.who = signedIn
    /\ TickIsObeyed

EntranceInv ==
    /\ EntranceTypeOK /\ press \subseteq PressRow
    /\ OwnPressIsOne /\ PressesGoOn

LEMMA EntranceTypedStep ==
    ASSUME EntranceTypeOK, press \subseteq PressRow, [EntranceNext]_entranceVars
    PROVE  EntranceTypeOK' /\ press' \subseteq PressRow
<1> USE DEF EntranceTypeOK, Known
<1>1. \A p \in press : /\ p.at \in PressStep /\ p.who \in Known /\ p.by \in {"login", "google"}
                       /\ \A at \in PressStep : [p EXCEPT !.at = at] \in PressRow
  BY DEF PressRow
<1>2. ASSUME press' \subseteq PressRow
      PROVE  \A p \in press' : p.at \in {"check", "sign", "remember", "read"} /\ p.who \in Known
  BY <1>2 DEF PressRow, PressStep
<1>3. ASSUME NEW at \in {"check", "sign"}, NEW w \in Known, NEW right \in BOOLEAN,
             NEW code \in {"none", "right", "wrong"}, face # "gone", Press(at, w, right, code)
      PROVE  EntranceTypeOK' /\ press' \subseteq PressRow
  <2> DEFINE new == [at |-> at, who |-> w, right |-> right, code |-> code, tick |-> tick, by |-> face]
  <2>1. new \in PressRow
    BY <1>3 DEF PressRow, PressStep
  <2>2. press' \subseteq PressRow
    BY <1>3, <2>1 DEF Press
  <2>3. presses' \in 0..PressBound
    BY <1>3, EntranceAssumption DEF Press
  <2>4. QED
    BY <1>2, <1>3, <2>2, <2>3 DEF Press
<1>4. CASE \E w \in Known, right \in BOOLEAN : SubmitCredentials(w, right)
  BY <1>3, <1>4 DEF SubmitCredentials, PasswordForm
<1>5. CASE \E code \in {"right", "wrong"} : SubmitCode(code)
  BY <1>3, <1>5 DEF SubmitCode, CodeForm
<1>6. ASSUME NEW p \in press, AnswerLocked(p) \/ AnswerCode(p) \/ Refused(p) \/ CallLost(p) \/ ReadSession(p)
      PROVE  EntranceTypeOK' /\ press' \subseteq PressRow
  <2>1. press' \subseteq PressRow
    BY <1>6 DEF AnswerLocked, AnswerCode, Refused, CallLost, ReadSession, End
  <2>2. QED
    BY <1>1, <1>2, <1>6, <2>1 DEF AnswerLocked, AnswerCode, Refused, CallLost, ReadSession, End, HomeOf
<1>7. ASSUME NEW p \in press, AnswerProceed(p) \/ Accepted(p) \/ RememberDevice(p)
      PROVE  EntranceTypeOK' /\ press' \subseteq PressRow
  <2>1. press' \subseteq PressRow
    BY <1>1, <1>7 DEF AnswerProceed, Accepted, RememberDevice, PressStep
  <2>2. QED
    BY <1>1, <1>2, <1>7, <2>1 DEF AnswerProceed, Accepted, RememberDevice
<1>8. CASE UseDifferentAccount \/ Resend \/ TickOrUntick \/ OtherTab \/ PageLeft
  <2>1. press' \subseteq PressRow
    BY <1>8 DEF UseDifferentAccount, Resend, TickOrUntick, OtherTab, PageLeft
  <2>2. QED
    BY <1>2, <1>8, <2>1 DEF UseDifferentAccount, Resend, TickOrUntick, OtherTab, PageLeft
<1>9. CASE UNCHANGED entranceVars
  BY <1>9 DEF entranceVars
<1>10. QED
  BY <1>4, <1>5, <1>6, <1>7, <1>8, <1>9 DEF EntranceNext

\* A step either begins a press, ends one, moves one on, or leaves them alone.
LEMMA OwnPressIsOneStep ==
    ASSUME EntranceInv, [EntranceNext]_entranceVars
    PROVE  OwnPressIsOne'
<1>1. /\ EntranceTypeOK /\ press \subseteq PressRow /\ OwnPressIsOne
      /\ face \in {"login", "google", "gone"} /\ busy \in BOOLEAN /\ lost \in BOOLEAN
  BY DEF EntranceInv, EntranceTypeOK
<1>2. ASSUME NEW at, NEW w, NEW right, NEW code, face # "gone", Press(at, w, right, code)
      PROVE  OwnPressIsOne'
  <2> DEFINE new == [at |-> at, who |-> w, right |-> right, code |-> code, tick |-> tick, by |-> face]
  <2>1. /\ ~busy /\ busy' = TRUE /\ face' = face /\ lost' = lost /\ press' = press \cup {new}
    BY <1>2 DEF Press
  <2>2. new.by = face
    OBVIOUS
  <2> HIDE DEF new
  <2>3. CASE face = "login"
    <3>1. OwnPresses = {} /\ ~lost
      BY <1>1, <2>1, <2>3 DEF OwnPressIsOne
    <3>2. OwnPresses' = {new}
      BY <2>1, <2>2, <2>3, <3>1 DEF OwnPresses
    <3>3. QED
      BY <2>1, <2>3, <3>1, <3>2 DEF OwnPressIsOne
  <2>4. CASE face = "google"
    BY <1>1, <2>1, <2>2, <2>4 DEF OwnPressIsOne, OwnPresses
  <2>5. QED
    BY <1>1, <1>2, <2>3, <2>4
<1>3. ASSUME NEW p \in press, press' = press \ {p}, face' = face, lost' = lost,
             busy' = (busy /\ ~Heard(p))
      PROVE  OwnPressIsOne'
  <2>1. OwnPresses' = OwnPresses \ {p}
    BY <1>3 DEF OwnPresses
  <2>2. p.by = "login" <=> p \in OwnPresses
    BY DEF OwnPresses
  <2>3. QED
    BY <1>1, <1>3, <2>1, <2>2 DEF OwnPressIsOne, Heard
<1>4. ASSUME NEW p \in press, CallLost(p)
      PROVE  OwnPressIsOne'
  <2>1. OwnPresses' = OwnPresses \ {p} /\ face' = face /\ busy' = busy /\ lost' = (lost \/ p.by = "login")
    BY <1>4 DEF CallLost, OwnPresses
  <2>2. p.by = "login" <=> p \in OwnPresses
    BY DEF OwnPresses
  <2>3. QED
    BY <1>1, <2>1, <2>2 DEF OwnPressIsOne
<1>5. ASSUME NEW p \in press, NEW q, q.by = p.by, press' = (press \ {p}) \cup {q}, face' = face, lost' = lost,
             busy' = (busy /\ (p.by = "login" \/ ~Heard(p))) \/ busy' = busy
      PROVE  OwnPressIsOne'
  <2>1. CASE p.by = "login"
    <3>1. OwnPresses' = (OwnPresses \ {p}) \cup {q} /\ p \in OwnPresses
      BY <1>5, <2>1 DEF OwnPresses
    <3>2. busy' = busy
      BY <1>1, <1>5, <2>1
    <3>3. QED
      BY <1>1, <1>5, <3>1, <3>2 DEF OwnPressIsOne
  <2>2. CASE p.by # "login"
    <3>1. OwnPresses' = OwnPresses
      BY <1>5, <2>2 DEF OwnPresses
    <3>2. face = "login" => busy' = busy
      <4>1. p.by = "google"
        BY <1>1, <2>2 DEF PressRow
      <4>2. QED
        BY <1>1, <1>5, <4>1 DEF Heard
    <3>3. QED
      BY <1>1, <1>5, <3>1, <3>2 DEF OwnPressIsOne
  <2>3. QED
    BY <2>1, <2>2
<1>6. \A p \in press, at \in PressStep : [p EXCEPT !.at = at].by = p.by
  BY <1>1 DEF PressRow
<1>7. ASSUME NEW p \in press, AnswerLocked(p) \/ AnswerCode(p) \/ Refused(p) \/ ReadSession(p)
      PROVE  OwnPressIsOne'
  BY <1>3, <1>7 DEF AnswerLocked, AnswerCode, Refused, ReadSession, End
<1>8. ASSUME NEW p \in press, AnswerProceed(p) \/ Accepted(p) \/ RememberDevice(p)
      PROVE  OwnPressIsOne'
  <2>1. PICK at \in PressStep : press' = (press \ {p}) \cup {[p EXCEPT !.at = at]}
    BY <1>8 DEF AnswerProceed, Accepted, RememberDevice, PressStep
  <2>2. PICK q : q = [p EXCEPT !.at = at]
    OBVIOUS
  <2>3. /\ face' = face /\ lost' = lost
        /\ busy' = (busy /\ (p.by = "login" \/ ~Heard(p))) \/ busy' = busy
    BY <1>8 DEF AnswerProceed, Accepted, RememberDevice
  <2>4. QED
    BY <1>5, <1>6, <2>1, <2>2, <2>3
<1>9. CASE UseDifferentAccount
  <2>1. UNCHANGED <<press, lost>> /\ face' = "login" /\ (face = "login" => busy' = busy) /\ (face # "login" => busy' = FALSE)
    BY <1>9 DEF UseDifferentAccount
  <2>2. OwnPresses' = OwnPresses /\ face # "gone"
    BY <1>9, <2>1 DEF OwnPresses, UseDifferentAccount, CodeForm
  <2>3. QED
    BY <1>1, <2>1, <2>2 DEF OwnPressIsOne
<1>10. CASE UNCHANGED <<press, face, busy, lost>>
  BY <1>1, <1>10 DEF OwnPressIsOne, OwnPresses
<1>11. CASE PageLeft
  BY <1>11 DEF PageLeft, OwnPressIsOne
<1>12. CASE \/ \E w \in Known, right \in BOOLEAN : SubmitCredentials(w, right)
            \/ \E code \in {"right", "wrong"} : SubmitCode(code)
  BY <1>2, <1>12 DEF SubmitCredentials, SubmitCode, PasswordForm, CodeForm
<1>13. CASE Resend \/ TickOrUntick \/ OtherTab \/ UNCHANGED entranceVars
  BY <1>10, <1>13 DEF Resend, TickOrUntick, OtherTab, entranceVars
<1>14. QED
  BY <1>4, <1>7, <1>8, <1>9, <1>11, <1>12, <1>13 DEF EntranceNext

LEMMA PressesGoOnStep ==
    ASSUME EntranceInv, [EntranceNext]_entranceVars
    PROVE  PressesGoOn'
<1> DEFINE Going == {"remember", "read"}
<1>1. /\ EntranceTypeOK /\ press \subseteq PressRow /\ PressesGoOn
      /\ entered \in BOOLEAN /\ mixed \in BOOLEAN /\ ticked \subseteq Known
  BY DEF EntranceInv, EntranceTypeOK
<1>2. \A p \in press, at \in PressStep :
          [p EXCEPT !.at = at].at = at /\ [p EXCEPT !.at = at].who = p.who
  BY <1>1 DEF PressRow
<1>3. ASSUME NEW at \in {"check", "sign"}, NEW w, NEW right, NEW code, Press(at, w, right, code)
      PROVE  PressesGoOn'
  <2> DEFINE new == [at |-> at, who |-> w, right |-> right, code |-> code, tick |-> tick, by |-> face]
  <2>1. new.at \notin Going
    OBVIOUS
  <2>2. press' = press \cup {new} /\ UNCHANGED <<signedIn, remembered, leaving, entered, ticked, mixed>>
    BY <1>3 DEF Press
  <2> HIDE DEF new
  <2>3. QED
    BY <1>1, <2>1, <2>2 DEF PressesGoOn, TickIsObeyed
<1>4. ASSUME NEW p \in press, AnswerLocked(p) \/ AnswerCode(p) \/ Refused(p) \/ CallLost(p)
      PROVE  PressesGoOn'
  <2>1. /\ p.at \notin Going /\ press' = press \ {p}
        /\ UNCHANGED <<signedIn, remembered, leaving, entered, ticked, mixed>>
    BY <1>4 DEF AnswerLocked, AnswerCode, Refused, CallLost, End
  <2>2. QED
    BY <1>1, <2>1 DEF PressesGoOn, TickIsObeyed
<1>5. ASSUME NEW p \in press, AnswerProceed(p)
      PROVE  PressesGoOn'
  <2>1. PICK q : q = [p EXCEPT !.at = "sign"] /\ q.at = "sign"
    BY <1>2 DEF PressStep
  <2>2. /\ p.at \notin Going /\ press' = (press \ {p}) \cup {q}
        /\ UNCHANGED <<signedIn, remembered, leaving, entered, ticked, mixed>>
    BY <1>5, <2>1 DEF AnswerProceed
  <2>3. QED
    BY <1>1, <2>1, <2>2 DEF PressesGoOn, TickIsObeyed
<1>6. ASSUME NEW p \in press, Accepted(p)
      PROVE  PressesGoOn'
  <2>1. PICK q : /\ q = [p EXCEPT !.at = IF p.code # "none" /\ p.tick THEN "remember" ELSE "read"]
                 /\ q.at = (IF p.code # "none" /\ p.tick THEN "remember" ELSE "read") /\ q.who = p.who
    BY <1>2 DEF PressStep
  <2>2. /\ p.at \notin Going /\ press' = (press \ {p}) \cup {q}
        /\ UNCHANGED <<remembered, leaving>> /\ entered' = TRUE /\ signedIn' = p.who
        /\ ticked' = (IF p.code # "none" /\ p.tick THEN ticked \cup {p.who} ELSE ticked)
        /\ mixed' = (mixed \/ \E r \in press : r.at \in Going /\ r.who # p.who)
    BY <1>6, <2>1 DEF Accepted
  <2>3. \A r \in press' : r.at = "remember" => r.who \in ticked'
    <3>1. ticked \subseteq ticked'
      BY <2>2
    <3>2. q.at = "remember" => q.who \in ticked'
      BY <2>1, <2>2
    <3>3. QED
      BY <1>1, <2>2, <3>1, <3>2 DEF PressesGoOn
  <2>4. ~mixed' => \A r \in press' : r.at \in Going => r.who = signedIn'
    BY <1>1, <2>1, <2>2 DEF PressesGoOn
  <2>5. \E r \in press' : r.at \in Going
    BY <2>1, <2>2
  <2>6. TickIsObeyed'
    BY <1>1, <2>2 DEF PressesGoOn, TickIsObeyed
  <2>7. QED
    BY <2>3, <2>4, <2>5, <2>6 DEF PressesGoOn
<1>7. ASSUME NEW p \in press, RememberDevice(p)
      PROVE  PressesGoOn'
  <2>1. PICK q : q = [p EXCEPT !.at = "read"] /\ q.at = "read" /\ q.who = p.who
    BY <1>2 DEF PressStep
  <2>2. /\ p.at = "remember" /\ press' = (press \ {p}) \cup {q} /\ remembered' \in {remembered, signedIn}
        /\ UNCHANGED <<signedIn, leaving, entered, ticked, mixed>>
    BY <1>7, <2>1 DEF RememberDevice
  <2>3. ~mixed => signedIn \in ticked
    BY <1>1, <2>2 DEF PressesGoOn
  <2>4. QED
    BY <1>1, <2>1, <2>2, <2>3 DEF PressesGoOn, TickIsObeyed
<1>8. ASSUME NEW p \in press, ReadSession(p)
      PROVE  PressesGoOn'
  <2>1. leaving' # "nowhere" /\ press' \subseteq press /\ UNCHANGED <<signedIn, remembered, entered, ticked, mixed>>
    BY <1>8 DEF ReadSession, End, HomeOf
  <2>2. QED
    BY <1>1, <2>1 DEF PressesGoOn, TickIsObeyed
<1>9. CASE OtherTab
  BY <1>1, <1>9 DEF OtherTab, PressesGoOn, TickIsObeyed
<1>10. CASE PageLeft
  BY <1>1, <1>10 DEF PageLeft, PressesGoOn, TickIsObeyed
<1>11. CASE UNCHANGED <<press, signedIn, remembered, leaving, entered, ticked, mixed>>
  BY <1>1, <1>11 DEF PressesGoOn, TickIsObeyed
<1>12. CASE \/ \E w \in Known, right \in BOOLEAN : SubmitCredentials(w, right)
            \/ \E code \in {"right", "wrong"} : SubmitCode(code)
  BY <1>3, <1>12 DEF SubmitCredentials, SubmitCode
<1>13. CASE UseDifferentAccount \/ Resend \/ TickOrUntick \/ UNCHANGED entranceVars
  BY <1>11, <1>13 DEF UseDifferentAccount, Resend, TickOrUntick, entranceVars
<1>14. QED
  BY <1>4, <1>5, <1>6, <1>7, <1>8, <1>9, <1>10, <1>12, <1>13 DEF EntranceNext

LEMMA EntranceStarts == EntranceInit => EntranceInv
<1> SUFFICES ASSUME EntranceInit
             PROVE  EntranceInv
  OBVIOUS
<1>1. EntranceTypeOK
  <2>1. presses \in 0..PressBound
    BY EntranceAssumption DEF EntranceInit
  <2>2. face \in {"login", "google", "gone"} /\ {asking, signedIn, remembered} \subseteq Known \cup {"nobody"}
    BY DEF EntranceInit, Known
  <2>3. {busy, tick, from, entered, mixed, lost} \subseteq BOOLEAN
    BY DEF EntranceInit
  <2>4. ticked = {} /\ press = {} /\ notice = "none" /\ leaving = "nowhere"
    BY DEF EntranceInit
  <2>5. QED
    BY <2>1, <2>2, <2>3, <2>4 DEF EntranceTypeOK
<1>2. OwnPressIsOne
  BY DEF EntranceInit, OwnPressIsOne, OwnPresses
<1>3. PressesGoOn
  BY DEF EntranceInit, PressesGoOn, TickIsObeyed
<1>4. press = {}
  BY DEF EntranceInit
<1>5. QED
  BY <1>1, <1>2, <1>3, <1>4 DEF EntranceInv

THEOREM EntranceInvariance == EntranceSpec => []EntranceInv
<1>1. EntranceInv /\ [EntranceNext]_entranceVars => EntranceInv'
  <2> SUFFICES ASSUME EntranceInv, [EntranceNext]_entranceVars
               PROVE  EntranceInv'
    OBVIOUS
  <2>1. EntranceTypeOK' /\ press' \subseteq PressRow
    BY EntranceTypedStep DEF EntranceInv
  <2>2. QED
    BY <2>1, OwnPressIsOneStep, PressesGoOnStep DEF EntranceInv
<1>2. QED
  BY <1>1, EntranceStarts, PTL DEF EntranceSpec

\* LoginForm and StepUpForm, whatever the person presses, turns to or ticks
\* while calls run and answers are lost: a browser that has signed in goes on
\* to a page, a device is remembered as the tick said, and one sign-in is
\* under way at a time.
THEOREM EntranceIsSound == EntranceSpec => []EntranceHolds
<1>1. EntranceInv => EntranceHolds
  <2> SUFFICES ASSUME EntranceInv
               PROVE  EntranceHolds
    OBVIOUS
  <2>1. SignedInGoesOn /\ TickIsObeyed
    BY DEF EntranceInv, PressesGoOn, SignedInGoesOn
  <2>2. OneSignInAtATime
    <3> SUFFICES ASSUME face = "login"
                 PROVE  Cardinality(OwnPresses) <= 1 /\ (busy <=> OwnPresses # {} \/ lost)
      BY DEF OneSignInAtATime, OwnPresses
    <3>1. (\A p, q \in OwnPresses : p = q) /\ (busy <=> OwnPresses # {} \/ lost)
      BY DEF EntranceInv, OwnPressIsOne
    <3>2. QED
      BY <3>1, AtMostOne
  <2>3. QED
    BY <2>1, <2>2 DEF EntranceHolds
<1>2. QED
  BY <1>1, EntranceInvariance, PTL

---------------------------------------------------------------------------
(* The contact section of the account page                                 *)

Ask5 == [what : {"email", "resend", "send", "confirm", "remove"}, of : 0..2,
         at : {"asked", "done", "refused"}]

Answered(a, kinds) == a.at = "done" /\ a.what \in kinds

\* What the page shows is what is on file, but while an answer that changes it
\* is on its way; no number is sent off while a code is asked for.
PageFollows ==
    /\ phoneStep = "code" => \/ Unverified(onFile) /\ codeFor = onFile.number
                             \/ \E a \in asks : Answered(a, {"confirm", "remove"})
    /\ mailSent # 0 => mailSent = onFile.mail \/ \E a \in asks : Answered(a, {"email"})
    /\ \A a \in asks :
           /\ a.what = "send" => phoneStep # "code" /\ a.of # 0
           /\ Answered(a, {"send"}) => Unverified(onFile) /\ a.of = onFile.number
           /\ Answered(a, {"email"}) => a.of = onFile.mail

ContactInv ==
    /\ ContactTypeOK /\ asks \subseteq Ask5
    /\ \A a, b \in asks : a = b
    /\ asks # {} => waits
    /\ ~elsewhere => PageFollows

FileRow == [number : 0..2, verified : BOOLEAN, mail : 0..2]

\* The server's answer, when it takes what it is asked.
LEMMA EffectIsARow ==
    ASSUME onFile \in FileRow, NEW a, a.of \in 0..2
    PROVE  Effect(a) \in FileRow
<1>1. [onFile EXCEPT !.mail = a.of] \in FileRow
  BY DEF FileRow
<1>2. [onFile EXCEPT !.number = a.of, !.verified = FALSE] \in FileRow
  BY DEF FileRow
<1>3. [onFile EXCEPT !.verified = TRUE] \in FileRow
  BY DEF FileRow
<1>4. \A n \in 0..2 : [onFile EXCEPT !.number = n, !.verified = FALSE] \in FileRow
  BY DEF FileRow
<1>5. 0 \in 0..2
  OBVIOUS
<1>6. QED
  BY <1>1, <1>2, <1>3, <1>4, <1>5 DEF Effect

\* The shapes, one by one.
PageTyped ==
    /\ onFile \in FileRow /\ rendered \in FileRow /\ phoneStep \in {"idle", "number", "code"}
    /\ codeFor \in 0..2 /\ numberBox \in 0..2 /\ mailBox \in 0..2 /\ mailSent \in 0..2
    /\ mailOpen \in BOOLEAN /\ waits \in BOOLEAN /\ elsewhere \in BOOLEAN /\ askCount \in 0..AskBound

LEMMA PageIsTyped == ContactTypeOK <=> PageTyped
<1>1. {codeFor, numberBox, mailBox, mailSent} \subseteq 0..2 <=>
          codeFor \in 0..2 /\ numberBox \in 0..2 /\ mailBox \in 0..2 /\ mailSent \in 0..2
  OBVIOUS
<1>2. {mailOpen, waits, elsewhere} \subseteq BOOLEAN <=>
          mailOpen \in BOOLEAN /\ waits \in BOOLEAN /\ elsewhere \in BOOLEAN
  OBVIOUS
<1>3. QED
  BY <1>1, <1>2 DEF ContactTypeOK, PageTyped, FileRow

LEMMA PageIsTypedNext == PageTyped' => ContactTypeOK'
<1>1. codeFor' \in 0..2 /\ numberBox' \in 0..2 /\ mailBox' \in 0..2 /\ mailSent' \in 0..2
          => {codeFor', numberBox', mailBox', mailSent'} \subseteq 0..2
  OBVIOUS
<1>2. mailOpen' \in BOOLEAN /\ waits' \in BOOLEAN /\ elsewhere' \in BOOLEAN
          => {mailOpen', waits', elsewhere'} \subseteq BOOLEAN
  OBVIOUS
<1>3. QED
  BY <1>1, <1>2 DEF ContactTypeOK, PageTyped, FileRow

LEMMA ContactTypedStep ==
    ASSUME ContactTypeOK, asks \subseteq Ask5, [ContactNext]_contactVars
    PROVE  ContactTypeOK' /\ asks' \subseteq Ask5
<1>1. \A a \in asks : /\ a.of \in 0..2 /\ a.what \in {"email", "resend", "send", "confirm", "remove"}
                      /\ \A at \in {"asked", "done", "refused"} : [a EXCEPT !.at = at] \in Ask5
  BY DEF Ask5
<1>2. PageTyped
  BY PageIsTyped
<1>3. SUFFICES PageTyped' /\ asks' \subseteq Ask5
  BY PageIsTypedNext
<1> USE <1>2 DEF PageTyped
<1>4. ASSUME NEW what \in {"email", "resend", "send", "confirm", "remove"}, NEW of \in 0..2, AskServer(what, of)
      PROVE  PageTyped' /\ asks' \subseteq Ask5
  <2>1. [what |-> what, of |-> of, at |-> "asked"] \in Ask5
    BY <1>4 DEF Ask5
  <2>2. asks' \subseteq Ask5
    BY <1>4, <2>1 DEF AskServer
  <2>3. askCount' \in 0..AskBound
    BY <1>4, ContactAssumption DEF AskServer
  <2>4. QED
    BY <1>4, <2>2, <2>3 DEF AskServer
<1>5. CASE AskEmailChange \/ AskResend \/ AskCode \/ AskConfirm \/ AskRemove
  BY <1>4, <1>5 DEF AskEmailChange, AskResend, AskCode, AskConfirm, AskRemove
<1>6. ASSUME NEW a \in asks, AskServed(a)
      PROVE  PageTyped' /\ asks' \subseteq Ask5
  <2>1. asks' \subseteq Ask5
    BY <1>1, <1>6 DEF AskServed
  <2>2. onFile' \in FileRow
    <3>1. onFile' = onFile \/ onFile' = Effect(a)
      BY <1>6 DEF AskServed
    <3>2. QED
      BY <1>1, <3>1, EffectIsARow
  <2>3. QED
    BY <1>6, <2>1, <2>2 DEF AskServed
<1>7. ASSUME NEW a \in asks, HearEmail(a) \/ HearSend(a) \/ HearConfirm(a) \/ HearRemove(a) \/ HearRefusal(a) \/ HearNothing(a)
      PROVE  PageTyped' /\ asks' \subseteq Ask5
  <2>1. asks' \subseteq Ask5
    BY <1>7 DEF HearEmail, HearSend, HearConfirm, HearRemove, HearRefusal, HearNothing, Hear
  <2>2. a.of \in 0..2
    BY <1>1
  <2>3. CASE HearEmail(a)
    BY <2>1, <2>2, <2>3 DEF HearEmail, Hear
  <2>4. CASE HearSend(a)
    BY <2>1, <2>2, <2>4 DEF HearSend, Hear
  <2>5. CASE HearRemove(a)
    <3>1. 0 \in 0..2
      OBVIOUS
    <3>2. QED
      BY <2>1, <2>5, <3>1 DEF HearRemove, Hear
  <2>6. CASE HearConfirm(a) \/ HearRefusal(a) \/ HearNothing(a)
    BY <2>1, <2>6 DEF HearConfirm, HearRefusal, HearNothing, Hear
  <2>7. QED
    BY <1>7, <2>3, <2>4, <2>5, <2>6
<1>8. CASE TurnPhone \/ TurnMail \/ \E v \in Value : WriteContact(v)
  <2>1. CASE TurnPhone
    BY <2>1 DEF TurnPhone
  <2>2. CASE TurnMail
    BY <2>2 DEF TurnMail
  <2>3. ASSUME NEW v \in 0..2, WriteContact(v)
        PROVE  PageTyped' /\ asks' \subseteq Ask5
    BY <2>3 DEF WriteContact
  <2>4. QED
    BY <1>8, <2>1, <2>2, <2>3 DEF Value
<1>9. CASE OtherContact
  <2>1. onFile' \in FileRow
    <3>1. onFile.mail \in 0..2 /\ 0 \in 0..2 /\ 2 \in 0..2
      BY DEF FileRow
    <3>2. [number |-> 0, verified |-> FALSE, mail |-> onFile.mail] \in FileRow
      BY <3>1 DEF FileRow
    <3>3. [number |-> 2, verified |-> TRUE, mail |-> 0] \in FileRow
      BY <3>1 DEF FileRow
    <3>4. QED
      BY <1>9, <3>2, <3>3 DEF OtherContact
  <2>2. QED
    BY <1>9, <2>1 DEF OtherContact
<1>10. CASE ReloadContact
  <2>1. onFile.number \in 0..2
    BY DEF FileRow
  <2>2. elsewhere' \in BOOLEAN /\ asks' = {} /\ UNCHANGED <<onFile, askCount>>
    BY <1>10 DEF ReloadContact
  <2>3. 0 \in 0..2
    OBVIOUS
  <2>4. /\ rendered' \in FileRow /\ phoneStep' \in {"idle", "number", "code"} /\ codeFor' \in 0..2
        /\ waits' = FALSE /\ mailOpen' = FALSE /\ numberBox' \in 0..2 /\ mailBox' \in 0..2 /\ mailSent' \in 0..2
    BY <1>10, <2>1, <2>3 DEF ReloadContact, ContactMounted
  <2>5. QED
    BY <2>2, <2>4
<1>11. CASE UNCHANGED contactVars
  BY <1>11 DEF contactVars
<1>12. QED
  BY <1>5, <1>6, <1>7, <1>8, <1>9, <1>10, <1>11 DEF ContactNext

\* One call is under way, and the buttons wait for it.
LEMMA OneCallStep ==
    ASSUME ContactInv, [ContactNext]_contactVars
    PROVE  (\A a, b \in asks' : a = b) /\ (asks' # {} => waits')
<1>1. (\A a, b \in asks : a = b) /\ (asks # {} => waits)
  BY DEF ContactInv
<1>2. ASSUME NEW what, NEW of, AskServer(what, of)
      PROVE  (\A a, b \in asks' : a = b) /\ (asks' # {} => waits')
  BY <1>1, <1>2 DEF AskServer
<1>3. CASE AskEmailChange \/ AskResend \/ AskCode \/ AskConfirm \/ AskRemove
  BY <1>2, <1>3 DEF AskEmailChange, AskResend, AskCode, AskConfirm, AskRemove
<1>4. ASSUME NEW a \in asks, AskServed(a)
      PROVE  (\A b, c \in asks' : b = c) /\ (asks' # {} => waits')
  BY <1>1, <1>4 DEF AskServed
<1>5. ASSUME NEW a \in asks, HearEmail(a) \/ HearSend(a) \/ HearConfirm(a) \/ HearRemove(a) \/ HearRefusal(a) \/ HearNothing(a)
      PROVE  (\A b, c \in asks' : b = c) /\ (asks' # {} => waits')
  BY <1>1, <1>5 DEF HearEmail, HearSend, HearConfirm, HearRemove, HearRefusal, HearNothing, Hear
<1>6. CASE ReloadContact
  BY <1>6 DEF ReloadContact
<1>7. CASE TurnPhone \/ TurnMail \/ OtherContact \/ (\E v \in Value : WriteContact(v)) \/ UNCHANGED contactVars
  BY <1>1, <1>7 DEF TurnPhone, TurnMail, OtherContact, WriteContact, contactVars
<1>8. QED
  BY <1>3, <1>4, <1>5, <1>6, <1>7 DEF ContactNext

LEMMA PageFollowsStep ==
    ASSUME ContactInv, [ContactNext]_contactVars
    PROVE  ~elsewhere' => PageFollows'
<1>1. /\ asks \subseteq Ask5 /\ (\A a, b \in asks : a = b) /\ (asks # {} => waits)
      /\ onFile \in FileRow /\ elsewhere \in BOOLEAN
  BY DEF ContactInv, ContactTypeOK, FileRow
<1>2. CASE ReloadContact
  <2>1. asks' = {} /\ onFile' = onFile /\ mailSent' = 0
        /\ phoneStep' = (IF Unverified(onFile) THEN "code" ELSE "idle")
        /\ codeFor' = (IF Unverified(onFile) THEN onFile.number ELSE 0)
    BY <1>2 DEF ReloadContact, ContactMounted
  <2>2. QED
    BY <2>1 DEF PageFollows
<1>3. CASE OtherContact \/ \E a \in asks : HearNothing(a)
  BY <1>3 DEF OtherContact, HearNothing
<1>4. SUFFICES ASSUME ~elsewhere, PageFollows, ~ReloadContact, ~OtherContact, \A a \in asks : ~HearNothing(a)
               PROVE  PageFollows'
  <2>1. elsewhere' = elsewhere \/ ReloadContact \/ OtherContact \/ \E a \in asks : HearNothing(a)
    BY DEF ContactNext, AskEmailChange, AskResend, AskCode, AskConfirm, AskRemove, AskServer, AskServed, HearEmail,
       HearSend, HearConfirm, HearRemove, HearRefusal, TurnPhone, TurnMail, WriteContact, contactVars
  <2>2. QED
    BY <1>2, <1>3, <2>1 DEF ContactInv
<1>5. ASSUME NEW what, NEW of, AskServer(what, of), what = "send" => phoneStep = "number" /\ of # 0
      PROVE  PageFollows'
  <2>1. asks = {} /\ UNCHANGED <<onFile, phoneStep, codeFor, mailSent>>
    BY <1>1, <1>5 DEF AskServer
  <2>2. asks' = {[what |-> what, of |-> of, at |-> "asked"]}
    BY <1>5, <2>1 DEF AskServer
  <2>3. QED
    BY <1>4, <1>5, <2>1, <2>2 DEF PageFollows, Answered, Unverified
<1>6. CASE AskEmailChange \/ AskResend \/ AskCode \/ AskConfirm \/ AskRemove
  BY <1>5, <1>6 DEF AskEmailChange, AskResend, AskCode, AskConfirm, AskRemove
<1>7. ASSUME NEW a \in asks, AskServed(a)
      PROVE  PageFollows'
  <2>1. asks = {a} /\ a.at = "asked" /\ a \in Ask5 /\ UNCHANGED <<phoneStep, codeFor, mailSent>>
    BY <1>1, <1>7 DEF AskServed
  <2>2. /\ phoneStep = "code" => Unverified(onFile) /\ codeFor = onFile.number
        /\ mailSent # 0 => mailSent = onFile.mail
        /\ a.what = "send" => phoneStep # "code" /\ a.of # 0
    BY <1>4, <2>1 DEF PageFollows, Answered
  <2>3. PICK b : /\ asks' = {b} /\ b.what = a.what /\ b.of = a.of
                 /\ \/ b.at = "done" /\ onFile' = Effect(a)
                    \/ b.at = "refused" /\ (onFile' = onFile \/ (a.what = "send" /\ onFile' = Effect(a)))
    <3>1. /\ [a EXCEPT !.at = "done"].what = a.what /\ [a EXCEPT !.at = "done"].of = a.of
          /\ [a EXCEPT !.at = "done"].at = "done"
      BY <2>1 DEF Ask5
    <3>2. /\ [a EXCEPT !.at = "refused"].what = a.what /\ [a EXCEPT !.at = "refused"].of = a.of
          /\ [a EXCEPT !.at = "refused"].at = "refused"
      BY <2>1 DEF Ask5
    <3>3. CASE asks' = (asks \ {a}) \cup {[a EXCEPT !.at = "done"]} /\ onFile' = Effect(a)
      <4>1. asks' = {[a EXCEPT !.at = "done"]}
        BY <2>1, <3>3
      <4>2. QED
        BY <3>1, <3>3, <4>1
    <3>4. CASE /\ asks' = (asks \ {a}) \cup {[a EXCEPT !.at = "refused"]}
               /\ onFile' = onFile \/ (a.what = "send" /\ onFile' = Effect(a))
      <4>1. asks' = {[a EXCEPT !.at = "refused"]}
        BY <2>1, <3>4
      <4>2. QED
        BY <3>2, <3>4, <4>1
    <3>5. QED
      BY <1>7, <3>3, <3>4 DEF AskServed
  <2>4. /\ a.what \in {"email", "resend", "send", "confirm", "remove"}
        /\ a.what = "email" => /\ Effect(a).mail = a.of /\ Effect(a).number = onFile.number
                               /\ Effect(a).verified = onFile.verified
        /\ a.what = "send" => Effect(a).number = a.of /\ Effect(a).verified = FALSE
        /\ a.what # "email" => Effect(a).mail = onFile.mail
        /\ a.what = "resend" => Effect(a) = onFile
    BY <1>1, <2>1 DEF Effect, FileRow, Ask5
  <2>5. QED
    BY <2>1, <2>2, <2>3, <2>4 DEF PageFollows, Answered, Unverified
<1>8. ASSUME NEW a \in asks, HearEmail(a) \/ HearSend(a) \/ HearConfirm(a) \/ HearRemove(a) \/ HearRefusal(a)
      PROVE  PageFollows'
  <2>1. asks = {a} /\ asks' = {} /\ onFile' = onFile
    BY <1>1, <1>8 DEF HearEmail, HearSend, HearConfirm, HearRemove, HearRefusal, Hear
  <2>2. QED
    BY <1>4, <1>8, <2>1 DEF HearEmail, HearSend, HearConfirm, HearRemove, HearRefusal, PageFollows, Answered, Unverified
<1>9. CASE TurnPhone \/ TurnMail \/ (\E v \in Value : WriteContact(v)) \/ UNCHANGED contactVars
  <2>1. UNCHANGED <<asks, onFile, mailSent, codeFor>> /\ (phoneStep' = phoneStep \/ phoneStep' # "code")
    BY <1>9 DEF TurnPhone, TurnMail, WriteContact, contactVars
  <2>2. QED
    BY <1>4, <2>1 DEF PageFollows, Unverified
<1>10. QED
  BY <1>4, <1>6, <1>7, <1>8, <1>9 DEF ContactNext

LEMMA ContactStarts == ContactInit => ContactInv
<1> SUFFICES ASSUME ContactInit
             PROVE  ContactInv
  OBVIOUS
<1>1. onFile \in FileRow /\ asks = {} /\ askCount \in 0..AskBound
  BY ContactAssumption DEF ContactInit, FileRow
<1>2. onFile.number \in 0..2
  BY <1>1 DEF FileRow
<1>3. PageTyped
  <2>1. 0 \in 0..2
    OBVIOUS
  <2>2. phoneStep \in {"idle", "number", "code"} /\ codeFor \in 0..2 /\ rendered = onFile
    BY <1>2, <2>1 DEF ContactInit
  <2>3. numberBox \in 0..2 /\ mailBox \in 0..2 /\ mailSent \in 0..2 /\ mailOpen = FALSE /\ waits = FALSE /\ elsewhere = FALSE
    BY <2>1 DEF ContactInit
  <2>4. QED
    BY <1>1, <2>2, <2>3 DEF PageTyped
<1>4. PageFollows
  BY <1>1 DEF ContactInit, PageFollows
<1>5. QED
  BY <1>1, <1>3, <1>4, PageIsTyped DEF ContactInv

THEOREM ContactInvariance == ContactSpec => []ContactInv
<1>1. ContactInv /\ [ContactNext]_contactVars => ContactInv'
  BY ContactTypedStep, OneCallStep, PageFollowsStep DEF ContactInv
<1>2. QED
  BY <1>1, ContactStarts, PTL DEF ContactSpec

\* ContactSection, however the person turns between its steps while answers
\* come: the number it asks a code for is the one on file, the address it says
\* it wrote to is the one waited for, and there is one call at a time.
THEOREM ContactIsSound == ContactSpec => []ContactHolds
<1>1. ContactInv => ContactHolds
  BY AtMostOne DEF ContactInv, PageFollows, ContactHolds, CodeStepIsTrue, MailSentIsAwaited, OneCallBetweenThem
<1>2. QED
  BY <1>1, ContactInvariance, PTL

---------------------------------------------------------------------------
(* The phone number                                                        *)

StoreRequest == [pc : {"store"}, who : Caller, number : Number]
TextRequest == [pc : {"text"}, code : CodeId, number : Number]
CheckRequest == [pc : {"check"}, who : Caller, guess : CodeId, read : PhoneRow]
PhoneRequest == StoreRequest \cup TextRequest \cup CheckRequest \cup {Free}

Running == {l \in PhoneLane : phoneCall[l] # Free}
Storing == {l \in PhoneLane : phoneCall[l].pc = "store"}
Guessing(k) == {l \in PhoneLane : phoneCall[l].pc = "check" /\ phoneCall[l].read.code = k}

\* Codes are numbered as they are made, one for a request at most.
PhoneTyped ==
    /\ PhoneTypeOK
    /\ phoneCall \in [PhoneLane -> PhoneRequest]
    /\ phoneLanes \in 1..Cardinality(PhoneLane) /\ phoneCalls \in 0..PhoneBound[phoneLanes]
    /\ coined \in Nat /\ coined + Cardinality(Storing) <= phoneCalls
    /\ Cardinality(Running) <= phoneLanes
    /\ wrong \in [CodeId -> Nat]
    /\ texted \subseteq [code : CodeId, number : Number]

\* A code is of one account, and the wrong guesses at it are no more than its
\* row counts, as long as the row has it.
CodesAreCounted ==
    /\ \A c \in Caller : phone[c].code <= coined /\ wrong[phone[c].code] <= phone[c].attempts
    /\ \A c, d \in Caller : c # d /\ phone[c].code = phone[d].code => phone[c].code = 0
    /\ wrong[0] = 0 /\ \A k \in CodeId : k > coined => wrong[k] = 0
    /\ \A l \in PhoneLane : phoneCall[l].pc = "check" =>
           /\ phoneCall[l].read.code \in 1..coined
           /\ \A c \in Caller : phone[c].code = phoneCall[l].read.code => c = phoneCall[l].who

\* Every guess at a code that is made or under way was begun below the limit,
\* but for those in flight together.
GuessesAreFew ==
    \A k \in CodeId : wrong[k] + Cardinality(Guessing(k)) < PHONE_CODE_MAX_ATTEMPTS + phoneLanes

\* One request at a time finds the number it has read, or none.
ReadIsStillSo ==
    phoneLanes = 1 => \A l \in PhoneLane : phoneCall[l].pc = "check" =>
        phone[phoneCall[l].who].number \in {NoNumber, phoneCall[l].read.number}

PhoneInv == PhoneTyped /\ CodesAreCounted /\ GuessesAreFew /\ VerifiedNumberIsProven /\ ReadIsStillSo

\* The step tells what kind of request it is.
LEMMA KindOfPhoneRequest ==
    ASSUME NEW c \in PhoneRequest
    PROVE  /\ c.pc = "store" => c \in StoreRequest /\ c.who \in Caller /\ c.number \in Number
           /\ c.pc = "text" => c.code \in CodeId /\ c.number \in Number
           /\ c.pc = "check" => c \in CheckRequest /\ c.who \in Caller /\ c.guess \in CodeId /\ c.read \in PhoneRow
           /\ c.pc \in {"store", "text", "check", "idle"} /\ (c.pc = "idle" => c = Free)
<1>1. CASE c \in StoreRequest
  BY <1>1 DEF StoreRequest
<1>2. CASE c \in TextRequest
  BY <1>2 DEF TextRequest
<1>3. CASE c \in CheckRequest
  BY <1>3 DEF CheckRequest
<1>4. CASE c = Free
  BY <1>4 DEF Free
<1>5. QED
  BY <1>1, <1>2, <1>3, <1>4 DEF PhoneRequest

\* Lanes are few, and there is a code for every request.
LEMMA PhoneNumbers ==
    ASSUME PhoneTyped
    PROVE  /\ phoneLanes \in Nat /\ PhoneBound[phoneLanes] \in Nat /\ phoneCalls \in Nat
           /\ \A S \in SUBSET PhoneLane : IsFiniteSet(S) /\ Cardinality(S) \in Nat
           /\ CodeId \subseteq Nat /\ 0 \in CodeId
           /\ \A n \in Nat : n <= phoneCalls => n \in CodeId
<1>1. \A S \in SUBSET PhoneLane : IsFiniteSet(S) /\ Cardinality(S) \in Nat
  BY PhoneAssumption, FS_Subset, FS_CardinalityType
<1>2. phoneLanes \in 1..Cardinality(PhoneLane) /\ Cardinality(PhoneLane) \in Nat
  BY <1>1 DEF PhoneTyped
<1>3. PhoneBound[phoneLanes] \in Nat
  BY <1>2, PhoneAssumption
<1>4. phoneCalls \in Nat /\ phoneCalls <= PhoneBound[phoneLanes]
  BY <1>3 DEF PhoneTyped
<1>5. CodeId \subseteq Nat
  BY <1>2, PhoneAssumption DEF CodeId
<1>6. \A n \in Nat : n <= phoneCalls => n \in 0..PhoneBound[phoneLanes]
  BY <1>3, <1>4
<1>7. \A n \in 0..PhoneBound[phoneLanes] : n \in CodeId
  BY <1>2 DEF CodeId
<1>8. QED
  BY <1>1, <1>2, <1>3, <1>4, <1>5, <1>6, <1>7

\* One lane goes on to c.
PhoneGoes(l, c) == c \in PhoneRequest /\ phoneCall' = [phoneCall EXCEPT ![l] = c]

LEMMA LanesAfter ==
    ASSUME PhoneTyped, NEW l \in PhoneLane, NEW c, PhoneGoes(l, c)
    PROVE  /\ phoneCall' \in [PhoneLane -> PhoneRequest]
           /\ phoneCall'[l] = c /\ \A m \in PhoneLane \ {l} : phoneCall'[m] = phoneCall[m]
           /\ Running' = IF c = Free THEN Running \ {l} ELSE Running \cup {l}
           /\ Storing' = IF c.pc = "store" THEN Storing \cup {l} ELSE Storing \ {l}
           /\ \A k : Guessing(k)' = IF c.pc = "check" /\ c.read.code = k THEN Guessing(k) \cup {l}
                                                                        ELSE Guessing(k) \ {l}
<1>1. phoneCall \in [PhoneLane -> PhoneRequest]
  BY DEF PhoneTyped
<1>2. /\ phoneCall' \in [PhoneLane -> PhoneRequest]
      /\ phoneCall'[l] = c /\ \A m \in PhoneLane \ {l} : phoneCall'[m] = phoneCall[m]
  BY <1>1 DEF PhoneGoes
<1>3. Running' = IF c = Free THEN Running \ {l} ELSE Running \cup {l}
  BY <1>2 DEF Running
<1>4. Storing' = IF c.pc = "store" THEN Storing \cup {l} ELSE Storing \ {l}
  BY <1>2 DEF Storing
<1>5. ASSUME NEW k
      PROVE  Guessing(k)' = IF c.pc = "check" /\ c.read.code = k THEN Guessing(k) \cup {l} ELSE Guessing(k) \ {l}
  BY <1>2 DEF Guessing
<1>6. QED
  BY <1>2, <1>3, <1>4, <1>5

LEMMA OneMore ==
    ASSUME NEW S, IsFiniteSet(S), NEW e
    PROVE  /\ Cardinality(S \cup {e}) <= Cardinality(S) + 1 /\ Cardinality(S \ {e}) <= Cardinality(S)
           /\ e \in S => Cardinality(S \ {e}) = Cardinality(S) - 1
           /\ e \in S => Cardinality(S \cup {e}) = Cardinality(S)
<1>1. Cardinality(S) \in Nat
  BY FS_CardinalityType
<1>2. Cardinality(S \cup {e}) = IF e \in S THEN Cardinality(S) ELSE Cardinality(S) + 1
  BY FS_AddElement
<1>3. Cardinality(S \ {e}) = IF e \in S THEN Cardinality(S) - 1 ELSE Cardinality(S)
  BY FS_RemoveElement
<1>4. QED
  BY <1>1, <1>2, <1>3

---------------------------------------------------------------------------
\* Beginning: the rows and codes stand, and a check has read what is there.
LEMMA PhoneBegins ==
    ASSUME PhoneInv, NEW l \in PhoneLane, NEW c \in StoreRequest \cup CheckRequest, BeginPhone(l, c),
           c.pc = "check" => /\ c.who \in Caller /\ c.read = phone[c.who] /\ c.read.code # 0
                             /\ c.read.attempts < PHONE_CODE_MAX_ATTEMPTS
    PROVE  PhoneInv'
<1>1. PhoneTyped /\ CodesAreCounted /\ GuessesAreFew /\ VerifiedNumberIsProven /\ ReadIsStillSo
  BY DEF PhoneInv
<1>2. /\ phoneCall[l] = Free /\ phoneCalls' = phoneCalls + 1 /\ phoneCalls < PhoneBound[phoneLanes]
      /\ Cardinality(Running) < phoneLanes
      /\ UNCHANGED <<phoneLanes, phone, texted, coined, wrong, shown>>
  BY DEF BeginPhone, Running
<1>3. PhoneGoes(l, c) /\ c # Free /\ c.pc \in {"store", "check"}
  BY DEF BeginPhone, PhoneGoes, PhoneRequest, StoreRequest, CheckRequest, Free
<1>4. /\ Running' = Running \cup {l} /\ Storing' \subseteq Storing \cup {l}
      /\ \A k : Guessing(k)' = IF c.pc = "check" /\ c.read.code = k THEN Guessing(k) \cup {l} ELSE Guessing(k) \ {l}
      /\ phoneCall' \in [PhoneLane -> PhoneRequest]
      /\ phoneCall'[l] = c /\ \A m \in PhoneLane \ {l} : phoneCall'[m] = phoneCall[m]
  BY <1>1, <1>3, LanesAfter
<1>5. /\ phoneLanes \in Nat /\ PhoneBound[phoneLanes] \in Nat /\ phoneCalls \in Nat
      /\ \A S \in SUBSET PhoneLane : IsFiniteSet(S) /\ Cardinality(S) \in Nat
  BY <1>1, PhoneNumbers
<1>6. Cardinality(Running') <= phoneLanes
  <2>1. Cardinality(Running \cup {l}) <= Cardinality(Running) + 1 /\ Cardinality(Running) \in Nat
    BY <1>5, OneMore DEF Running
  <2>2. Cardinality(Running \cup {l}) \in Nat
    BY <1>5 DEF Running
  <2>3. QED
    BY <1>2, <1>4, <1>5, <2>1, <2>2
<1>7. coined + Cardinality(Storing') <= phoneCalls'
  <2>1. Cardinality(Storing \cup {l}) <= Cardinality(Storing) + 1 /\ Cardinality(Storing) \in Nat
    BY <1>5, OneMore DEF Storing
  <2>2. Cardinality(Storing') <= Cardinality(Storing \cup {l})
    BY <1>4, <1>5, FS_Subset DEF Storing
  <2>3. Cardinality(Storing') \in Nat /\ Cardinality(Storing \cup {l}) \in Nat
    BY <1>5 DEF Storing
  <2>4. coined \in Nat /\ coined + Cardinality(Storing) <= phoneCalls
    BY <1>1 DEF PhoneTyped
  <2>5. QED
    BY <1>2, <1>5, <2>1, <2>2, <2>3, <2>4
<1>8. phoneCalls' \in 0..PhoneBound[phoneLanes]
  BY <1>2, <1>5
<1>9. PhoneTyped'
  BY <1>1, <1>2, <1>4, <1>6, <1>7, <1>8 DEF PhoneTyped, PhoneTypeOK
<1>10. CodesAreCounted'
  <2>1. c.pc = "check" => /\ c.read.code \in 1..coined
                          /\ \A d \in Caller : phone[d].code = c.read.code => d = c.who
    <3>1. ASSUME c.pc = "check"
          PROVE  c.read.code \in Nat /\ c.read.code <= coined /\ coined \in Nat
      BY <1>1, <3>1, PhoneNumbers DEF PhoneTyped, PhoneTypeOK, PhoneRow, CodesAreCounted
    <3>2. QED
      BY <1>1, <3>1 DEF CodesAreCounted
  <2>2. QED
    BY <1>1, <1>2, <1>4, <2>1 DEF CodesAreCounted
<1>11. GuessesAreFew'
  <2> SUFFICES ASSUME NEW k \in CodeId
               PROVE  wrong[k] + Cardinality(Guessing(k)') < PHONE_CODE_MAX_ATTEMPTS + phoneLanes
    BY <1>2 DEF GuessesAreFew
  <2>1. wrong[k] \in Nat /\ PHONE_CODE_MAX_ATTEMPTS \in Nat
    BY <1>1, PhoneAssumption DEF PhoneTyped
  <2>2. CASE c.pc = "check" /\ c.read.code = k
    <3>1. phone[c.who].attempts \in Nat /\ wrong[k] <= phone[c.who].attempts
      BY <1>1, <2>2 DEF PhoneTyped, PhoneTypeOK, PhoneRow, CodesAreCounted
    <3>2. Guessing(k)' \subseteq Running' /\ Running' \subseteq PhoneLane
      BY <1>4, <2>2 DEF Guessing, Running, Free
    <3>3. Cardinality(Guessing(k)') <= Cardinality(Running') /\ Cardinality(Guessing(k)') \in Nat
          /\ Cardinality(Running') \in Nat
      BY <1>5, <3>2, FS_Subset
    <3>4. wrong[k] < PHONE_CODE_MAX_ATTEMPTS
      BY <2>1, <2>2, <3>1
    <3>5. QED
      BY <1>5, <1>6, <2>1, <3>3, <3>4
  <2>3. CASE ~(c.pc = "check" /\ c.read.code = k)
    <3>1. Guessing(k)' = Guessing(k)
      BY <1>2, <1>4, <2>3 DEF Guessing, Free
    <3>2. QED
      BY <1>1, <3>1 DEF GuessesAreFew
  <2>4. QED
    BY <2>2, <2>3
<1>12. VerifiedNumberIsProven'
  BY <1>1, <1>2 DEF VerifiedNumberIsProven
<1>13. ReadIsStillSo'
  BY <1>1, <1>2, <1>4 DEF ReadIsStillSo
<1>14. QED
  BY <1>9, <1>10, <1>11, <1>12, <1>13 DEF PhoneInv

\* Going on: the counts of lanes do not rise.
LEMMA LanesGoOn ==
    ASSUME PhoneTyped, NEW l \in PhoneLane, NEW c, PhoneGoes(l, c), phoneCall[l] # Free, c.pc \in {"text", "idle"}
    PROVE  /\ phoneCall' \in [PhoneLane -> PhoneRequest]
           /\ phoneCall'[l] = c /\ \A m \in PhoneLane \ {l} : phoneCall'[m] = phoneCall[m]
           /\ Cardinality(Running') <= Cardinality(Running)
           /\ Cardinality(Storing') <= Cardinality(Storing)
           /\ phoneCall[l].pc = "store" => Cardinality(Storing') = Cardinality(Storing) - 1
           /\ \A k : /\ Cardinality(Guessing(k)') <= Cardinality(Guessing(k))
                     /\ l \in Guessing(k) => Cardinality(Guessing(k)') = Cardinality(Guessing(k)) - 1
<1>1. \A S \in SUBSET PhoneLane : IsFiniteSet(S) /\ Cardinality(S) \in Nat
  BY PhoneNumbers
<1>2. /\ phoneCall' \in [PhoneLane -> PhoneRequest]
      /\ phoneCall'[l] = c /\ \A m \in PhoneLane \ {l} : phoneCall'[m] = phoneCall[m]
      /\ Running' = IF c = Free THEN Running \ {l} ELSE Running \cup {l}
      /\ Storing' = Storing \ {l} /\ \A k : Guessing(k)' = Guessing(k) \ {l}
  BY LanesAfter
<1>3. l \in Running /\ Running \subseteq PhoneLane /\ Storing \subseteq PhoneLane
  BY DEF Running, Storing
<1>4. Cardinality(Running') <= Cardinality(Running)
  BY <1>1, <1>2, <1>3, OneMore
<1>5. /\ Cardinality(Storing') <= Cardinality(Storing)
      /\ phoneCall[l].pc = "store" => Cardinality(Storing') = Cardinality(Storing) - 1
  <2>1. phoneCall[l].pc = "store" => l \in Storing
    BY DEF Storing
  <2>2. QED
    BY <1>1, <1>2, <1>3, <2>1, OneMore
<1>6. ASSUME NEW k
      PROVE  /\ Cardinality(Guessing(k)') <= Cardinality(Guessing(k))
             /\ l \in Guessing(k) => Cardinality(Guessing(k)') = Cardinality(Guessing(k)) - 1
  <2>1. IsFiniteSet(Guessing(k))
    BY <1>1 DEF Guessing
  <2>2. QED
    BY <1>2, <2>1, OneMore
<1>7. QED
  BY <1>2, <1>4, <1>5, <1>6

\* One row changes while lane l goes on: what is left to show of the row.
LEMMA PhoneRowChanges ==
    ASSUME PhoneInv, NEW l \in PhoneLane, NEW step, PhoneGoes(l, step), phoneCall[l] # Free,
           step.pc \in {"text", "idle"}, NEW c \in Caller, NEW row \in PhoneRow,
           phone' = [phone EXCEPT ![c] = row], coined' = coined, texted' \subseteq [code : CodeId, number : Number],
           UNCHANGED <<phoneLanes, phoneCalls>>, shown \subseteq shown',
           \/ UNCHANGED wrong
           \/ /\ l \in Guessing(phoneCall[l].read.code)
              /\ wrong' = [wrong EXCEPT ![phoneCall[l].read.code] = @ + 1]
              /\ phoneCall[l].who = c /\ row.attempts = phone[c].attempts + 1,
           \/ row.code = 0
           \/ row.code = phone[c].code /\ phone[c].attempts <= row.attempts,
           row.number \in {phone[c].number, NoNumber},
           phoneLanes = 1 /\ row.verified => row.number = NoNumber \/ <<c, row.number>> \in shown'
    PROVE  PhoneInv'
<1>1. PhoneTyped /\ CodesAreCounted /\ GuessesAreFew /\ VerifiedNumberIsProven /\ ReadIsStillSo
  BY DEF PhoneInv
<1>2. /\ phoneCall' \in [PhoneLane -> PhoneRequest]
      /\ phoneCall'[l] = step /\ \A m \in PhoneLane \ {l} : phoneCall'[m] = phoneCall[m]
      /\ Cardinality(Running') <= Cardinality(Running)
      /\ Cardinality(Storing') <= Cardinality(Storing)
      /\ \A k : /\ Cardinality(Guessing(k)') <= Cardinality(Guessing(k))
                /\ l \in Guessing(k) => Cardinality(Guessing(k)') = Cardinality(Guessing(k)) - 1
  BY <1>1, LanesGoOn
<1>3. /\ \A S \in SUBSET PhoneLane : IsFiniteSet(S) /\ Cardinality(S) \in Nat
      /\ CodeId \subseteq Nat /\ 0 \in CodeId /\ phoneLanes \in Nat /\ phoneCalls \in Nat
  BY <1>1, PhoneNumbers
<1>4. /\ Cardinality(Running) \in Nat /\ Cardinality(Running') \in Nat
      /\ Cardinality(Storing) \in Nat /\ Cardinality(Storing') \in Nat
      /\ \A k : Cardinality(Guessing(k)) \in Nat /\ Cardinality(Guessing(k)') \in Nat
  BY <1>3 DEF Running, Storing, Guessing
<1>5. /\ phone \in [Caller -> PhoneRow] /\ phone'[c] = row /\ \A d \in Caller \ {c} : phone'[d] = phone[d]
      /\ phone' \in [Caller -> PhoneRow]
  BY <1>1 DEF PhoneTyped, PhoneTypeOK
<1>6. /\ wrong' \in [CodeId -> Nat]
      /\ \A k \in CodeId : \/ wrong'[k] = wrong[k]
                           \/ l \in Guessing(k) /\ wrong'[k] = wrong[k] + 1
  BY <1>1 DEF PhoneTyped, Guessing
<1>7. PhoneTyped'
  <2>1. \A d, e \in Caller : d # e /\ phone'[d].number = phone'[e].number => phone'[d].number = NoNumber
    BY <1>1, <1>5 DEF PhoneTyped, PhoneTypeOK
  <2>2. coined + Cardinality(Storing') <= phoneCalls /\ Cardinality(Running') <= phoneLanes
    BY <1>1, <1>2, <1>3, <1>4 DEF PhoneTyped
  <2>3. QED
    BY <1>1, <1>2, <1>5, <1>6, <2>1, <2>2 DEF PhoneTyped, PhoneTypeOK
<1>8. \A m \in PhoneLane : phoneCall'[m].pc = "check" => m # l /\ phoneCall'[m] = phoneCall[m]
  BY <1>2
<1>9. CodesAreCounted'
  <2>1. \A d \in Caller : phone'[d].code \in {0, phone[d].code}
    BY <1>5
  <2>2. wrong'[0] = 0
    <3>1. l \notin Guessing(0)
      BY <1>1 DEF Guessing, CodesAreCounted
    <3>2. QED
      BY <1>1, <1>3, <1>6, <3>1 DEF CodesAreCounted
  <2>3. \A k \in CodeId : k > coined => wrong'[k] = 0
    <3>1. \A k \in CodeId : l \in Guessing(k) => k \in 1..coined
      BY <1>1 DEF Guessing, CodesAreCounted
    <3>2. coined \in Nat
      BY <1>1 DEF PhoneTyped
    <3>3. QED
      BY <1>1, <1>3, <1>6, <3>1, <3>2 DEF CodesAreCounted
  <2>4. ASSUME NEW d \in Caller
        PROVE  phone'[d].code <= coined /\ wrong'[phone'[d].code] <= phone'[d].attempts
    <3>1. /\ phone[d] \in PhoneRow /\ phone'[d] \in PhoneRow /\ phone[d].code \in CodeId
          /\ phone[d].attempts \in Nat /\ phone'[d].attempts \in Nat
      BY <1>5 DEF PhoneRow
    <3>2. phone[d].code <= coined /\ wrong[phone[d].code] <= phone[d].attempts /\ coined \in Nat
      BY <1>1 DEF CodesAreCounted, PhoneTyped
    <3>3. CASE phone'[d].code = 0
      BY <2>2, <3>1, <3>2, <3>3
    <3>4. CASE phone'[d].code = phone[d].code /\ phone[d].code # 0
      <4>1. phone[d].attempts <= phone'[d].attempts
        BY <1>5, <3>1, <3>4
      <4>2. CASE wrong'[phone[d].code] = wrong[phone[d].code]
        BY <1>1, <3>1, <3>2, <3>4, <4>1, <4>2 DEF PhoneTyped
      <4>3. CASE wrong'[phone[d].code] # wrong[phone[d].code]
        <5>1. l \in Guessing(phone[d].code) /\ wrong'[phone[d].code] = wrong[phone[d].code] + 1
          BY <1>6, <3>1, <4>3
        <5>2. phoneCall[l].pc = "check" /\ phoneCall[l].read.code = phone[d].code
          BY <5>1 DEF Guessing
        <5>3. d = phoneCall[l].who
          BY <1>1, <5>2 DEF CodesAreCounted
        <5>4. phone'[d].attempts = phone[d].attempts + 1
          BY <1>5, <4>3, <5>3
        <5>5. wrong[phone[d].code] \in Nat
          BY <1>1, <3>1 DEF PhoneTyped
        <5>6. QED
          BY <3>1, <3>2, <3>4, <5>1, <5>4, <5>5
      <4>4. QED
        BY <4>2, <4>3
    <3>5. QED
      BY <2>1, <3>3, <3>4
  <2>5. \A d, e \in Caller : d # e /\ phone'[d].code = phone'[e].code => phone'[d].code = 0
    BY <1>1, <2>1 DEF CodesAreCounted
  <2>6. ASSUME NEW m \in PhoneLane, phoneCall'[m].pc = "check"
        PROVE  /\ phoneCall'[m].read.code \in 1..coined
               /\ \A d \in Caller : phone'[d].code = phoneCall'[m].read.code => d = phoneCall'[m].who
    <3>1. phoneCall'[m] = phoneCall[m]
      BY <1>8, <2>6
    <3>2. phoneCall[m].read.code \in 1..coined
      BY <1>1, <2>6, <3>1 DEF CodesAreCounted
    <3>3. phoneCall[m].read.code # 0
      BY <1>1, <3>2 DEF PhoneTyped
    <3>4. QED
      BY <1>1, <2>1, <2>6, <3>1, <3>2, <3>3 DEF CodesAreCounted
  <2>7. QED
    BY <2>2, <2>3, <2>4, <2>5, <2>6 DEF CodesAreCounted
<1>10. GuessesAreFew'
  <2> SUFFICES ASSUME NEW k \in CodeId
               PROVE  wrong'[k] + Cardinality(Guessing(k)') < PHONE_CODE_MAX_ATTEMPTS + phoneLanes
    BY DEF GuessesAreFew
  <2>1. wrong[k] \in Nat /\ wrong'[k] \in Nat /\ PHONE_CODE_MAX_ATTEMPTS \in Nat
    BY <1>1, <1>6, PhoneAssumption DEF PhoneTyped
  <2>2. wrong[k] + Cardinality(Guessing(k)) < PHONE_CODE_MAX_ATTEMPTS + phoneLanes
    BY <1>1 DEF GuessesAreFew
  <2>3. Cardinality(Guessing(k)) \in Nat /\ Cardinality(Guessing(k)') \in Nat
    BY <1>4
  <2>4. \/ wrong'[k] = wrong[k] /\ Cardinality(Guessing(k)') <= Cardinality(Guessing(k))
        \/ wrong'[k] = wrong[k] + 1 /\ Cardinality(Guessing(k)') = Cardinality(Guessing(k)) - 1
    BY <1>2, <1>6
  <2>5. QED
    BY <1>3, <2>1, <2>2, <2>3, <2>4
<1>11. VerifiedNumberIsProven'
  BY <1>1, <1>5 DEF VerifiedNumberIsProven
<1>12. ReadIsStillSo'
  <2> SUFFICES ASSUME phoneLanes = 1, NEW m \in PhoneLane, phoneCall'[m].pc = "check"
               PROVE  phone'[phoneCall'[m].who].number \in {NoNumber, phoneCall'[m].read.number}
    BY DEF ReadIsStillSo
  <2>1. phoneCall'[m] = phoneCall[m] /\ phoneCall'[m] \in PhoneRequest
    BY <1>2, <1>8
  <2>2. phoneCall[m].who \in Caller
    BY <2>1, KindOfPhoneRequest
  <2>3. phone[phoneCall[m].who].number \in {NoNumber, phoneCall[m].read.number}
    BY <1>1, <2>1 DEF ReadIsStillSo
  <2>4. QED
    BY <1>5, <2>1, <2>2, <2>3
<1>13. QED
  BY <1>7, <1>9, <1>10, <1>11, <1>12 DEF PhoneInv

\* A lane goes on and the rows stand as they are.
LEMMA PhoneRowsStand ==
    ASSUME PhoneInv, NEW l \in PhoneLane, NEW step, PhoneGoes(l, step), phoneCall[l] # Free,
           step.pc \in {"text", "idle"}, texted' \subseteq [code : CodeId, number : Number],
           UNCHANGED <<phone, coined, wrong, shown, phoneLanes, phoneCalls>>
    PROVE  PhoneInv'
<1>1. PhoneTyped /\ CodesAreCounted /\ GuessesAreFew /\ VerifiedNumberIsProven /\ ReadIsStillSo
  BY DEF PhoneInv
<1>2. /\ phoneCall' \in [PhoneLane -> PhoneRequest]
      /\ phoneCall'[l] = step /\ \A m \in PhoneLane \ {l} : phoneCall'[m] = phoneCall[m]
      /\ Cardinality(Running') <= Cardinality(Running)
      /\ Cardinality(Storing') <= Cardinality(Storing)
      /\ \A k : Cardinality(Guessing(k)') <= Cardinality(Guessing(k))
  BY <1>1, LanesGoOn
<1>3. \A S \in SUBSET PhoneLane : Cardinality(S) \in Nat
  BY <1>1, PhoneNumbers
<1>4. phoneLanes \in Nat /\ phoneCalls \in Nat
  BY <1>1, PhoneNumbers
<1>5. PhoneTyped'
  <2>1. /\ Cardinality(Running) \in Nat /\ Cardinality(Running') \in Nat
        /\ Cardinality(Storing) \in Nat /\ Cardinality(Storing') \in Nat
    BY <1>3 DEF Running, Storing
  <2>2. coined + Cardinality(Storing') <= phoneCalls /\ Cardinality(Running') <= phoneLanes
    BY <1>1, <1>2, <1>4, <2>1 DEF PhoneTyped
  <2>3. QED
    BY <1>1, <1>2, <2>2 DEF PhoneTyped, PhoneTypeOK
<1>6. \A m \in PhoneLane : phoneCall'[m].pc = "check" => phoneCall'[m] = phoneCall[m]
  BY <1>2
<1>7. CodesAreCounted'
  BY <1>1, <1>6 DEF CodesAreCounted
<1>8. GuessesAreFew'
  <2> SUFFICES ASSUME NEW k \in CodeId
               PROVE  wrong[k] + Cardinality(Guessing(k)') < PHONE_CODE_MAX_ATTEMPTS + phoneLanes
    BY DEF GuessesAreFew
  <2>1. wrong[k] \in Nat /\ PHONE_CODE_MAX_ATTEMPTS \in Nat
    BY <1>1, PhoneAssumption DEF PhoneTyped
  <2>2. wrong[k] + Cardinality(Guessing(k)) < PHONE_CODE_MAX_ATTEMPTS + phoneLanes
    BY <1>1 DEF GuessesAreFew
  <2>3. Cardinality(Guessing(k)) \in Nat /\ Cardinality(Guessing(k)') \in Nat
    BY <1>3 DEF Guessing
  <2>4. Cardinality(Guessing(k)') <= Cardinality(Guessing(k))
    BY <1>2
  <2>5. QED
    BY <1>4, <2>1, <2>2, <2>3, <2>4
<1>9. VerifiedNumberIsProven'
  BY <1>1 DEF VerifiedNumberIsProven
<1>10. ReadIsStillSo'
  BY <1>1, <1>6 DEF ReadIsStillSo
<1>11. QED
  BY <1>5, <1>7, <1>8, <1>9, <1>10 DEF PhoneInv

\* A row changes and no lane moves: the number is removed, or its code expires.
LEMMA PhoneRowIsTouched ==
    ASSUME PhoneInv, NEW c \in Caller, NEW row \in PhoneRow, phone' = [phone EXCEPT ![c] = row],
           UNCHANGED <<texted, phoneCall, phoneLanes, phoneCalls, coined, wrong, shown>>,
           \/ row = NoPhone
           \/ /\ row.code = phone[c].code /\ row.attempts = phone[c].attempts
              /\ row.number = phone[c].number /\ row.verified = phone[c].verified
    PROVE  PhoneInv'
<1>1. PhoneTyped /\ CodesAreCounted /\ GuessesAreFew /\ VerifiedNumberIsProven /\ ReadIsStillSo
  BY DEF PhoneInv
<1>2. /\ phone \in [Caller -> PhoneRow] /\ phone'[c] = row /\ \A d \in Caller \ {c} : phone'[d] = phone[d]
      /\ phone' \in [Caller -> PhoneRow]
  BY <1>1 DEF PhoneTyped, PhoneTypeOK
<1>3. \A d \in Caller : phone'[d].number \in {NoNumber, phone[d].number}
  BY <1>2 DEF NoPhone
<1>4. PhoneTyped'
  <2>1. \A d, e \in Caller : d # e /\ phone'[d].number = phone'[e].number => phone'[d].number = NoNumber
    BY <1>1, <1>3 DEF PhoneTyped, PhoneTypeOK
  <2>2. Running' = Running /\ Storing' = Storing
    BY DEF Running, Storing
  <2>3. QED
    BY <1>1, <1>2, <2>1, <2>2 DEF PhoneTyped, PhoneTypeOK
<1>5. CodesAreCounted'
  <2>1. \A d \in Caller : phone'[d].code \in {0, phone[d].code}
    BY <1>2 DEF NoPhone
  <2>2. ASSUME NEW d \in Caller
        PROVE  phone'[d].code <= coined /\ wrong[phone'[d].code] <= phone'[d].attempts
    <3>1. CASE d = c /\ row = NoPhone
      <4>1. phone'[d].code = 0 /\ phone'[d].attempts = 0 /\ wrong[0] = 0 /\ coined \in Nat
        BY <1>1, <1>2, <3>1 DEF NoPhone, CodesAreCounted, PhoneTyped
      <4>2. QED
        BY <4>1
    <3>2. CASE ~(d = c /\ row = NoPhone)
      <4>1. phone'[d].code = phone[d].code /\ phone'[d].attempts = phone[d].attempts
        BY <1>2, <3>2
      <4>2. QED
        BY <1>1, <4>1 DEF CodesAreCounted
    <3>3. QED
      BY <3>1, <3>2
  <2>3. \A d, e \in Caller : d # e /\ phone'[d].code = phone'[e].code => phone'[d].code = 0
    BY <1>1, <2>1 DEF CodesAreCounted
  <2>4. ASSUME NEW m \in PhoneLane, phoneCall[m].pc = "check"
        PROVE  /\ phoneCall[m].read.code \in 1..coined
               /\ \A d \in Caller : phone'[d].code = phoneCall[m].read.code => d = phoneCall[m].who
    <3>1. phoneCall[m].read.code \in 1..coined /\ coined \in Nat
      BY <1>1, <2>4 DEF CodesAreCounted, PhoneTyped
    <3>2. phoneCall[m].read.code # 0
      BY <3>1
    <3>3. QED
      BY <1>1, <2>1, <2>4, <3>1, <3>2 DEF CodesAreCounted
  <2>5. QED
    BY <1>1, <2>2, <2>3, <2>4 DEF CodesAreCounted
<1>6. GuessesAreFew'
  <2>1. \A k \in CodeId : Guessing(k)' = Guessing(k)
    BY DEF Guessing
  <2>2. QED
    BY <1>1, <2>1 DEF GuessesAreFew
<1>7. VerifiedNumberIsProven'
  BY <1>1, <1>2 DEF VerifiedNumberIsProven, NoPhone
<1>8. ReadIsStillSo'
  <2> SUFFICES ASSUME phoneLanes = 1, NEW m \in PhoneLane, phoneCall[m].pc = "check"
               PROVE  phone'[phoneCall[m].who].number \in {NoNumber, phoneCall[m].read.number}
    BY DEF ReadIsStillSo
  <2>1. phoneCall[m] \in PhoneRequest
    BY <1>1 DEF PhoneTyped
  <2>2. phoneCall[m].who \in Caller
    BY <2>1, KindOfPhoneRequest
  <2>3. QED
    BY <1>1, <1>3, <2>2 DEF ReadIsStillSo
<1>9. QED
  BY <1>4, <1>5, <1>6, <1>7, <1>8 DEF PhoneInv

\* A new code is one there was none of: it belongs to its row alone.
LEMMA NumberIsStored ==
    ASSUME PhoneInv, NEW l \in PhoneLane, StoreNumber(l), HeldBy(phoneCall[l].number) \subseteq {phoneCall[l].who}
    PROVE  PhoneInv'
<1> DEFINE c == phoneCall[l].who
           n == phoneCall[l].number
           row == [NoPhone EXCEPT !.number = n, !.code = coined + 1]
           step == [pc |-> "text", code |-> coined + 1, number |-> n]
<1>1. PhoneTyped /\ CodesAreCounted /\ GuessesAreFew /\ VerifiedNumberIsProven /\ ReadIsStillSo
  BY DEF PhoneInv
<1>2. /\ phoneCall[l].pc = "store" /\ coined' = coined + 1 /\ phone' = [phone EXCEPT ![c] = row]
      /\ phoneCall' = [phoneCall EXCEPT ![l] = step]
      /\ UNCHANGED <<phoneLanes, phoneCalls, texted, wrong, shown>>
  BY DEF StoreNumber, GoOn
<1>3. c \in Caller /\ n \in Number /\ phoneCall[l] # Free
  BY <1>1, <1>2, KindOfPhoneRequest DEF PhoneTyped, Free
<1>4. /\ \A S \in SUBSET PhoneLane : IsFiniteSet(S) /\ Cardinality(S) \in Nat
      /\ CodeId \subseteq Nat /\ 0 \in CodeId /\ phoneLanes \in Nat /\ phoneCalls \in Nat
      /\ \A k \in Nat : k <= phoneCalls => k \in CodeId
  BY <1>1, PhoneNumbers
<1>5. coined \in Nat /\ coined + Cardinality(Storing) <= phoneCalls
  BY <1>1 DEF PhoneTyped
<1>6. Cardinality(Storing) \in Nat /\ Cardinality(Storing) # 0
  <2>1. l \in Storing /\ Storing \subseteq PhoneLane
    BY <1>2 DEF Storing
  <2>2. IsFiniteSet(Storing) /\ Cardinality(Storing) \in Nat
    BY <1>4, <2>1
  <2>3. QED
    BY <2>1, <2>2, FS_EmptySet
<1>7. coined + 1 \in CodeId
  <2>1. coined + 1 <= phoneCalls /\ coined + 1 \in Nat
    BY <1>4, <1>5, <1>6
  <2>2. QED
    BY <1>4, <2>1
<1>8. row \in PhoneRow /\ row.number = n /\ row.code = coined + 1 /\ row.attempts = 0 /\ row.verified = FALSE
  BY <1>3, <1>7 DEF PhoneRow, NoPhone
<1>9. PhoneGoes(l, step) /\ step.pc = "text"
  <2>1. step \in TextRequest
    BY <1>3, <1>7 DEF TextRequest
  <2>2. QED
    BY <1>2, <2>1 DEF PhoneGoes, PhoneRequest
<1> HIDE DEF step, row
<1>10. /\ phoneCall' \in [PhoneLane -> PhoneRequest]
       /\ phoneCall'[l] = step /\ \A m \in PhoneLane \ {l} : phoneCall'[m] = phoneCall[m]
       /\ Cardinality(Running') <= Cardinality(Running)
       /\ Cardinality(Storing') = Cardinality(Storing) - 1
       /\ \A k : Cardinality(Guessing(k)') <= Cardinality(Guessing(k))
  BY <1>1, <1>2, <1>3, <1>9, LanesGoOn
<1>11. /\ phone \in [Caller -> PhoneRow] /\ phone'[c] = row /\ \A d \in Caller \ {c} : phone'[d] = phone[d]
       /\ phone' \in [Caller -> PhoneRow]
  BY <1>1, <1>2, <1>3, <1>8 DEF PhoneTyped, PhoneTypeOK
<1>12. PhoneTyped'
  <2>1. \A d, e \in Caller : d # e /\ phone'[d].number = phone'[e].number => phone'[d].number = NoNumber
    <3>1. \A d \in Caller \ {c} : phone[d].number # n
      BY DEF HeldBy
    <3>2. QED
      BY <1>1, <1>8, <1>11, <3>1 DEF PhoneTyped, PhoneTypeOK
  <2>2. coined' \in Nat /\ coined' + Cardinality(Storing') <= phoneCalls
    BY <1>2, <1>4, <1>5, <1>6, <1>10
  <2>3. Cardinality(Running') <= phoneLanes
    <3>1. Cardinality(Running) \in Nat /\ Cardinality(Running') \in Nat
      BY <1>4 DEF Running
    <3>2. QED
      BY <1>1, <1>4, <1>10, <3>1 DEF PhoneTyped
  <2>4. QED
    BY <1>1, <1>2, <1>10, <1>11, <2>1, <2>2, <2>3 DEF PhoneTyped, PhoneTypeOK
<1>13. \A m \in PhoneLane : phoneCall'[m].pc = "check" => m # l /\ phoneCall'[m] = phoneCall[m]
  BY <1>9, <1>10
<1>14. \A d \in Caller : phone[d].code \in Nat /\ phone[d].code <= coined
  BY <1>1, <1>4 DEF PhoneTyped, PhoneTypeOK, PhoneRow, CodesAreCounted
<1>15. CodesAreCounted'
  <2>1. wrong[coined + 1] = 0
    BY <1>1, <1>5, <1>7 DEF CodesAreCounted
  <2>2. ASSUME NEW d \in Caller
        PROVE  phone'[d].code <= coined' /\ wrong[phone'[d].code] <= phone'[d].attempts
    <3>1. CASE d = c
      BY <1>2, <1>5, <1>8, <1>11, <2>1, <3>1
    <3>2. CASE d # c
      <4>1. phone'[d] = phone[d] /\ phone[d].code \in Nat /\ phone[d].code <= coined
        BY <1>11, <1>14, <3>2
      <4>2. QED
        BY <1>1, <1>2, <1>5, <4>1 DEF CodesAreCounted
    <3>3. QED
      BY <3>1, <3>2
  <2>3. ASSUME NEW d \in Caller, NEW e \in Caller, d # e, phone'[d].code = phone'[e].code
        PROVE  phone'[d].code = 0
    <3>1. \A f \in Caller : phone[f].code # coined + 1
      BY <1>5, <1>14
    <3>2. d # c /\ e # c
      BY <1>8, <1>11, <2>3, <3>1
    <3>3. QED
      BY <1>1, <1>11, <2>3, <3>2 DEF CodesAreCounted
  <2>4. \A k \in CodeId : k > coined' => wrong[k] = 0
    <3>1. \A k \in CodeId : k > coined + 1 => k > coined
      BY <1>4, <1>5
    <3>2. QED
      BY <1>1, <1>2, <3>1 DEF CodesAreCounted
  <2>5. ASSUME NEW m \in PhoneLane, phoneCall'[m].pc = "check"
        PROVE  /\ phoneCall'[m].read.code \in 1..coined'
               /\ \A d \in Caller : phone'[d].code = phoneCall'[m].read.code => d = phoneCall'[m].who
    <3>1. phoneCall'[m] = phoneCall[m] /\ phoneCall[m].pc = "check"
      BY <1>13, <2>5
    <3>2. phoneCall[m].read.code \in 1..coined
      BY <1>1, <3>1 DEF CodesAreCounted
    <3>3. phoneCall[m].read.code # coined + 1 /\ phoneCall[m].read.code \in 1..coined'
      BY <1>2, <1>5, <3>2
    <3>4. QED
      BY <1>1, <1>8, <1>11, <3>1, <3>3 DEF CodesAreCounted
  <2>6. QED
    BY <1>1, <1>2, <2>2, <2>3, <2>4, <2>5 DEF CodesAreCounted
<1>16. GuessesAreFew'
  <2> SUFFICES ASSUME NEW k \in CodeId
               PROVE  wrong[k] + Cardinality(Guessing(k)') < PHONE_CODE_MAX_ATTEMPTS + phoneLanes
    BY <1>2 DEF GuessesAreFew
  <2>1. wrong[k] \in Nat /\ PHONE_CODE_MAX_ATTEMPTS \in Nat
    BY <1>1, PhoneAssumption DEF PhoneTyped
  <2>2. wrong[k] + Cardinality(Guessing(k)) < PHONE_CODE_MAX_ATTEMPTS + phoneLanes
    BY <1>1 DEF GuessesAreFew
  <2>3. Cardinality(Guessing(k)) \in Nat /\ Cardinality(Guessing(k)') \in Nat
    BY <1>4 DEF Guessing
  <2>4. Cardinality(Guessing(k)') <= Cardinality(Guessing(k))
    BY <1>10
  <2>5. QED
    BY <1>4, <2>1, <2>2, <2>3, <2>4
<1>17. VerifiedNumberIsProven'
  BY <1>1, <1>2, <1>8, <1>11 DEF VerifiedNumberIsProven
<1>18. ReadIsStillSo'
  <2> SUFFICES ASSUME phoneLanes = 1
               PROVE  \A m \in PhoneLane : phoneCall'[m].pc # "check"
    BY <1>2 DEF ReadIsStillSo
  <2>1. l \in Running /\ IsFiniteSet(Running) /\ Cardinality(Running) \in Nat /\ Cardinality(Running) <= 1
    BY <1>1, <1>3, <1>4 DEF Running, PhoneTyped
  <2>2. Cardinality(Running \ {l}) = 0 /\ IsFiniteSet(Running \ {l})
    <3>1. Cardinality(Running \ {l}) = Cardinality(Running) - 1
      BY <2>1, OneMore
    <3>2. Cardinality(Running \ {l}) \in Nat /\ IsFiniteSet(Running \ {l})
      BY <1>4 DEF Running
    <3>3. QED
      BY <2>1, <3>1, <3>2
  <2>3. Running \ {l} = {}
    BY <2>2, FS_EmptySet
  <2>4. QED
    BY <1>13, <2>3 DEF Running, Free
<1>19. QED
  BY <1>12, <1>15, <1>16, <1>17, <1>18 DEF PhoneInv

LEMMA PhoneStep == PhoneInv /\ [PhoneNext]_phoneVars => PhoneInv'
<1> SUFFICES ASSUME PhoneInv, [PhoneNext]_phoneVars
             PROVE  PhoneInv'
  OBVIOUS
<1>1. /\ PhoneTyped /\ CodesAreCounted /\ VerifiedNumberIsProven /\ ReadIsStillSo
      /\ phone \in [Caller -> PhoneRow] /\ \A l \in PhoneLane : phoneCall[l] \in PhoneRequest
      /\ texted \subseteq [code : CodeId, number : Number]
  BY DEF PhoneInv, PhoneTyped, PhoneTypeOK
<1>2. 0 \in CodeId /\ Free.pc = "idle" /\ Free \in PhoneRequest
  BY <1>1, PhoneNumbers DEF Free, PhoneRequest
<1>3. ASSUME NEW l \in PhoneLane, NEW c \in Caller, NEW n \in Number, StartPhone(l, c, n)
      PROVE  PhoneInv'
  <2>1. PICK s : s = [pc |-> "store", who |-> c, number |-> n]
    OBVIOUS
  <2>2. BeginPhone(l, s) /\ s \in StoreRequest /\ s.pc # "check"
    BY <1>3, <2>1 DEF StartPhone, StoreRequest
  <2>3. QED
    BY <2>2, PhoneBegins
<1>4. ASSUME NEW l \in PhoneLane, NEW c \in Caller, NEW guess \in {t.code : t \in texted} \cup {0},
             ConfirmPhone(l, c, guess)
      PROVE  PhoneInv'
  <2>1. PICK s : s = [pc |-> "check", who |-> c, guess |-> guess, read |-> phone[c]]
    OBVIOUS
  <2>2. guess \in CodeId /\ phone[c] \in PhoneRow
    BY <1>1, <1>2
  <2>3. s \in CheckRequest /\ s.who = c /\ s.read = phone[c]
    BY <2>1, <2>2 DEF CheckRequest
  <2>4. /\ BeginPhone(l, s) /\ s.read.code # 0 /\ s.read.attempts < PHONE_CODE_MAX_ATTEMPTS
    BY <1>4, <2>1, <2>3 DEF ConfirmPhone
  <2>5. QED
    BY <2>3, <2>4, PhoneBegins
<1>5. ASSUME NEW l \in PhoneLane, StoreNumber(l)
      PROVE  PhoneInv'
  <2>1. CASE HeldBy(phoneCall[l].number) \subseteq {phoneCall[l].who}
    BY <1>5, <2>1, NumberIsStored
  <2>2. CASE ~(HeldBy(phoneCall[l].number) \subseteq {phoneCall[l].who})
    <3>1. /\ phoneCall' = [phoneCall EXCEPT ![l] = Free] /\ phoneCall[l] # Free
          /\ UNCHANGED <<phone, texted, coined, wrong, shown, phoneLanes, phoneCalls>>
      BY <1>5, <2>2 DEF StoreNumber, GoOn, Free
    <3>2. PhoneGoes(l, Free)
      BY <1>2, <3>1 DEF PhoneGoes
    <3>3. QED
      BY <1>1, <1>2, <3>1, <3>2, PhoneRowsStand
  <2>3. QED
    BY <2>1, <2>2
<1>6. ASSUME NEW l \in PhoneLane, TextCode(l)
      PROVE  PhoneInv'
  <2>1. /\ phoneCall' = [phoneCall EXCEPT ![l] = Free] /\ phoneCall[l] # Free /\ phoneCall[l].pc = "text"
        /\ texted' \in {texted, texted \cup {[code |-> phoneCall[l].code, number |-> phoneCall[l].number]}}
        /\ UNCHANGED <<phone, coined, wrong, shown, phoneLanes, phoneCalls>>
    BY <1>6 DEF TextCode, GoOn, Free
  <2>2. phoneCall[l].code \in CodeId /\ phoneCall[l].number \in Number
    BY <1>1, <2>1, KindOfPhoneRequest
  <2>3. PhoneGoes(l, Free) /\ texted' \subseteq [code : CodeId, number : Number]
    BY <1>1, <1>2, <2>1, <2>2 DEF PhoneGoes
  <2>4. QED
    BY <1>2, <2>1, <2>3, PhoneRowsStand
<1>7. ASSUME NEW l \in PhoneLane, CountWrongCode(l)
      PROVE  PhoneInv'
  <2> DEFINE c == phoneCall[l].who
             row == [phone[c] EXCEPT !.attempts = @ + 1]
  <2>1. /\ phoneCall[l].pc = "check" /\ phoneCall[l] # Free /\ phoneCall' = [phoneCall EXCEPT ![l] = Free]
        /\ phone' = [phone EXCEPT ![c] = row]
        /\ wrong' = [wrong EXCEPT ![phoneCall[l].read.code] = @ + 1]
        /\ UNCHANGED <<texted, coined, shown, phoneLanes, phoneCalls>>
    BY <1>7 DEF CountWrongCode, GoOn, Free
  <2>2. c \in Caller
    BY <1>1, <2>1, KindOfPhoneRequest
  <2>3. phone[c] \in PhoneRow
    BY <1>1, <2>2
  <2>4. /\ row \in PhoneRow /\ row.code = phone[c].code /\ row.attempts = phone[c].attempts + 1
        /\ row.number = phone[c].number /\ row.verified = phone[c].verified /\ phone[c].attempts \in Nat
    BY <2>3 DEF PhoneRow
  <2>5. PhoneGoes(l, Free) /\ l \in Guessing(phoneCall[l].read.code)
    BY <1>2, <2>1 DEF PhoneGoes, Guessing
  <2>6. phoneLanes = 1 /\ row.verified => row.number = NoNumber \/ <<c, row.number>> \in shown
    BY <1>1, <2>2, <2>4 DEF VerifiedNumberIsProven
  <2>7. phone[c].attempts <= row.attempts
    BY <2>4
  <2> HIDE DEF row
  <2>8. QED
    BY <1>1, <1>2, <2>1, <2>2, <2>4, <2>5, <2>6, <2>7, PhoneRowChanges
<1>8. ASSUME NEW l \in PhoneLane, MarkPhoneVerified(l)
      PROVE  PhoneInv'
  <2> DEFINE c == phoneCall[l].who
             row == [NoPhone EXCEPT !.number = phone[c].number, !.verified = TRUE]
  <2>1. /\ phoneCall[l].pc = "check" /\ phoneCall[l] # Free /\ phoneCall' = [phoneCall EXCEPT ![l] = Free]
        /\ phone' = [phone EXCEPT ![c] = row] /\ shown' = shown \cup {<<c, phoneCall[l].read.number>>}
        /\ UNCHANGED <<texted, coined, wrong, phoneLanes, phoneCalls>>
    BY <1>8 DEF MarkPhoneVerified, GoOn, Free
  <2>2. c \in Caller
    BY <1>1, <2>1, KindOfPhoneRequest
  <2>3. phone[c] \in PhoneRow
    BY <1>1, <2>2
  <2>4. row \in PhoneRow /\ row.code = 0 /\ row.number = phone[c].number
    BY <1>2, <2>3 DEF PhoneRow, NoPhone
  <2>5. PhoneGoes(l, Free)
    BY <1>2, <2>1 DEF PhoneGoes
  <2>6. phoneLanes = 1 => row.number = NoNumber \/ <<c, row.number>> \in shown'
    BY <1>1, <2>1, <2>2, <2>4 DEF ReadIsStillSo
  <2>7. shown \subseteq shown'
    BY <2>1
  <2> HIDE DEF row
  <2>8. QED
    BY <1>1, <1>2, <2>1, <2>2, <2>4, <2>5, <2>6, <2>7, PhoneRowChanges
<1>9. ASSUME NEW c \in Caller, RemovePhone(c) \/ PhoneCodeExpires(c)
      PROVE  PhoneInv'
  <2>1. NoPhone \in PhoneRow
    BY <1>2 DEF PhoneRow, NoPhone
  <2>2. CASE RemovePhone(c)
    BY <2>1, <2>2, PhoneRowIsTouched DEF RemovePhone
  <2>3. CASE PhoneCodeExpires(c)
    <3>1. PICK row : row = [phone[c] EXCEPT !.expired = TRUE]
      OBVIOUS
    <3>2. phone[c] \in PhoneRow
      BY <1>1
    <3>3. /\ row \in PhoneRow /\ row.code = phone[c].code /\ row.attempts = phone[c].attempts
          /\ row.number = phone[c].number /\ row.verified = phone[c].verified
      BY <3>1, <3>2 DEF PhoneRow
    <3>4. /\ phone' = [phone EXCEPT ![c] = row]
          /\ UNCHANGED <<texted, phoneCall, phoneLanes, phoneCalls, coined, wrong, shown>>
      BY <2>3, <3>1 DEF PhoneCodeExpires
    <3>5. QED
      BY <3>3, <3>4, PhoneRowIsTouched
  <2>4. QED
    BY <1>9, <2>2, <2>3
<1>10. CASE UNCHANGED phoneVars
  <2>1. /\ Running' = Running /\ Storing' = Storing /\ \A k : Guessing(k)' = Guessing(k)
    BY <1>10 DEF Running, Storing, Guessing, phoneVars
  <2>2. QED
    BY <1>10, <2>1 DEF phoneVars, PhoneInv, PhoneTyped, PhoneTypeOK, CodesAreCounted, GuessesAreFew,
                       VerifiedNumberIsProven, ReadIsStillSo
<1>11. QED
  BY <1>3, <1>4, <1>5, <1>6, <1>7, <1>8, <1>9, <1>10 DEF PhoneNext

LEMMA PhoneStarts == PhoneInit => PhoneInv
<1> SUFFICES ASSUME PhoneInit
             PROVE  PhoneInv
  OBVIOUS
<1>1. /\ phone = [c \in Caller |-> NoPhone] /\ texted = {} /\ phoneCall = [l \in PhoneLane |-> Free]
      /\ phoneLanes \in 1..Cardinality(PhoneLane) /\ phoneCalls = 0 /\ coined = 0 /\ wrong = [k \in CodeId |-> 0]
  BY DEF PhoneInit
<1>2. Cardinality(PhoneLane) \in Nat
  BY PhoneAssumption, FS_CardinalityType
<1>3. phoneLanes \in Nat /\ phoneLanes # 0 /\ PhoneBound[phoneLanes] \in Nat
  BY <1>1, <1>2, PhoneAssumption
<1>4. 0 \in CodeId
  <2>1. 0 \in 0..PhoneBound[phoneLanes]
    BY <1>3
  <2>2. QED
    BY <1>1, <2>1 DEF CodeId
<1>5. NoPhone \in PhoneRow /\ NoPhone.number = NoNumber /\ NoPhone.code = 0 /\ NoPhone.attempts = 0
      /\ NoPhone.verified = FALSE
  BY <1>4 DEF NoPhone, PhoneRow
<1>6. \A c \in Caller : phone[c] = NoPhone
  BY <1>1
<1>7. \A l \in PhoneLane : phoneCall[l] = Free /\ phoneCall[l].pc = "idle"
  BY <1>1 DEF Free
<1>8. Running = {} /\ Storing = {} /\ \A k : Guessing(k) = {}
  BY <1>7 DEF Running, Storing, Guessing
<1>9. Cardinality({}) = 0
  BY FS_EmptySet
<1>10. PhoneTyped
  <2>1. PhoneTypeOK
    BY <1>1, <1>5, <1>6 DEF PhoneTypeOK
  <2>2. phoneCalls \in 0..PhoneBound[phoneLanes]
    BY <1>1, <1>3
  <2>3. phoneCall \in [PhoneLane -> PhoneRequest]
    BY <1>1 DEF PhoneRequest
  <2>4. Cardinality(Storing) = 0 /\ Cardinality(Running) = 0
    BY <1>8, <1>9
  <2>5. QED
    BY <1>1, <1>3, <2>1, <2>2, <2>3, <2>4 DEF PhoneTyped
<1>11. CodesAreCounted
  BY <1>1, <1>4, <1>5, <1>6, <1>7 DEF CodesAreCounted
<1>12. GuessesAreFew
  <2>1. \A k \in CodeId : wrong[k] = 0 /\ Cardinality(Guessing(k)) = 0
    BY <1>1, <1>8, <1>9
  <2>2. PHONE_CODE_MAX_ATTEMPTS \in Nat
    BY PhoneAssumption
  <2>3. QED
    BY <1>3, <2>1, <2>2 DEF GuessesAreFew
<1>13. VerifiedNumberIsProven /\ ReadIsStillSo
  BY <1>5, <1>6, <1>7 DEF VerifiedNumberIsProven, ReadIsStillSo
<1>14. QED
  BY <1>10, <1>11, <1>12, <1>13 DEF PhoneInv

\* However the requests of startPhoneVerification, confirmPhone and removePhone
\* overlap, a code belongs to one row, which counts every wrong guess at it.
THEOREM PhoneInvariance == PhoneSpec => []PhoneInv
<1>1. PhoneInit => PhoneInv
  BY PhoneStarts
<1>2. PhoneInv /\ [PhoneNext]_phoneVars => PhoneInv'
  BY PhoneStep
<1>3. QED
  BY <1>1, <1>2, PTL DEF PhoneSpec

\* The unique index on phoneHash: no number is on two accounts.
THEOREM NumbersAreUnique == PhoneSpec => []PhoneTypeOK
<1>1. PhoneInv => PhoneTypeOK
  BY DEF PhoneInv, PhoneTyped
<1>2. QED
  BY <1>1, PhoneInvariance, PTL

\* confirmPhone marks the number whose code was entered, as long as nothing
\* overlaps it.
THEOREM NumberIsProven == PhoneSpec => []VerifiedNumberIsProven
<1>1. PhoneInv => VerifiedNumberIsProven
  BY DEF PhoneInv
<1>2. QED
  BY <1>1, PhoneInvariance, PTL

\* The limit of confirmPhone is overrun by the requests in flight alone.
THEOREM CodesAreNotGuessed == PhoneSpec => []PhoneGuessesAreCapped
<1>1. PhoneInv => PhoneGuessesAreCapped
  <2> SUFFICES ASSUME PhoneInv, NEW k \in CodeId
               PROVE  wrong[k] < PHONE_CODE_MAX_ATTEMPTS + phoneLanes
    BY DEF PhoneGuessesAreCapped
  <2>1. wrong[k] + Cardinality(Guessing(k)) < PHONE_CODE_MAX_ATTEMPTS + phoneLanes
    BY DEF PhoneInv, GuessesAreFew
  <2>2. wrong[k] \in Nat /\ PHONE_CODE_MAX_ATTEMPTS \in Nat
    BY PhoneAssumption DEF PhoneInv, PhoneTyped
  <2>3. phoneLanes \in Nat /\ Cardinality(Guessing(k)) \in Nat
    BY PhoneNumbers DEF PhoneInv, Guessing
  <2>4. QED
    BY <2>1, <2>2, <2>3
<1>2. QED
  BY <1>1, PhoneInvariance, PTL

\* confirmPhone takes the code away in the statement that marks the number.
THEOREM TextedCodeWorksOnce == PhoneSpec => PhoneCodeWorksOnce
<1>1. PhoneInv /\ [PhoneNext]_phoneVars =>
          [\A c \in Caller : ~phone[c].verified /\ phone'[c].verified => phone'[c].code = 0]_phoneVars
  <2> SUFFICES ASSUME PhoneInv, PhoneNext, NEW c \in Caller, ~phone[c].verified, phone'[c].verified
               PROVE  phone'[c].code = 0
    BY DEF phoneVars
  <2>1. phone \in [Caller -> PhoneRow] /\ \A l \in PhoneLane : phoneCall[l] \in PhoneRequest
    BY DEF PhoneInv, PhoneTyped, PhoneTypeOK
  <2>2. ASSUME NEW l \in PhoneLane, StoreNumber(l)
        PROVE  FALSE
    <3>1. UNCHANGED phone \/ \E who, n : phone' = [phone EXCEPT ![who] = [NoPhone EXCEPT !.number = n, !.code = coined']]
      BY <2>2 DEF StoreNumber
    <3>2. QED
      BY <2>1, <3>1 DEF NoPhone
  <2>3. ASSUME NEW l \in PhoneLane, CountWrongCode(l)
        PROVE  FALSE
    BY <2>1, <2>3 DEF CountWrongCode, PhoneRow
  <2>4. ASSUME NEW l \in PhoneLane, MarkPhoneVerified(l)
        PROVE  phone'[c].code = 0
    BY <2>1, <2>4 DEF MarkPhoneVerified, NoPhone
  <2>5. ASSUME NEW d \in Caller, RemovePhone(d) \/ PhoneCodeExpires(d)
        PROVE  FALSE
    BY <2>1, <2>5 DEF RemovePhone, PhoneCodeExpires, NoPhone, PhoneRow
  <2>6. ASSUME NEW l \in PhoneLane, NEW d \in Caller,
               \/ \E n \in Number : StartPhone(l, d, n)
               \/ \E guess \in {t.code : t \in texted} \cup {0} : ConfirmPhone(l, d, guess)
        PROVE  FALSE
    BY <2>6 DEF StartPhone, ConfirmPhone, BeginPhone
  <2>7. ASSUME NEW l \in PhoneLane, TextCode(l)
        PROVE  FALSE
    BY <2>7 DEF TextCode
  <2>8. QED
    BY <2>2, <2>3, <2>4, <2>5, <2>6, <2>7 DEF PhoneNext
<1>2. QED
  BY <1>1, PhoneInvariance, PTL DEF PhoneSpec, PhoneCodeWorksOnce

---------------------------------------------------------------------------
(* The whole                                                               *)

OneConcern == concern \in Concerns

LEMMA ConcernStays == OneConcern /\ [IdentityNext]_identityVars => OneConcern'
BY DEF OneConcern, IdentityNext, identityVars

\* The part in use takes its step and the others stand still, so the whole
\* behaves as each of them.
LEMMA PartsStep ==
    ASSUME [IdentityNext]_identityVars
    PROVE  /\ [SignInNext]_signInVars /\ [TokensNext]_tokenVars /\ [LinkingNext]_linkingVars
           /\ [PhoneNext]_phoneVars /\ [GateNext]_gateVars /\ [EntranceNext]_entranceVars
           /\ [ContactNext]_contactVars
BY DEF IdentityNext, identityVars

LEMMA PartsBehave ==
    IdentitySpec => /\ SignInSpec /\ TokensSpec /\ LinkingSpec /\ PhoneSpec
                    /\ GateSpec /\ EntranceSpec /\ ContactSpec
<1>1. IdentityInit => /\ SignInInit /\ TokensInit /\ LinkingInit /\ PhoneInit
                      /\ GateInit /\ EntranceInit /\ ContactInit
  BY DEF IdentityInit
<1>2. [IdentityNext]_identityVars =>
          /\ [SignInNext]_signInVars /\ [TokensNext]_tokenVars /\ [LinkingNext]_linkingVars
          /\ [PhoneNext]_phoneVars /\ [GateNext]_gateVars /\ [EntranceNext]_entranceVars
          /\ [ContactNext]_contactVars
  BY PartsStep
<1>3. QED
  BY <1>1, <1>2, PTL
     DEF IdentitySpec, SignInSpec, TokensSpec, LinkingSpec, PhoneSpec, GateSpec, EntranceSpec, ContactSpec

\* Every row and call has its shape: no two accounts share an address or a
\* number, and no part touches the rows of another.
THEOREM IdentityTypeInvariance == IdentitySpec => []IdentityTypeOK
<1>1. IdentitySpec => []OneConcern
  <2>1. IdentityInit => OneConcern
    BY DEF IdentityInit, OneConcern
  <2>2. QED
    BY <2>1, ConcernStays, PTL DEF IdentitySpec
<1>2. LinkingInv => LinkingTypeOK
  BY DEF LinkingInv, StateIsTyped
<1>3. EntranceInv => EntranceTypeOK
  BY DEF EntranceInv
<1>4. ContactInv => ContactTypeOK
  BY DEF ContactInv
<1>5. /\ OneConcern /\ SignInTypeOK /\ TokensTypeOK /\ LinkingTypeOK /\ PhoneTypeOK
      /\ EntranceTypeOK /\ ContactTypeOK
      => IdentityTypeOK
  BY DEF OneConcern, IdentityTypeOK
<1>6. QED
  BY <1>1, <1>2, <1>3, <1>4, <1>5, PartsBehave, SignInTypeInvariance, TypeInvariance, LinkingInvariance,
     NumbersAreUnique, EntranceInvariance, ContactInvariance, PTL

\* resetPassword bumps the version sessions are checked against, authorize
\* locks only after MAX failures in a row and counts every failure that
\* nothing overlaps, and only a code makes a device trusted.
THEOREM SessionsFollow == IdentitySpec => []SessionsFollowTheAccount
<1>1. SessionsDieWithReset /\ NobodyIsLockedForNothing /\ FailuresAreCounted /\ TrustedDeviceShowedACode
      => SessionsFollowTheAccount
  BY DEF SessionsFollowTheAccount
<1>2. QED
  BY <1>1, PartsBehave, ResetsEndSessions, LocksAreEarned, EveryFailureCounts, TrustIsShown, PTL

\* The counters of lib/auth/mfa.ts and lib/phone.ts cap the guesses, codes are
\* burned with the sign-in they let through, a new set of recovery codes takes
\* the place of the old one, and an app is enrolled by a code it has shown.
THEOREM CodesAreSound == IdentitySpec => []CodesHold
<1>1. /\ GuessesAreCapped /\ OneUseAlone /\ OnlyTheLastSetWorks /\ EnrolledAppIsProven
      /\ PhoneGuessesAreCapped
      => CodesHold
  BY DEF CodesHold
<1>2. QED
  BY <1>1, PartsBehave, GuessesStayCapped, CodesWorkOnce, OldSetsAreDead, AppIsProven, CodesAreNotGuessed, PTL

\* Addresses by link, numbers by text, Google identities by consent or by an
\* address both sides verified: each is proved to be its owner's, and nobody
\* is left without a way to sign in.
THEOREM IdentitiesAreProven == IdentitySpec => []IdentityIsProven
<1>1. /\ FewLinksOutstanding /\ VerifiedAddressIsProven /\ VerifiedNumberIsProven
      /\ NoUnprovenMerge /\ ConsentPrecedesAccount /\ WayBackIn /\ ContactHolds
      => IdentityIsProven
  BY DEF IdentityIsProven
<1>2. QED
  BY <1>1, PartsBehave, LinksStayFew, VerifiedIsProven, NumberIsProven, NoMergeWithoutProof,
     ConsentComesFirst, EveryoneGetsBackIn, ContactIsSound, PTL

\* The rules of proxy.ts redirect once at most and let nobody without the
\* role into the dashboard, and the login form signs in one person a press.
THEOREM GateIsSound == IdentitySpec => []GateHolds
<1>1. RedirectsEnd /\ DashboardIsGuarded /\ EntranceHolds => GateHolds
  BY DEF GateHolds
<1>2. QED
  BY <1>1, PartsBehave, NoCircles, OnlyStaffPass, EntranceIsSound, PTL

\* "Single use, whether it worked or not" (lib/auth/tokens.ts), of the whole.
THEOREM LinksWorkOnce == IdentitySpec => LinksAreOneTime
BY PartsBehave, LinksAreSecrets, PTL

\* A session without the second factor is of a trusted device, a Google
\* identity changes hands only by being released, an account moves where it
\* asked to last, and a texted code goes with its use.
THEOREM NobodyGoesAround == IdentitySpec => NoWayAround
<1>1. FactorIsAsked /\ NoLinkIsTakenOver /\ LastAskedWins /\ PhoneCodeWorksOnce => NoWayAround
  BY DEF NoWayAround
<1>2. QED
  BY <1>1, PartsBehave, FactorIsAlwaysAsked, LinksAreNotTakenOver, MovesWhereAsked, TextedCodeWorksOnce, PTL
=============================================================================
