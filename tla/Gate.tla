-------------------------------- MODULE Gate --------------------------------
(***************************************************************************)
(* The request gate, proxy.ts: what a page navigation is answered with, by *)
(* who is asking.  A visitor follows the redirects they are given, and may *)
(* do what the page they were sent to asks of them.                        *)
(***************************************************************************)
EXTENDS Naturals

CONSTANT HopBound   \* bound of the model: redirects in a row

VARIABLES
    visitor,        \* the session the request carries
    page,           \* the page being asked for
    hops            \* redirects since the visitor chose a page

gateVars == <<visitor, page, hops>>

AdminPages == {"/dashboard/users", "/dashboard/settings", "/dashboard/audit-log",
               "/dashboard/categories", "/dashboard/roles"}
StaffPages == {"/dashboard", "/dashboard/mfa", "/dashboard/articles"} \cup AdminPages
OpenWhileChanging == {"/account/password", "/login", "/register"}
Page == StaffPages \cup OpenWhileChanging \cup {"/", "/account"}

STAFF_ROLES == {"MODERATOR", "ADMIN"}

\* What the jwt callback puts in a session; nobody uses an app without a
\* second factor.
Visitor ==
    {v \in [signedIn : BOOLEAN, role : {"READER"} \cup STAFF_ROLES, mfaEnabled : BOOLEAN,
            mfaUsesApp : BOOLEAN, verifies : BOOLEAN, mustChangePassword : BOOLEAN] :
        v.mfaUsesApp => v.mfaEnabled}

Staff(v) == v.role \in STAFF_ROLES
LacksFactor(v) ==
    \/ Staff(v) /\ ~v.mfaEnabled
    \/ v.role = "ADMIN" /\ ~v.mfaUsesApp
    \/ v.verifies /\ ~v.mfaEnabled

Serve == "served"

\* Mutant: the enrolment page is behind the factor as well.
RedirectEverywhere(v, p) ==
    IF v.signedIn /\ v.mustChangePassword /\ p \notin OpenWhileChanging
    THEN "/account/password"
    ELSE IF p \notin StaffPages THEN Serve
    ELSE IF ~v.signedIn THEN "/login"
    ELSE IF ~Staff(v) THEN "/"
    ELSE IF LacksFactor(v) THEN "/dashboard/mfa"
    ELSE IF p \in AdminPages /\ v.role # "ADMIN" THEN "/dashboard"
    ELSE Serve

\* Mutant: the role decides before the second factor is looked at.
RedirectByRole(v, p) ==
    IF v.signedIn /\ v.mustChangePassword /\ p \notin OpenWhileChanging
    THEN "/account/password"
    ELSE IF p \notin StaffPages THEN Serve
    ELSE IF ~v.signedIn THEN "/login"
    ELSE IF ~Staff(v) THEN "/"
    ELSE IF p \in AdminPages THEN IF v.role = "ADMIN" THEN Serve ELSE "/dashboard"
    ELSE IF LacksFactor(v) /\ p # "/dashboard/mfa" THEN "/dashboard/mfa"
    ELSE Serve

\* Where a navigation is sent instead, in the order of the rules.
Redirect(v, p) ==
    IF v.signedIn /\ v.mustChangePassword /\ p \notin OpenWhileChanging
    THEN "/account/password"
    ELSE IF p \notin StaffPages THEN Serve
    ELSE IF ~v.signedIn THEN "/login"
    ELSE IF ~Staff(v) THEN "/"
    ELSE IF LacksFactor(v) /\ p # "/dashboard/mfa" THEN "/dashboard/mfa"
    ELSE IF p \in AdminPages /\ v.role # "ADMIN" THEN "/dashboard"
    ELSE Serve

Served == Redirect(visitor, page) = Serve

GateInit == visitor \in Visitor /\ page \in Page /\ hops = 0

FollowRedirect ==
    /\ ~Served /\ hops < HopBound
    /\ page' = Redirect(visitor, page) /\ hops' = hops + 1
    /\ UNCHANGED visitor

Navigate ==
    /\ Served /\ hops' = 0
    /\ page' \in Page \ {page}
    /\ UNCHANGED visitor

\* The pages a redirect ends at let the visitor put right what is missing.
PutRight ==
    /\ Served /\ visitor.signedIn
    /\ \/ page = "/account/password" /\ visitor.mustChangePassword
          /\ visitor' = [visitor EXCEPT !.mustChangePassword = FALSE]
       \/ page = "/dashboard/mfa" /\ ~visitor.mfaUsesApp
          /\ visitor' = [visitor EXCEPT !.mfaEnabled = TRUE, !.mfaUsesApp = TRUE]
    /\ UNCHANGED <<page, hops>>

GateNext == FollowRedirect \/ Navigate \/ PutRight

GateSpec == GateInit /\ [][GateNext]_gateVars

---------------------------------------------------------------------------

\* No visitor is sent round in circles: a navigation is served after one
\* redirect at most, whatever is missing.
RedirectsEnd == hops <= 1

\* What is served below /dashboard, independently of the order of the rules:
\* staff only, with a chosen password; beyond the enrolment page with a second
\* factor, an app for administrators; and the administration to them alone.
DashboardIsGuarded ==
    Served /\ page \in StaffPages =>
        /\ visitor.signedIn /\ Staff(visitor) /\ ~visitor.mustChangePassword
        /\ page # "/dashboard/mfa" => visitor.mfaEnabled
        /\ page # "/dashboard/mfa" /\ visitor.role = "ADMIN" => visitor.mfaUsesApp
        /\ page \in AdminPages => visitor.role = "ADMIN"
=============================================================================
