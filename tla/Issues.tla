------------------------------ MODULE Issues ------------------------------
(***************************************************************************)
(* Reported issues: the server actions of the verifiers' queue             *)
(* (app/(dashboard)/dashboard/issues/actions.ts), the transition they run  *)
(* (lib/issues.ts), the alerts that follow it (lib/issueAlerts.ts), filing *)
(* a report and choosing a home district (app/(public)/issues/actions.ts), *)
(* and the retention pass that deletes rejected reports.                   *)
(*                                                                         *)
(* Every `await' on the database is a step of its own: a request reads the *)
(* status in one step and writes it by primary key in a later one, and any *)
(* other request may run in between.                                       *)
(***************************************************************************)
EXTENDS Naturals, FiniteSets

CONSTANTS
    User,           \* accounts
    Issue,          \* identities of reports
    District,
    Media,          \* uploaded photographs
    MediaOwner,     \* who uploaded each of them (Media.uploadedById)
    Req,            \* server actions that may be in flight at once
    Reporters,      \* accounts that may file: issue.submit, address confirmed
    Verifiers,      \* accounts holding issue.verify
    Publishers,     \* accounts holding issue.publish
    Resolvers,      \* accounts holding issue.resolve
    FanoutLimit,    \* DISTRICT_FANOUT_LIMIT
    MaxPush,        \* bound of the model: pushes counted per person and report
    MaxStarted,     \* bound of the model: queue actions started in one behaviour
    Volatile,       \* bound of the model: accounts that move or are suspended
    Crashes,        \* whether the process may die under a request
    NoOne,          \* null in Issue.verifiedById
    NoDistrict      \* null in User.districtId

ASSUME ConstantsAssumption ==
    /\ Reporters \subseteq User /\ Verifiers \subseteq User
    /\ Publishers \subseteq User /\ Resolvers \subseteq User
    /\ Volatile \subseteq User
    /\ MediaOwner \in [Media -> User]
    /\ NoOne \notin User /\ NoDistrict \notin District
    /\ FanoutLimit \in Nat /\ MaxPush \in Nat /\ MaxStarted \in Nat
    /\ Crashes \in BOOLEAN

VARIABLES
    issue,          \* the Issue table
    aged,           \* reports not updated for rejectedIssueDays
    active,         \* accounts whose User.status is ACTIVE
    home,           \* User.districtId
    notification,   \* the Notification table, keyed by its unique index
    pushed,         \* history: district alerts pushed, per person and report
    audit,          \* the AuditLog rows about issues: who moved which to what
    moves,          \* history: every status change that was written
    req,            \* the server actions in flight
    started         \* history: how many have been started

vars == <<issue, aged, active, home, notification, pushed, audit, moves, req, started>>
tables == <<issue, aged, active, home, notification, pushed, audit, moves>>

L == INSTANCE IssueLifecycle WITH stage <- [i \in Issue |-> issue[i].status]

---------------------------------------------------------------------------
(* Rows and requests                                                       *)

\* The targets a queue action may ask for (the IssueStatus each one passes).
Targets == L!Statuses

IssueRow ==
    [status : L!Statuses \cup L!NoRow,
     reporter : User \cup {NoOne}, anonymous : BOOLEAN,
     district : District \cup {NoDistrict}, media : SUBSET Media,
     verifiedBy : User \cup {NoOne}, verifiedAt : BOOLEAN,
     publishedAt : BOOLEAN, resolvedAt : BOOLEAN]

Blank(status) ==
    [status |-> status, reporter |-> NoOne, anonymous |-> FALSE,
     district |-> NoDistrict, media |-> {}, verifiedBy |-> NoOne,
     verifiedAt |-> FALSE, publishedAt |-> FALSE, resolvedAt |-> FALSE]

Exists(i) == issue[i].status \in L!Statuses

NotificationTypes == {"ISSUE_IN_YOUR_DISTRICT", "YOUR_ISSUE_UPDATED"}
NotificationRow == User \X NotificationTypes \X Issue

MoveRow == [issue : Issue, actor : User, to : Targets]

\* Where a request stands: which await of run() comes next.
Stages == {"authorised", "checked", "alert", "notify", "push", "reporter", "audit"}

Idle == [pc |-> "idle"]
Running ==
    [pc : Stages, actor : User, issue : Issue, to : Targets,
     recipients : SUBSET User]

InFlight(q) == req[q] # Idle

Goto(q, pc) == req' = [req EXCEPT ![q].pc = pc] /\ UNCHANGED started
Finish(q) == req' = [req EXCEPT ![q] = Idle] /\ UNCHANGED started

\* The permission each action asks for.
Holders(to) ==
    CASE to = "PUBLISHED" -> Publishers
      [] to = "RESOLVED"  -> Resolvers
      [] OTHER            -> Verifiers

---------------------------------------------------------------------------

Init ==
    /\ issue = [i \in Issue |-> Blank("NONE")]
    /\ aged = {}
    /\ active = User
    /\ home \in [User -> District \cup {NoDistrict}]
    /\ notification = {}
    /\ pushed = [n \in User \X Issue |-> 0]
    /\ audit = {}
    /\ moves = {}
    /\ req = [q \in Req |-> Idle]
    /\ started = 0

---------------------------------------------------------------------------
(* Members                                                                 *)

\* Mutant: filing is audit-logged like every other action.
SubmitIsAudited(i, u, d, anonymous, mediaIds) ==
    /\ issue[i].status = "NONE"
    /\ u \in active \cap Reporters
    /\ issue' = [issue EXCEPT ![i] =
           [Blank("SUBMITTED") EXCEPT
               !.reporter = u, !.anonymous = anonymous, !.district = d,
               !.media = {m \in mediaIds : MediaOwner[m] = u}]]
    /\ audit' = audit \cup {[issue |-> i, actor |-> u, to |-> "SUBMITTED"]}
    /\ UNCHANGED <<aged, active, home, notification, pushed, moves, req, started>>

\* Mutant: the media ids of the form are attached without the ownership query.
SubmitTakesAnyMedia(i, u, d, anonymous, mediaIds) ==
    /\ issue[i].status = "NONE"
    /\ u \in active \cap Reporters
    /\ issue' = [issue EXCEPT ![i] =
           [Blank("SUBMITTED") EXCEPT
               !.reporter = u, !.anonymous = anonymous, !.district = d,
               !.media = mediaIds]]
    /\ UNCHANGED <<aged, active, home, notification, pushed, audit, moves, req, started>>

\* submitIssueAction and submitIssue: only media the reporter uploaded is
\* attached, and nothing is written to the audit log.
Submit(i, u, d, anonymous, mediaIds) ==
    /\ issue[i].status = "NONE"
    /\ u \in active \cap Reporters
    /\ issue' = [issue EXCEPT ![i] =
           [Blank("SUBMITTED") EXCEPT
               !.reporter = u, !.anonymous = anonymous, !.district = d,
               !.media = {m \in mediaIds : MediaOwner[m] = u}]]
    /\ UNCHANGED <<aged, active, home, notification, pushed, audit, moves, req, started>>

SetHomeDistrict(u, d) ==
    /\ u \in active \cap Volatile
    /\ home' = [home EXCEPT ![u] = d]
    /\ UNCHANGED <<issue, aged, active, notification, pushed, audit, moves, req, started>>

\* User administration, seen from here: an account stops or resumes being
\* ACTIVE while its requests may still be running.
SetStatus(u) ==
    /\ u \in Volatile
    /\ active' = IF u \in active THEN active \ {u} ELSE active \cup {u}
    /\ UNCHANGED <<issue, aged, home, notification, pushed, audit, moves, req, started>>

---------------------------------------------------------------------------
(* One queue action: run() in dashboard/issues/actions.ts                  *)

\* requirePermission re-reads the account; a refusal changes nothing.
Authorise(q, u, i, to) ==
    /\ ~InFlight(q)
    /\ started < MaxStarted
    /\ u \in active \cap Holders(to)
    /\ started' = started + 1
    /\ req' = [req EXCEPT ![q] =
           [pc |-> "authorised", actor |-> u, issue |-> i, to |-> to,
            recipients |-> {}]]
    /\ UNCHANGED tables

\* Mutant: the transition table is not consulted.
CheckOnlyExistence(q) ==
    /\ req[q].pc = "authorised"
    /\ IF Exists(req[q].issue) THEN Goto(q, "checked") ELSE Finish(q)
    /\ UNCHANGED tables

\* transitionIssue, first half: findUnique and canTransition.
CheckTransition(q) ==
    LET i == req[q].issue IN
    /\ req[q].pc = "authorised"
    /\ IF L!CanTransition(issue[i].status, req[q].to)
         THEN Goto(q, "checked")
         ELSE Finish(q)
    /\ UNCHANGED tables

\* Mutant: a release clears the columns instead of setting the status.
MovedBlanks(row, to, actor) ==
    IF to = "SUBMITTED" THEN [status |-> to, reporter |-> row.reporter]
    ELSE [row EXCEPT
        !.status = to,
        !.verifiedBy = IF to \in {"UNDER_REVIEW", "VERIFIED", "REJECTED"} THEN actor ELSE @,
        !.verifiedAt = @ \/ to = "VERIFIED",
        !.publishedAt = @ \/ to = "PUBLISHED",
        !.resolvedAt = @ \/ to = "RESOLVED"]

\* The fields each target status sets.
Moved(row, to, actor) ==
    [row EXCEPT
        !.status = to,
        !.verifiedBy = IF to \in {"UNDER_REVIEW", "VERIFIED", "REJECTED"} THEN actor ELSE @,
        !.verifiedAt = @ \/ to = "VERIFIED",
        !.publishedAt = @ \/ to = "PUBLISHED",
        !.resolvedAt = @ \/ to = "RESOLVED"]

\* Mutant: an upsert, which brings back a row retention has deleted.
WriteByUpsert(q) ==
    LET r == req[q] IN
    /\ r.pc = "checked"
    /\ issue' = [issue EXCEPT ![r.issue] = Moved(@, r.to, r.actor)]
    /\ aged' = aged \ {r.issue}
    /\ moves' = moves \cup {[issue |-> r.issue, actor |-> r.actor, to |-> r.to]}
    /\ Goto(q, IF r.to = "PUBLISHED" THEN "alert" ELSE "reporter")
    /\ UNCHANGED <<active, home, notification, pushed, audit>>

\* transitionIssue, second half: update by id, whatever the status is by now.
\* A row retention has removed meanwhile makes the update throw.
WriteTransition(q) ==
    LET r == req[q] IN
    /\ r.pc = "checked"
    /\ \/ /\ Exists(r.issue)
          /\ issue' = [issue EXCEPT ![r.issue] = Moved(@, r.to, r.actor)]
          /\ aged' = aged \ {r.issue}
          /\ moves' = moves \cup {[issue |-> r.issue, actor |-> r.actor, to |-> r.to]}
          /\ Goto(q, IF r.to = "PUBLISHED" THEN "alert" ELSE "reporter")
       \/ /\ ~Exists(r.issue)
          /\ Finish(q)
          /\ UNCHANGED <<issue, aged, moves>>
    /\ UNCHANGED <<active, home, notification, pushed, audit>>

\* Mutant: the reporter is not left out of the query.
ResidentsWithReporter(i) == {u \in active : home[u] = issue[i].district}

\* alertDistrictOfIssue reads the status again and then the residents; with no
\* ORDER BY, one pass may alert any FanoutLimit of them.
Residents(i) ==
    {u \in active : home[u] = issue[i].district /\ u # issue[i].reporter}

\* Mutant: the pushes go out before the rows are written.
PickAndPushFirst(q) ==
    LET i == req[q].issue IN
    /\ req[q].pc = "alert"
    /\ IF issue[i].status # "PUBLISHED" \/ Residents(i) = {}
         THEN Goto(q, "reporter")
         ELSE /\ req' = [req EXCEPT ![q].pc = "push", ![q].recipients = Residents(i)]
              /\ UNCHANGED started
    /\ UNCHANGED tables

PickRecipients(q) ==
    LET i == req[q].issue IN
    /\ req[q].pc = "alert"
    /\ IF issue[i].status # "PUBLISHED" \/ Residents(i) = {}
         THEN Goto(q, "reporter")
         ELSE \E batch \in SUBSET Residents(i) :
                /\ Cardinality(batch) <= FanoutLimit
                /\ Cardinality(batch) = FanoutLimit \/ batch = Residents(i)
                /\ req' = [req EXCEPT ![q].pc = "notify", ![q].recipients = batch]
                /\ UNCHANGED started
    /\ UNCHANGED tables

\* createMany with skipDuplicates: the unique index keeps one row each.
WriteAlerts(q) ==
    LET i == req[q].issue IN
    /\ req[q].pc = "notify"
    /\ notification' = notification \cup
           {<<u, "ISSUE_IN_YOUR_DISTRICT", i>> : u \in req[q].recipients}
    /\ Goto(q, "push")
    /\ UNCHANGED <<issue, aged, active, home, pushed, audit, moves>>

\* pushToUser for every recipient, whether or not its row was new.
PushAlerts(q) ==
    LET i == req[q].issue IN
    /\ req[q].pc = "push"
    /\ pushed' = [n \in User \X Issue |->
           IF n[1] \in req[q].recipients /\ n[2] = i /\ pushed[n] < MaxPush
             THEN pushed[n] + 1 ELSE pushed[n]]
    /\ Goto(q, "reporter")
    /\ UNCHANGED <<issue, aged, active, home, notification, audit, moves>>

\* Mutant: only good news is passed on.
AlertReporterOfGoodNews(q) ==
    LET i == req[q].issue IN
    /\ req[q].pc = "reporter"
    /\ notification' = IF ~Exists(i) \/ req[q].to = "REJECTED" THEN notification ELSE
           notification \cup {<<issue[i].reporter, "YOUR_ISSUE_UPDATED", i>>}
    /\ Goto(q, "audit")
    /\ UNCHANGED <<issue, aged, active, home, pushed, audit, moves>>

\* Mutant: the action returns once the reporter has been told.
AlertReporterAndReturn(q) ==
    LET i == req[q].issue IN
    /\ req[q].pc = "reporter"
    /\ notification' = IF ~Exists(i) THEN notification ELSE
           notification \cup {<<issue[i].reporter, "YOUR_ISSUE_UPDATED", i>>}
    /\ Finish(q)
    /\ UNCHANGED <<issue, aged, active, home, pushed, audit, moves>>

\* alertReporterOfChange: one row per report, a duplicate is swallowed.  (Its
\* push, which is meant to follow every change, is not counted in pushed.)
AlertReporter(q) ==
    LET i == req[q].issue IN
    /\ req[q].pc = "reporter"
    /\ notification' = IF ~Exists(i) THEN notification ELSE
           notification \cup {<<issue[i].reporter, "YOUR_ISSUE_UPDATED", i>>}
    /\ Goto(q, "audit")
    /\ UNCHANGED <<issue, aged, active, home, pushed, audit, moves>>

\* recordAudit: who did it, to which report, and what it became.
RecordAudit(q) ==
    LET r == req[q] IN
    /\ r.pc = "audit"
    /\ audit' = audit \cup {[issue |-> r.issue, actor |-> r.actor, to |-> r.to]}
    /\ Finish(q)
    /\ UNCHANGED <<issue, aged, active, home, notification, pushed, moves>>

\* The process is restarted, or an await throws, part of the way through.
Crash(q) ==
    /\ Crashes
    /\ InFlight(q)
    /\ Finish(q)
    /\ UNCHANGED tables

---------------------------------------------------------------------------
(* Retention                                                               *)

\* A request lasts seconds and the retention period is ninety days, so no
\* request that is running now was running when the period began.
Age(i) ==
    /\ issue[i].status = "REJECTED"
    /\ \A q \in Req : ~InFlight(q)
    /\ aged' = aged \cup {i}
    /\ UNCHANGED <<issue, active, home, notification, pushed, audit, moves, req, started>>

\* The issue clause of runRetention: one DELETE, with its conditions in it;
\* notifications about the report go with the row.
Purge ==
    LET old == {i \in aged : issue[i].status = "REJECTED"} IN
    /\ old # {}
    /\ issue' = [i \in Issue |-> IF i \in old THEN Blank("DELETED") ELSE issue[i]]
    /\ aged' = aged \ old
    /\ notification' = {n \in notification : n[3] \notin old}
    /\ UNCHANGED <<active, home, pushed, audit, moves, req, started>>

---------------------------------------------------------------------------

RequestStep(q) ==
    \/ CheckTransition(q) \/ WriteTransition(q)
    \/ PickRecipients(q) \/ WriteAlerts(q) \/ PushAlerts(q)
    \/ AlertReporter(q) \/ RecordAudit(q)

Next ==
    \/ \E i \in Issue, u \in User, d \in District, anonymous \in BOOLEAN,
          mediaIds \in SUBSET Media : Submit(i, u, d, anonymous, mediaIds)
    \/ \E u \in User, d \in District \cup {NoDistrict} : SetHomeDistrict(u, d)
    \/ \E u \in User : SetStatus(u)
    \/ \E q \in Req, u \in User, i \in Issue, to \in Targets : Authorise(q, u, i, to)
    \/ \E q \in Req : RequestStep(q)
    \/ \E q \in Req : Crash(q)
    \/ \E i \in Issue : Age(i)
    \/ Purge

Spec == Init /\ [][Next]_vars

\* A request that has begun is run to its end by the server: each of its
\* awaits is eventually answered.  Nobody is obliged to start one.
FairSpec == Spec /\ \A q \in Req : WF_vars(RequestStep(q))

---------------------------------------------------------------------------
(* Properties                                                              *)

TypeOK ==
    /\ issue \in [Issue -> IssueRow]
    /\ aged \subseteq Issue
    /\ active \subseteq User
    /\ home \in [User -> District \cup {NoDistrict}]
    /\ notification \subseteq NotificationRow
    /\ pushed \in [User \X Issue -> 0..MaxPush]
    /\ audit \subseteq MoveRow
    /\ moves \subseteq MoveRow
    /\ req \in [Req -> Running \cup {Idle}]
    /\ started \in 0..MaxStarted
    /\ \A i \in Issue : Exists(i) => issue[i].reporter \in User

\* Nothing is public that nobody checked: however the requests interleave, a
\* report in a public status has been through VERIFIED and PUBLISHED, and the
\* row still names somebody as answerable for the check (lib/issues.ts).
PublicWasChecked ==
    \A i \in Issue :
        issue[i].status \in L!PublicStatuses =>
            /\ issue[i].verifiedAt
            /\ issue[i].publishedAt
            /\ issue[i].verifiedBy # NoOne

\* An alert cannot be recalled, so none exists for a report that was never
\* published, and none ever goes to the person who filed it
\* (alertDistrictOfIssue re-checks the status and excludes the reporter).
AlertsOnlyOfPublished ==
    \A n \in notification :
        n[2] = "ISSUE_IN_YOUR_DISTRICT" =>
            /\ issue[n[3]].publishedAt
            /\ n[1] # issue[n[3]].reporter

\* A push is only ever sent to somebody whose durable row was written first
\* (issueAlerts.ts: rows, then pushes), unless retention took row and report.
PushHasItsRow ==
    \A u \in User, i \in Issue :
        pushed[<<u, i>>] > 0 /\ Exists(i) =>
            <<u, "ISSUE_IN_YOUR_DISTRICT", i>> \in notification

\* Filing leaves no trail: an audit row that names the reporter of an anonymous
\* report exists only because that person also moved it through the queue
\* (submitIssueAction is deliberately not audit-logged).
AnonymousFilingLeavesNoTrail ==
    \A a \in audit :
        issue[a.issue].anonymous /\ a.actor = issue[a.issue].reporter =>
            \E m \in moves : m.issue = a.issue /\ m.actor = a.actor /\ m.to = a.to

\* Every status change is owned: the person who made it is in the audit log, or
\* the request that made it is still on its way there (run() in actions.ts).
\* Holds while no request is lost half-way.
EveryMoveIsAudited ==
    \A m \in moves :
        \/ \E a \in audit : a.issue = m.issue /\ a.actor = m.actor /\ a.to = m.to
        \/ \E q \in Req :
              /\ InFlight(q)
              /\ req[q].issue = m.issue /\ req[q].actor = m.actor /\ req[q].to = m.to
              /\ req[q].pc \in Stages \ {"authorised", "checked"}

\* A report that retention removed stays removed: a request that read it before
\* cannot bring it back, and no notification is left pointing at it.
DeletedStaysDeleted ==
    [][\A i \in Issue :
          issue[i].status = "DELETED" =>
              /\ issue'[i].status = "DELETED"
              /\ \A n \in notification' : n[3] # i]_vars

\* A report carries only photographs its reporter uploaded, so nobody's evidence
\* is published under somebody else's report (submitIssue's ownMedia).
EvidenceIsTheReportersOwn ==
    \A i \in Issue : \A m \in issue[i].media : MediaOwner[m] = issue[i].reporter

\* Whoever filed a report is told of the first decision about it, whatever it
\* was (alertReporterOfChange), unless retention removed the report.
ReporterIsAnswered ==
    \A i \in Issue :
        (\E m \in moves : m.issue = i)
            ~> \/ ~Exists(i)
               \/ <<issue[i].reporter, "YOUR_ISSUE_UPDATED", i>> \in notification

\* With one request at a time the code is the transition table: every step of
\* the row is a step of IssueLifecycle (canTransition, transitionIssue).
FollowsLifecycle == L!Spec

\* "Nobody is told twice" (lib/issueAlerts.ts), of what reaches a phone: with
\* one queue action at a time a report is published once, so each resident is
\* pushed once however often people move in and out of the district.
NobodyIsPushedTwice == \A n \in User \X Issue : pushed[n] <= 1

\* Who is alerted is alerted of something published, is not its reporter, and
\* finds it in the bell however far the pushes got.
AlertsAreInOrder == AlertsOnlyOfPublished /\ PushHasItsRow

\* Every move through the queue is owned in the audit log, and whoever filed
\* the report hears of it.
MovesAreFollowedUp == []EveryMoveIsAudited /\ ReporterIsAnswered
===========================================================================
