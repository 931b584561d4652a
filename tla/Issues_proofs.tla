--------------------------- MODULE Issues_proofs ---------------------------
(***************************************************************************)
(* Proofs about Issues, for any number of accounts, reports, requests in   *)
(* flight and whatever may crash: the types, that nothing public is        *)
(* unchecked, that evidence stays the reporter's own, that alerts are in   *)
(* order.  With one request at a time: the transition table, and that      *)
(* nobody is pushed twice.  If no process dies: that every move is owned.  *)
(***************************************************************************)
EXTENDS Issues, TLAPS

---------------------------------------------------------------------------
(* Requests                                                                *)

ReqTyped == req \in [Req -> Running \cup {Idle}]

\* A request that is at a stage of run() is a running one.
LEMMA AtStageIsRunning ==
    ASSUME ReqTyped, NEW q \in Req, req[q].pc \in Stages
    PROVE  req[q] \in Running
BY DEF ReqTyped, Running, Idle, Stages

\* Moving a running request to another stage leaves the requests well typed.
LEMMA GotoKeepsType ==
    ASSUME ReqTyped, NEW q \in Req, NEW pc \in Stages,
           req[q] \in Running, Goto(q, pc)
    PROVE  ReqTyped'
<1>1. [req[q] EXCEPT !.pc = pc] \in Running
  BY DEF Running
<1>2. QED
  BY <1>1 DEF ReqTyped, Goto

\* So does finishing it.
LEMMA FinishKeepsType ==
    ASSUME ReqTyped, NEW q \in Req, Finish(q)
    PROVE  ReqTyped'
BY DEF ReqTyped, Finish

\* The row a transition writes is a row, whichever status it is moved to.
LEMMA MovedIsARow ==
    ASSUME NEW row \in IssueRow, NEW to \in Targets, NEW actor \in User
    PROVE  /\ Moved(row, to, actor) \in IssueRow
           /\ Moved(row, to, actor).status = to
           /\ Moved(row, to, actor).reporter = row.reporter
           /\ Moved(row, to, actor).media = row.media
<1> DEFINE v == IF to \in {"UNDER_REVIEW", "VERIFIED", "REJECTED"} THEN actor ELSE row.verifiedBy
           a == row.verifiedAt \/ to = "VERIFIED"
           b == row.publishedAt \/ to = "PUBLISHED"
           c == row.resolvedAt \/ to = "RESOLVED"
<1>1. a \in BOOLEAN /\ b \in BOOLEAN /\ c \in BOOLEAN
  OBVIOUS
<1>2. v \in User \cup {NoOne}
  BY DEF IssueRow
<1>3. Moved(row, to, actor) =
        [row EXCEPT !.status = to, !.verifiedBy = v, !.verifiedAt = a,
                    !.publishedAt = b, !.resolvedAt = c]
  BY DEF Moved
<1> HIDE DEF a, b, c, v
<1>4. QED
  BY <1>1, <1>2, <1>3 DEF IssueRow, Targets

\* A row with nothing in it but its status is a row.
LEMMA BlankIsARow ==
    ASSUME NEW s \in L!Statuses \cup L!NoRow
    PROVE  Blank(s) \in IssueRow
BY DEF Blank, IssueRow

---------------------------------------------------------------------------
(* The type invariant                                                      *)

\* Every step of a request in flight keeps the types.
LEMMA RequestStepKeepsType ==
    ASSUME ConstantsAssumption, TypeOK, NEW q \in Req, RequestStep(q)
    PROVE  TypeOK'
<1> USE DEF TypeOK
<1>0. ReqTyped
  BY DEF ReqTyped
<1>1. CASE CheckTransition(q)
  <2>1. req[q] \in Running
    BY <1>0, <1>1, AtStageIsRunning DEF CheckTransition, Stages
  <2>2. ReqTyped'
    BY <1>0, <1>1, <2>1, GotoKeepsType, FinishKeepsType, "checked" \in Stages
       DEF CheckTransition, Stages
  <2>3. QED
    BY <1>1, <2>2 DEF CheckTransition, ReqTyped, Goto, Finish, tables, Exists
<1>2. CASE WriteTransition(q)
  <2> DEFINE r == req[q]
  <2>1. r \in Running
    BY <1>0, <1>2, AtStageIsRunning DEF WriteTransition, Stages
  <2>2. /\ r.actor \in User
        /\ r.issue \in Issue
        /\ r.to \in Targets
    BY <2>1 DEF Running
  <2>3. ReqTyped'
    BY <1>0, <1>2, <2>1, GotoKeepsType, FinishKeepsType,
       "alert" \in Stages, "reporter" \in Stages
       DEF WriteTransition, Stages
  <2>4. issue' \in [Issue -> IssueRow]
    BY <1>2, <2>2, MovedIsARow DEF WriteTransition
  <2>5. moves' \subseteq MoveRow
    BY <1>2, <2>2 DEF WriteTransition, MoveRow
  <2>6. \A i \in Issue : Exists(i)' => issue'[i].reporter \in User
    <3>1. CASE issue' = issue
      BY <3>1 DEF Exists
    <3>2. CASE Exists(r.issue) /\ issue' = [issue EXCEPT ![r.issue] = Moved(@, r.to, r.actor)]
      BY <2>2, <3>2, MovedIsARow DEF Exists
    <3>3. QED
      BY <1>2, <3>1, <3>2 DEF WriteTransition
  <2>7. QED
    BY <1>2, <2>3, <2>4, <2>5, <2>6 DEF WriteTransition, ReqTyped, Goto, Finish
<1>3. CASE PickRecipients(q)
  <2>1. req[q] \in Running
    BY <1>0, <1>3, AtStageIsRunning DEF PickRecipients, Stages
  <2>2. ReqTyped'
    <3>1. CASE Goto(q, "reporter")
      BY <1>0, <2>1, <3>1, GotoKeepsType, "reporter" \in Stages DEF Stages
    <3>2. CASE \E batch \in SUBSET Residents(req[q].issue) :
                 req' = [req EXCEPT ![q].pc = "notify", ![q].recipients = batch]
      <4>1. PICK batch \in SUBSET Residents(req[q].issue) :
                 req' = [req EXCEPT ![q].pc = "notify", ![q].recipients = batch]
        BY <3>2
      <4>2. batch \in SUBSET User
        BY DEF Residents
      <4>3. [req[q] EXCEPT !.pc = "notify", !.recipients = batch] \in Running
        BY <2>1, <4>2 DEF Running, Stages
      <4>4. QED
        BY <1>0, <4>1, <4>3 DEF ReqTyped
    <3>3. QED
      BY <1>3, <3>1, <3>2 DEF PickRecipients
  <2>3. UNCHANGED <<tables, started>>
    BY <1>3 DEF PickRecipients, Goto
  <2>4. QED
    BY <2>2, <2>3 DEF ReqTyped, tables, Exists
<1>4. CASE WriteAlerts(q)
  <2>1. req[q] \in Running
    BY <1>0, <1>4, AtStageIsRunning DEF WriteAlerts, Stages
  <2>2. ReqTyped'
    BY <1>0, <1>4, <2>1, GotoKeepsType, "push" \in Stages DEF WriteAlerts, Stages
  <2>3. notification' \subseteq NotificationRow
    BY <1>4, <2>1 DEF WriteAlerts, Running, NotificationRow, NotificationTypes
  <2>4. QED
    BY <1>4, <2>2, <2>3 DEF WriteAlerts, ReqTyped, Goto, Exists
<1>5. CASE PushAlerts(q)
  <2>1. req[q] \in Running
    BY <1>0, <1>5, AtStageIsRunning DEF PushAlerts, Stages
  <2>2. ReqTyped'
    BY <1>0, <1>5, <2>1, GotoKeepsType, "reporter" \in Stages DEF PushAlerts, Stages
  <2>3. pushed' \in [User \X Issue -> 0..MaxPush]
    BY <1>5, ConstantsAssumption DEF PushAlerts, ConstantsAssumption
  <2>4. QED
    BY <1>5, <2>2, <2>3 DEF PushAlerts, ReqTyped, Goto, Exists
<1>6. CASE AlertReporter(q)
  <2>1. req[q] \in Running
    BY <1>0, <1>6, AtStageIsRunning DEF AlertReporter, Stages
  <2>2. ReqTyped'
    BY <1>0, <1>6, <2>1, GotoKeepsType, "audit" \in Stages DEF AlertReporter, Stages
  <2>3. notification' \subseteq NotificationRow
    BY <1>6, <2>1 DEF AlertReporter, Running, NotificationRow, NotificationTypes
  <2>4. QED
    BY <1>6, <2>2, <2>3 DEF AlertReporter, ReqTyped, Goto, Exists
<1>7. CASE RecordAudit(q)
  <2>1. req[q] \in Running
    BY <1>0, <1>7, AtStageIsRunning DEF RecordAudit, Stages
  <2>2. ReqTyped'
    BY <1>0, <1>7, FinishKeepsType DEF RecordAudit
  <2>3. audit' \subseteq MoveRow
    BY <1>7, <2>1 DEF RecordAudit, Running, MoveRow
  <2>4. QED
    BY <1>7, <2>2, <2>3 DEF RecordAudit, ReqTyped, Finish, Exists
<1>8. QED
  BY <1>1, <1>2, <1>3, <1>4, <1>5, <1>6, <1>7 DEF RequestStep

\* What members, user administration and retention do keeps the types too.
LEMMA OtherStepsKeepType ==
    ASSUME ConstantsAssumption, TypeOK,
           \/ \E i \in Issue, u \in User, d \in District, anonymous \in BOOLEAN,
                 mediaIds \in SUBSET Media : Submit(i, u, d, anonymous, mediaIds)
           \/ \E u \in User, d \in District \cup {NoDistrict} : SetHomeDistrict(u, d)
           \/ \E u \in User : SetStatus(u)
           \/ \E i \in Issue : Age(i)
           \/ Purge
    PROVE  TypeOK'
<1> USE DEF TypeOK
<1>1. CASE \E i \in Issue, u \in User, d \in District, anonymous \in BOOLEAN,
              mediaIds \in SUBSET Media : Submit(i, u, d, anonymous, mediaIds)
  <2>1. PICK i \in Issue, u \in User, d \in District, anonymous \in BOOLEAN,
             mediaIds \in SUBSET Media : Submit(i, u, d, anonymous, mediaIds)
    BY <1>1
  <2> DEFINE row == [Blank("SUBMITTED") EXCEPT
                        !.reporter = u, !.anonymous = anonymous, !.district = d,
                        !.media = {m \in mediaIds : MediaOwner[m] = u}]
  <2>2. Blank("SUBMITTED") \in IssueRow
    BY BlankIsARow DEF L!Statuses
  <2>3. row \in IssueRow /\ row.reporter = u
    BY <2>2 DEF IssueRow
  <2>4. issue' = [issue EXCEPT ![i] = row]
    BY <2>1 DEF Submit
  <2> HIDE DEF row
  <2>5. issue' \in [Issue -> IssueRow]
    BY <2>3, <2>4
  <2>6. \A j \in Issue : Exists(j)' => issue'[j].reporter \in User
    BY <2>3, <2>4 DEF Exists
  <2>7. QED
    BY <2>1, <2>5, <2>6 DEF Submit
<1>2. CASE \E u \in User, d \in District \cup {NoDistrict} : SetHomeDistrict(u, d)
  BY <1>2 DEF SetHomeDistrict, Exists
<1>3. CASE \E u \in User : SetStatus(u)
  BY <1>3 DEF SetStatus, Exists
<1>4. CASE \E i \in Issue : Age(i)
  BY <1>4 DEF Age, Exists
<1>5. CASE Purge
  <2>1. Blank("DELETED") \in IssueRow /\ Blank("DELETED").status = "DELETED"
    BY BlankIsARow DEF L!NoRow, Blank
  <2>2. /\ issue' \in [Issue -> IssueRow]
        /\ \A j \in Issue : issue'[j] = issue[j] \/ issue'[j].status = "DELETED"
    BY <1>5, <2>1 DEF Purge
  <2>3. \A j \in Issue : Exists(j)' => issue'[j].reporter \in User
    BY <2>2 DEF Exists, L!Statuses
  <2>4. QED
    BY <1>5, <2>2, <2>3 DEF Purge
<1>6. QED
  BY <1>1, <1>2, <1>3, <1>4, <1>5

\* Starting a queue action, and losing one, touch nothing but the requests.
LEMMA BeginAndCrashKeepType ==
    ASSUME ConstantsAssumption, TypeOK, NEW q \in Req,
           \/ \E u \in User, i \in Issue, to \in Targets : Authorise(q, u, i, to)
           \/ Crash(q)
    PROVE  TypeOK'
<1> USE DEF TypeOK
<1>1. CASE \E u \in User, i \in Issue, to \in Targets : Authorise(q, u, i, to)
  <2>1. PICK u \in User, i \in Issue, to \in Targets : Authorise(q, u, i, to)
    BY <1>1
  <2>2. [pc |-> "authorised", actor |-> u, issue |-> i, to |-> to,
         recipients |-> {}] \in Running
    BY DEF Running, Stages
  <2>3. req' \in [Req -> Running \cup {Idle}] /\ started' \in 0..MaxStarted
    BY <2>1, <2>2, ConstantsAssumption DEF Authorise, ConstantsAssumption
  <2>4. QED
    BY <2>1, <2>3 DEF Authorise, tables, Exists
<1>2. CASE Crash(q)
  BY <1>2, FinishKeepsType DEF Crash, ReqTyped, Finish, tables, Exists
<1>3. QED
  BY <1>1, <1>2

\* The variables have their types in every reachable state: every row is a row
\* of its table, every filed report has a reporter, every request that has begun
\* names an account, a report and a target.
THEOREM TypeInvariance == Spec => []TypeOK
<1>1. Init => TypeOK
  <2> SUFFICES ASSUME Init PROVE TypeOK
    OBVIOUS
  <2>1. issue \in [Issue -> IssueRow]
    BY BlankIsARow DEF Init, L!NoRow
  <2>2. pushed \in [User \X Issue -> 0..MaxPush] /\ started \in 0..MaxStarted
    BY ConstantsAssumption DEF Init, ConstantsAssumption
  <2>3. \A i \in Issue : ~Exists(i)
    BY DEF Init, Blank, Exists, L!Statuses
  <2>4. QED
    BY <2>1, <2>2, <2>3 DEF Init, TypeOK
<1>2. TypeOK /\ [Next]_vars => TypeOK'
  <2> SUFFICES ASSUME TypeOK, [Next]_vars PROVE TypeOK'
    OBVIOUS
  <2>1. CASE UNCHANGED vars
    BY <2>1 DEF TypeOK, vars, Exists
  <2>2. CASE Next
    BY <2>2, ConstantsAssumption, RequestStepKeepsType, OtherStepsKeepType,
       BeginAndCrashKeepType DEF Next
  <2>3. QED
    BY <2>1, <2>2
<1>3. QED
  BY <1>1, <1>2, PTL DEF Spec
---------------------------------------------------------------------------
(* Nothing public is unchecked                                             *)

\* Somebody has verified the report and the row says who.
Stamped(i) == issue[i].verifiedAt /\ issue[i].verifiedBy # NoOne

\* What a request that has consulted the transition table may rely on until it
\* writes, whatever else is written meanwhile.
CheckStillHolds(q) ==
    LET i == req[q].issue IN
    /\ issue[i].status # "NONE"
    /\ Exists(i) /\ req[q].to \in {"PUBLISHED", "RESOLVED"} => Stamped(i)
    /\ Exists(i) /\ req[q].to = "RESOLVED" => issue[i].publishedAt

\* PublicWasChecked is not inductive: between its check and its write a request
\* relies on stamps that no other request can take away.
CheckedInv ==
    /\ \A i \in Issue : issue[i].status = "VERIFIED" => Stamped(i)
    /\ PublicWasChecked
    /\ \A q \in Req : req[q].pc = "checked" => CheckStillHolds(q)

\* The stamps of a row are never taken back, and each status sets its own.
LEMMA MovedKeepsStamps ==
    ASSUME ConstantsAssumption,
           NEW row \in IssueRow, NEW to \in Targets, NEW actor \in User
    PROVE  LET new == Moved(row, to, actor) IN
           /\ row.verifiedAt => new.verifiedAt
           /\ row.publishedAt => new.publishedAt
           /\ row.verifiedBy # NoOne => new.verifiedBy # NoOne
           /\ to = "VERIFIED" => new.verifiedAt /\ new.verifiedBy # NoOne
           /\ to = "PUBLISHED" => new.publishedAt
BY DEF Moved, IssueRow, ConstantsAssumption

\* A step that writes no report and checks none keeps the invariant.
LEMMA QuietStepKeepsChecked ==
    ASSUME CheckedInv, UNCHANGED issue,
           \A q \in Req : req'[q].pc = "checked" => req'[q] = req[q]
    PROVE  CheckedInv'
BY DEF CheckedInv, PublicWasChecked, CheckStillHolds, Stamped, Exists

LEMMA CheckTransitionKeepsChecked ==
    ASSUME ConstantsAssumption, TypeOK, CheckedInv, NEW q \in Req, CheckTransition(q)
    PROVE  CheckedInv'
<1> DEFINE i == req[q].issue
<1>1. req[q] \in Running /\ i \in Issue
  BY AtStageIsRunning DEF CheckTransition, TypeOK, ReqTyped, Stages, Running
<1>2. UNCHANGED issue
  BY DEF CheckTransition, tables
<1>3. CASE L!CanTransition(issue[i].status, req[q].to) /\ Goto(q, "checked")
  <2>1. \A p \in Req \ {q} : req'[p] = req[p]
    BY <1>3 DEF Goto, TypeOK
  <2>2. req'[q].issue = i /\ req'[q].to = req[q].to
    BY <1>1, <1>3 DEF Goto, TypeOK, Running
  <2>3. /\ issue[i].status \in L!Statuses
        /\ req[q].to = "PUBLISHED" => issue[i].status = "VERIFIED"
        /\ req[q].to = "RESOLVED" => issue[i].status = "PUBLISHED"
    BY <1>3 DEF L!CanTransition, L!Transitions, L!Statuses
  <2>4. CheckStillHolds(q)'
    BY <1>1, <1>2, <2>2, <2>3
       DEF CheckStillHolds, CheckedInv, PublicWasChecked, Stamped, Exists,
           L!PublicStatuses, L!Statuses
  <2>5. QED
    BY <1>2, <2>1, <2>4
       DEF CheckedInv, PublicWasChecked, CheckStillHolds, Stamped, Exists
<1>4. CASE Finish(q)
  BY <1>2, <1>4, QuietStepKeepsChecked DEF Finish, Idle, TypeOK
<1>5. QED
  BY <1>3, <1>4 DEF CheckTransition

LEMMA WriteTransitionKeepsChecked ==
    ASSUME ConstantsAssumption, TypeOK, CheckedInv, NEW q \in Req, WriteTransition(q)
    PROVE  CheckedInv'
<1>1. PICK i \in Issue, to \in Targets, actor \in User :
             req[q].issue = i /\ req[q].to = to /\ req[q].actor = actor
  BY AtStageIsRunning DEF WriteTransition, TypeOK, ReqTyped, Stages, Running
<1> DEFINE new == Moved(issue[i], to, actor)
<1>2. \A p \in Req : req'[p].pc = "checked" => p # q /\ req'[p] = req[p]
  BY DEF WriteTransition, TypeOK, Goto, Finish, Idle, Running
<1>3. CASE UNCHANGED issue
  BY <1>2, <1>3, QuietStepKeepsChecked
<1>4. CASE Exists(i) /\ issue' = [issue EXCEPT ![i] = new]
  <2>1. issue[i] \in IssueRow
    BY DEF TypeOK
  <2>2. /\ issue'[i] = new
        /\ \A j \in Issue \ {i} : issue'[j] = issue[j]
    BY <1>4 DEF TypeOK
  <2>3. issue'[i].status = to /\ to \in L!Statuses
    BY <2>1, <2>2, MovedIsARow DEF Targets
  <2>4. CheckStillHolds(q)
    BY DEF WriteTransition, CheckedInv
  <2>5. /\ Stamped(i) => Stamped(i)'
        /\ issue[i].publishedAt => issue'[i].publishedAt
        /\ to = "VERIFIED" => Stamped(i)'
        /\ to = "PUBLISHED" => issue'[i].publishedAt
    BY <2>1, <2>2, MovedKeepsStamps, ConstantsAssumption DEF Stamped
  <2>6. \A j \in Issue : issue'[j].status = "VERIFIED" => Stamped(j)'
    BY <2>2, <2>3, <2>5 DEF CheckedInv, Stamped
  <2>7. PublicWasChecked'
    <3>1. to \in {"PUBLISHED", "RESOLVED"} => Stamped(i)' /\ issue'[i].publishedAt
      BY <1>1, <1>4, <2>4, <2>5 DEF CheckStillHolds
    <3>2. QED
      BY <2>2, <2>3, <3>1 DEF CheckedInv, PublicWasChecked, Stamped, L!PublicStatuses
  <2>8. ASSUME NEW p \in Req, req'[p].pc = "checked" PROVE CheckStillHolds(p)'
    <3>1. req'[p] = req[p] /\ CheckStillHolds(p)
      BY <1>2, <2>8 DEF CheckedInv
    <3>2. PICK j \in Issue : req[p].issue = j
      BY <2>8, <3>1, AtStageIsRunning DEF TypeOK, ReqTyped, Stages, Running
    <3>3. CASE j = i
      BY <1>4, <2>3, <2>5, <3>1, <3>2, <3>3
         DEF CheckStillHolds, Exists, L!Statuses, Stamped
    <3>4. CASE j # i
      BY <2>2, <3>1, <3>2, <3>4 DEF CheckStillHolds, Exists, Stamped
    <3>5. QED
      BY <3>3, <3>4
  <2>9. QED
    BY <2>6, <2>7, <2>8 DEF CheckedInv
<1>5. QED
  BY <1>1, <1>3, <1>4 DEF WriteTransition

LEMMA SubmitKeepsChecked ==
    ASSUME ConstantsAssumption, TypeOK, CheckedInv,
           NEW i \in Issue, NEW u \in User, NEW d \in District,
           NEW anonymous \in BOOLEAN, NEW mediaIds \in SUBSET Media,
           Submit(i, u, d, anonymous, mediaIds)
    PROVE  CheckedInv'
<1>1. issue[i].status = "NONE" /\ issue'[i].status = "SUBMITTED"
  BY DEF Submit, Blank, TypeOK
<1>2. /\ \A j \in Issue \ {i} : issue'[j] = issue[j]
      /\ req' = req
  BY DEF Submit, TypeOK
<1>3. \A q \in Req : req[q].pc = "checked" => req[q].issue \in Issue \ {i}
  <2> SUFFICES ASSUME NEW q \in Req, req[q].pc = "checked"
               PROVE  req[q].issue \in Issue \ {i}
    OBVIOUS
  <2>1. req[q].issue \in Issue
    BY AtStageIsRunning DEF TypeOK, ReqTyped, Stages, Running
  <2>2. QED
    BY <1>1, <2>1 DEF CheckedInv, CheckStillHolds
<1>4. QED
  BY <1>1, <1>2, <1>3
     DEF CheckedInv, PublicWasChecked, CheckStillHolds, Stamped, Exists,
         L!PublicStatuses

LEMMA PurgeKeepsChecked ==
    ASSUME TypeOK, CheckedInv, Purge
    PROVE  CheckedInv'
<1>1. /\ \A i \in Issue : issue'[i] = issue[i] \/ issue'[i].status = "DELETED"
      /\ req' = req
  BY DEF Purge, Blank
<1>2. \A q \in Req : req[q].pc = "checked" => req[q].issue \in Issue
  BY AtStageIsRunning DEF TypeOK, ReqTyped, Stages, Running
<1>3. QED
  BY <1>1, <1>2
     DEF CheckedInv, PublicWasChecked, CheckStillHolds, Stamped, Exists,
         L!PublicStatuses, L!Statuses

\* Nothing is public that nobody checked: however many queue actions interleave
\* and crash, a report in a public status carries the stamps of verification and
\* publication and the name of whoever answered for the check.
THEOREM PublicIsChecked == Spec => []PublicWasChecked
<1>1. Init => CheckedInv
  BY DEF Init, CheckedInv, PublicWasChecked, CheckStillHolds, Blank, Idle,
         L!PublicStatuses
<1>2. TypeOK /\ CheckedInv /\ [Next]_vars => CheckedInv'
  <2> SUFFICES ASSUME TypeOK, CheckedInv, [Next]_vars PROVE CheckedInv'
    OBVIOUS
  <2>1. CASE UNCHANGED vars
    BY <2>1, QuietStepKeepsChecked DEF vars
  <2>2. ASSUME NEW i \in Issue, NEW u \in User, NEW d \in District,
               NEW anonymous \in BOOLEAN, NEW mediaIds \in SUBSET Media,
               Submit(i, u, d, anonymous, mediaIds)
        PROVE  CheckedInv'
    BY <2>2, SubmitKeepsChecked, ConstantsAssumption
  <2>3. CASE \/ \E u \in User, d \in District \cup {NoDistrict} : SetHomeDistrict(u, d)
             \/ \E u \in User : SetStatus(u)
             \/ \E i \in Issue : Age(i)
    BY <2>3, QuietStepKeepsChecked DEF SetHomeDistrict, SetStatus, Age
  <2>4. CASE Purge
    BY <2>4, PurgeKeepsChecked
  <2>5. ASSUME NEW q \in Req,
               \/ \E u \in User, i \in Issue, to \in Targets : Authorise(q, u, i, to)
               \/ Crash(q)
        PROVE  CheckedInv'
    <3>1. UNCHANGED issue
      BY <2>5 DEF Authorise, Crash, tables
    <3>2. \A p \in Req : req'[p].pc = "checked" => req'[p] = req[p]
      BY <2>5 DEF Authorise, Crash, Finish, Idle, TypeOK
    <3>3. QED
      BY <3>1, <3>2, QuietStepKeepsChecked
  <2>6. ASSUME NEW q \in Req,
               \/ PickRecipients(q) \/ WriteAlerts(q) \/ PushAlerts(q)
               \/ AlertReporter(q) \/ RecordAudit(q)
        PROVE  CheckedInv'
    <3>1. UNCHANGED issue
      BY <2>6 DEF PickRecipients, WriteAlerts, PushAlerts, AlertReporter, RecordAudit, tables
    <3>2. req[q] \in Running
      BY <2>6, AtStageIsRunning
         DEF PickRecipients, WriteAlerts, PushAlerts, AlertReporter, RecordAudit,
             TypeOK, ReqTyped, Stages
    <3>3. \A p \in Req : req'[p].pc = "checked" => req'[p] = req[p]
      BY <2>6, <3>2
         DEF PickRecipients, WriteAlerts, PushAlerts, AlertReporter, RecordAudit,
             Goto, Finish, Idle, TypeOK, Running
    <3>4. QED
      BY <3>1, <3>3, QuietStepKeepsChecked
  <2>7. QED
    BY <2>1, <2>2, <2>3, <2>4, <2>5, <2>6, CheckTransitionKeepsChecked,
       WriteTransitionKeepsChecked, ConstantsAssumption
       DEF Next, RequestStep
<1>3. CheckedInv => PublicWasChecked
  BY DEF CheckedInv
<1>4. QED
  BY <1>1, <1>2, <1>3, TypeInvariance, PTL DEF Spec
---------------------------------------------------------------------------
(* Evidence is the reporter's own                                          *)

\* A report that keeps its photographs and its reporter, or loses its
\* photographs, keeps the property.
LEMMA SameEvidence ==
    ASSUME EvidenceIsTheReportersOwn,
           \A i \in Issue :
              \/ issue'[i].media = {}
              \/ issue'[i].media = issue[i].media /\ issue'[i].reporter = issue[i].reporter
    PROVE  EvidenceIsTheReportersOwn'
BY DEF EvidenceIsTheReportersOwn

\* No interleaving attaches a photograph to the report of somebody who did not
\* upload it: submitIssue filters by owner, and no transition touches either
\* column.
THEOREM EvidenceIsOwn == Spec => []EvidenceIsTheReportersOwn
<1>1. Init => EvidenceIsTheReportersOwn
  BY DEF Init, EvidenceIsTheReportersOwn, Blank
<1>2. TypeOK /\ EvidenceIsTheReportersOwn /\ [Next]_vars => EvidenceIsTheReportersOwn'
  <2> SUFFICES ASSUME TypeOK, EvidenceIsTheReportersOwn, [Next]_vars
               PROVE  EvidenceIsTheReportersOwn'
    OBVIOUS
  <2>1. CASE UNCHANGED issue
    BY <2>1, SameEvidence
  <2>2. ASSUME NEW i \in Issue, NEW u \in User, NEW d \in District,
               NEW anonymous \in BOOLEAN, NEW mediaIds \in SUBSET Media,
               Submit(i, u, d, anonymous, mediaIds)
        PROVE  EvidenceIsTheReportersOwn'
    <3>1. /\ issue'[i].media = {m \in mediaIds : MediaOwner[m] = u}
          /\ issue'[i].reporter = u
          /\ \A j \in Issue \ {i} : issue'[j] = issue[j]
      BY <2>2 DEF Submit, Blank, TypeOK
    <3>2. QED
      BY <3>1 DEF EvidenceIsTheReportersOwn
  <2>3. ASSUME NEW q \in Req, WriteTransition(q)
        PROVE  EvidenceIsTheReportersOwn'
    <3>1. PICK i \in Issue, to \in Targets, actor \in User :
               req[q].issue = i /\ req[q].to = to /\ req[q].actor = actor
      BY <2>3, AtStageIsRunning DEF WriteTransition, TypeOK, ReqTyped, Stages, Running
    <3>2. \/ UNCHANGED issue
          \/ issue' = [issue EXCEPT ![i] = Moved(issue[i], to, actor)]
      BY <2>3, <3>1 DEF WriteTransition
    <3>3. \A j \in Issue :
             issue'[j].media = issue[j].media /\ issue'[j].reporter = issue[j].reporter
      <4>1. issue[i] \in IssueRow
        BY DEF TypeOK
      <4>2. /\ Moved(issue[i], to, actor).media = issue[i].media
            /\ Moved(issue[i], to, actor).reporter = issue[i].reporter
        BY <4>1, MovedIsARow
      <4>3. QED
        BY <3>2, <4>2 DEF TypeOK
    <3>4. QED
      BY <3>3, SameEvidence
  <2>4. CASE Purge
    BY <2>4, SameEvidence DEF Purge, Blank
  <2>5. CASE \/ \E u \in User, d \in District \cup {NoDistrict} : SetHomeDistrict(u, d)
             \/ \E u \in User : SetStatus(u)
             \/ \E q \in Req, u \in User, i \in Issue, to \in Targets : Authorise(q, u, i, to)
             \/ \E q \in Req : Crash(q)
             \/ \E i \in Issue : Age(i)
    BY <2>1, <2>5 DEF SetHomeDistrict, SetStatus, Authorise, Crash, Age, tables
  <2>6. ASSUME NEW q \in Req, RequestStep(q), ~WriteTransition(q)
        PROVE  EvidenceIsTheReportersOwn'
    BY <2>1, <2>6
       DEF RequestStep, CheckTransition, PickRecipients, WriteAlerts, PushAlerts,
           AlertReporter, RecordAudit, tables
  <2>7. QED
    BY <2>1, <2>2, <2>3, <2>4, <2>5, <2>6 DEF Next, vars
<1>3. QED
  BY <1>1, <1>2, TypeInvariance, PTL DEF Spec
---------------------------------------------------------------------------
(* Alerts, the audit log and what was deleted                              *)

AfterWrite == {"alert", "notify", "push", "reporter", "audit"}
DistrictAlert(u, i) == <<u, "ISSUE_IN_YOUR_DISTRICT", i>>

\* What a request may rely on once it has moved its report, until it ends: no
\* retention pass takes the report, whoever else moves it meanwhile.
FollowUp(q) ==
    LET r == req[q] IN
    /\ r.pc \in AfterWrite =>
           /\ Exists(r.issue) /\ r.issue \notin aged
           /\ [issue |-> r.issue, actor |-> r.actor, to |-> r.to] \in moves
    /\ r.pc \in {"notify", "push"} =>
           issue[r.issue].publishedAt /\ issue[r.issue].reporter \notin r.recipients
    /\ r.pc = "push" => \A u \in r.recipients : DistrictAlert(u, r.issue) \in notification

\* What the tables say of one another: notices are of reports that are there,
\* nobody was pushed about a report before it was filed, whatever was logged was
\* done.
TablesAgree ==
    /\ AlertsOnlyOfPublished /\ PushHasItsRow
    /\ \A n \in notification : Exists(n[3])
    /\ \A i \in Issue, u \in User : issue[i].status = "NONE" => pushed[<<u, i>>] = 0
    /\ audit \subseteq moves

AlertsInv == TablesAgree /\ \A q \in Req : FollowUp(q)

\* A request after its write is a running one.
LEMMA FollowUpIsRunning ==
    ASSUME TypeOK, NEW q \in Req, req[q].pc \in Stages
    PROVE  /\ req[q] \in Running /\ req[q].issue \in Issue /\ req[q].actor \in User
           /\ req[q].to \in Targets /\ req[q].recipients \subseteq User
BY AtStageIsRunning DEF TypeOK, ReqTyped, Running

\* If the tables stay, only the requests that moved matter.
LEMMA MovedRequestsKeepAlerts ==
    ASSUME AlertsInv, UNCHANGED <<issue, aged, notification, pushed, audit, moves>>,
           \A q \in Req : req'[q] = req[q] \/ FollowUp(q)'
    PROVE  AlertsInv'
<1>1. TablesAgree'
  BY DEF AlertsInv, TablesAgree, AlertsOnlyOfPublished, PushHasItsRow, Exists
<1>2. ASSUME NEW q \in Req PROVE FollowUp(q)'
  <2>1. CASE req'[q] = req[q]
    BY <2>1 DEF AlertsInv, FollowUp, Exists, DistrictAlert
  <2>2. QED
    BY <2>1
<1>3. QED
  BY <1>1, <1>2 DEF AlertsInv

\* A request that has ended, or has not written yet, relies on nothing.
LEMMA NothingToFollowUp ==
    ASSUME NEW q \in Req, req'[q].pc \in {"idle", "authorised", "checked"}
    PROVE  FollowUp(q)'
BY DEF FollowUp, AfterWrite

LEMMA EndedKeepsAlerts ==
    ASSUME TypeOK, AlertsInv, NEW q \in Req, Finish(q),
           UNCHANGED <<issue, aged, notification, pushed, audit, moves>>
    PROVE  AlertsInv'
<1>1. req'[q].pc = "idle" /\ \A p \in Req \ {q} : req'[p] = req[p]
  BY DEF Finish, Idle, TypeOK
<1>2. QED
  BY <1>1, NothingToFollowUp, MovedRequestsKeepAlerts

\* Filing: no request and no notice can have been about a report that was not
\* there.
LEMMA SubmitKeepsAlerts ==
    ASSUME TypeOK, AlertsInv, NEW i \in Issue, NEW u \in User, NEW d \in District,
           NEW anonymous \in BOOLEAN, NEW mediaIds \in SUBSET Media,
           Submit(i, u, d, anonymous, mediaIds)
    PROVE  AlertsInv'
<1>1. /\ issue[i].status = "NONE" /\ issue'[i].status = "SUBMITTED"
      /\ \A j \in Issue \ {i} : issue'[j] = issue[j]
      /\ UNCHANGED <<aged, notification, pushed, audit, moves, req>>
  BY DEF Submit, Blank, TypeOK
<1>2. \A n \in notification : n[3] \in Issue \ {i}
  <2>1. ~Exists(i)
    BY <1>1 DEF Exists, L!Statuses
  <2>2. QED
    BY <2>1 DEF AlertsInv, TablesAgree, TypeOK, NotificationRow
<1>3. TablesAgree'
  <2>1. AlertsOnlyOfPublished' /\ \A n \in notification' : Exists(n[3])'
    BY <1>1, <1>2 DEF AlertsInv, TablesAgree, AlertsOnlyOfPublished, Exists
  <2>2. \A v \in User : pushed[<<v, i>>] = 0
    BY <1>1 DEF AlertsInv, TablesAgree
  <2>3. PushHasItsRow'
    BY <1>1, <2>2 DEF AlertsInv, TablesAgree, PushHasItsRow, Exists
  <2>4. \A j \in Issue, v \in User : issue'[j].status = "NONE" => pushed'[<<v, j>>] = 0
    BY <1>1 DEF AlertsInv, TablesAgree
  <2>5. QED
    BY <1>1, <2>1, <2>3, <2>4 DEF AlertsInv, TablesAgree
<1>4. ASSUME NEW q \in Req PROVE FollowUp(q)'
  <2>1. CASE req[q].pc \in AfterWrite
    <3>1. req[q].issue \in Issue /\ Exists(req[q].issue)
      BY <2>1, FollowUpIsRunning DEF AlertsInv, FollowUp, AfterWrite, Stages
    <3>2. req[q].issue # i
      BY <1>1, <3>1 DEF Exists, L!Statuses
    <3>3. QED
      BY <1>1, <3>1, <3>2 DEF AlertsInv, FollowUp, Exists, DistrictAlert
  <2>2. CASE req[q].pc \notin AfterWrite
    BY <1>1, <2>2 DEF FollowUp, AfterWrite
  <2>3. QED
    BY <2>1, <2>2
<1>5. QED
  BY <1>3, <1>4 DEF AlertsInv

\* The retention period starts only when no request is running.
LEMMA AgeKeepsAlerts ==
    ASSUME AlertsInv, NEW i \in Issue, Age(i)
    PROVE  AlertsInv'
<1>1. /\ UNCHANGED <<issue, notification, pushed, audit, moves, req>>
      /\ \A q \in Req : req[q].pc = "idle"
  BY DEF Age, InFlight, Idle
<1>2. TablesAgree'
  BY <1>1 DEF AlertsInv, TablesAgree, AlertsOnlyOfPublished, PushHasItsRow, Exists
<1>3. \A q \in Req : FollowUp(q)'
  BY <1>1, NothingToFollowUp
<1>4. QED
  BY <1>2, <1>3 DEF AlertsInv

\* A pass takes reports that no request follows up, with their notices.
LEMMA PurgeKeepsAlerts ==
    ASSUME TypeOK, AlertsInv, Purge
    PROVE  AlertsInv'
<1> DEFINE old == {i \in aged : issue[i].status = "REJECTED"}
<1>1. /\ \A i \in Issue : IF i \in old THEN issue'[i].status = "DELETED"
                                       ELSE issue'[i] = issue[i]
      /\ aged' = aged \ old
      /\ notification' = {n \in notification : n[3] \notin old}
      /\ UNCHANGED <<pushed, audit, moves, req>> /\ old \subseteq aged
  BY DEF Purge, Blank
<1> HIDE DEF old
<1>2. \A n \in notification : n[3] \in Issue
  BY DEF TypeOK, NotificationRow
<1>3. TablesAgree'
  <2>1. AlertsOnlyOfPublished' /\ \A n \in notification' : Exists(n[3])'
    BY <1>1, <1>2 DEF AlertsInv, TablesAgree, AlertsOnlyOfPublished, Exists
  <2>2. ASSUME NEW v \in User, NEW i \in Issue, pushed'[<<v, i>>] > 0, Exists(i)'
        PROVE  DistrictAlert(v, i) \in notification'
    <3>1. i \notin old
      BY <1>1, <2>2 DEF Exists, L!Statuses
    <3>2. DistrictAlert(v, i) \in notification
      BY <1>1, <2>2, <3>1 DEF AlertsInv, TablesAgree, PushHasItsRow, Exists, DistrictAlert
    <3>3. QED
      BY <1>1, <3>1, <3>2 DEF DistrictAlert
  <2>3. \A j \in Issue, v \in User : issue'[j].status = "NONE" => pushed'[<<v, j>>] = 0
    BY <1>1 DEF AlertsInv, TablesAgree
  <2>4. PushHasItsRow'
    BY <2>2 DEF PushHasItsRow, DistrictAlert
  <2>5. QED
    BY <1>1, <2>1, <2>3, <2>4 DEF AlertsInv, TablesAgree
<1>4. ASSUME NEW q \in Req PROVE FollowUp(q)'
  <2>1. CASE req[q].pc \in AfterWrite
    <3>1. req[q].issue \in Issue /\ req[q].issue \notin old
      BY <1>1, <2>1, FollowUpIsRunning DEF AlertsInv, FollowUp, AfterWrite, Stages
    <3>2. \A u \in req[q].recipients :
              DistrictAlert(u, req[q].issue) \in notification
                  => DistrictAlert(u, req[q].issue) \in notification'
      BY <1>1, <3>1 DEF DistrictAlert
    <3>3. QED
      BY <1>1, <2>1, <3>1, <3>2 DEF AlertsInv, FollowUp, Exists
  <2>2. CASE req[q].pc \notin AfterWrite
    BY <1>1, <2>2 DEF FollowUp, AfterWrite
  <2>3. QED
    BY <2>1, <2>2
<1>5. QED
  BY <1>3, <1>4 DEF AlertsInv

\* Moving a report keeps it, its reporter and its stamps, and makes it young.
LEMMA WriteTransitionKeepsAlerts ==
    ASSUME ConstantsAssumption, TypeOK, AlertsInv, NEW q \in Req, WriteTransition(q)
    PROVE  AlertsInv'
<1>1. PICK i \in Issue, to \in Targets, actor \in User :
             req[q].issue = i /\ req[q].to = to /\ req[q].actor = actor
  BY FollowUpIsRunning DEF WriteTransition, Stages
<1> DEFINE move == [issue |-> i, actor |-> actor, to |-> to]
<1>2. CASE Finish(q) /\ UNCHANGED <<issue, aged, moves>>
  BY <1>2, EndedKeepsAlerts DEF WriteTransition
<1>3. CASE /\ Exists(i) /\ issue' = [issue EXCEPT ![i] = Moved(issue[i], to, actor)]
           /\ aged' = aged \ {i} /\ moves' = moves \cup {move}
           /\ Goto(q, IF to = "PUBLISHED" THEN "alert" ELSE "reporter")
  <2>1. issue[i] \in IssueRow
    BY DEF TypeOK
  <2>2. /\ issue'[i] = Moved(issue[i], to, actor)
        /\ \A j \in Issue \ {i} : issue'[j] = issue[j]
        /\ UNCHANGED <<notification, pushed, audit>>
    BY <1>3 DEF TypeOK, WriteTransition
  <2>3. /\ issue'[i].status = to /\ issue'[i].reporter = issue[i].reporter
        /\ issue[i].publishedAt => issue'[i].publishedAt
    BY <2>1, <2>2, MovedIsARow, MovedKeepsStamps
  <2>4. Exists(i) /\ Exists(i)' /\ issue'[i].status # "NONE"
    BY <1>3, <2>3 DEF Exists, Targets, L!Statuses
  <2>5. TablesAgree'
    <3>1. \A n \in notification : n[3] \in Issue
      BY DEF TypeOK, NotificationRow
    <3>2. AlertsOnlyOfPublished' /\ \A n \in notification' : Exists(n[3])'
      BY <2>2, <2>3, <2>4, <3>1 DEF AlertsInv, TablesAgree, AlertsOnlyOfPublished, Exists
    <3>3. PushHasItsRow'
      BY <2>2, <2>4 DEF AlertsInv, TablesAgree, PushHasItsRow, Exists
    <3>4. \A j \in Issue, v \in User : issue'[j].status = "NONE" => pushed'[<<v, j>>] = 0
      BY <2>2, <2>4 DEF AlertsInv, TablesAgree
    <3>5. QED
      BY <1>3, <2>2, <3>2, <3>3, <3>4 DEF AlertsInv, TablesAgree
  <2>6. ASSUME NEW p \in Req PROVE FollowUp(p)'
    <3>1. CASE p = q
      <4>1. /\ req'[q].pc \in {"alert", "reporter"}
            /\ req'[q].issue = i /\ req'[q].actor = actor /\ req'[q].to = to
        <5>1. req[q] \in Running
          BY FollowUpIsRunning DEF WriteTransition, Stages
        <5>2. QED
          BY <1>1, <1>3, <5>1 DEF Goto, TypeOK, Running
      <4>2. i \notin aged' /\ move \in moves'
        BY <1>3
      <4>3. QED
        BY <2>4, <3>1, <4>1, <4>2 DEF FollowUp, Exists
    <3>2. CASE p # q /\ req[p].pc \in AfterWrite
      <4>1. req'[p] = req[p]
        BY <1>3, <3>2 DEF Goto, TypeOK
      <4>2. req[p].issue \in Issue
        BY <3>2, FollowUpIsRunning DEF AfterWrite, Stages
      <4>3. PICK j \in Issue : req[p].issue = j
        BY <4>2
      <4>4. Exists(j) /\ j \notin aged
        BY <3>2, <4>3 DEF AlertsInv, FollowUp
      <4>5. /\ Exists(j)' /\ j \notin aged' /\ moves \subseteq moves'
            /\ issue'[j].reporter = issue[j].reporter
            /\ issue[j].publishedAt => issue'[j].publishedAt
        <5>1. CASE j = i
          BY <1>3, <2>3, <2>4, <4>4, <5>1
        <5>2. CASE j # i
          BY <1>3, <2>2, <4>4, <5>2 DEF Exists
        <5>3. QED
          BY <5>1, <5>2
      <4>6. QED
        BY <2>2, <3>2, <4>1, <4>3, <4>5 DEF AlertsInv, FollowUp, Exists, DistrictAlert
    <3>3. CASE p # q /\ req[p].pc \notin AfterWrite
      <4>1. req'[p] = req[p]
        BY <1>3, <3>3 DEF Goto, TypeOK
      <4>2. QED
        BY <3>3, <4>1 DEF FollowUp, AfterWrite
    <3>4. QED
      BY <3>1, <3>2, <3>3
  <2>7. QED
    BY <2>5, <2>6 DEF AlertsInv
<1>4. QED
  BY <1>1, <1>2, <1>3 DEF WriteTransition

\* Whom a pass alerts lives there and did not file it; what it alerts of was
\* published.
LEMMA PickRecipientsKeepsAlerts ==
    ASSUME TypeOK, PublicWasChecked, AlertsInv, NEW q \in Req, PickRecipients(q)
    PROVE  AlertsInv'
<1> DEFINE i == req[q].issue
<1>1. req[q] \in Running /\ i \in Issue /\ UNCHANGED tables
  BY FollowUpIsRunning DEF PickRecipients, Stages
<1>2. Exists(i) /\ i \notin aged /\ [issue |-> i, actor |-> req[q].actor, to |-> req[q].to] \in moves
  BY DEF PickRecipients, AlertsInv, FollowUp, AfterWrite
<1>3. CASE Goto(q, "reporter")
  <2>1. /\ \A p \in Req \ {q} : req'[p] = req[p]
        /\ req'[q].pc = "reporter" /\ req'[q].issue = i
        /\ req'[q].actor = req[q].actor /\ req'[q].to = req[q].to
    BY <1>1, <1>3 DEF Goto, TypeOK, Running
  <2>2. FollowUp(q)'
    BY <1>1, <1>2, <2>1 DEF FollowUp, Exists, tables
  <2>3. QED
    BY <1>1, <2>1, <2>2, MovedRequestsKeepAlerts DEF tables
<1>4. CASE /\ issue[i].status = "PUBLISHED"
           /\ \E batch \in SUBSET Residents(i) :
                  req' = [req EXCEPT ![q].pc = "notify", ![q].recipients = batch]
  <2>1. PICK batch \in SUBSET Residents(i) :
             req' = [req EXCEPT ![q].pc = "notify", ![q].recipients = batch]
    BY <1>4
  <2>2. /\ \A p \in Req \ {q} : req'[p] = req[p]
        /\ req'[q].pc = "notify" /\ req'[q].issue = i /\ req'[q].recipients = batch
        /\ req'[q].actor = req[q].actor /\ req'[q].to = req[q].to
    BY <1>1, <2>1 DEF TypeOK, Running
  <2>3. issue[i].publishedAt /\ issue[i].reporter \notin batch
    BY <1>1, <1>4 DEF PublicWasChecked, L!PublicStatuses, Residents
  <2>4. FollowUp(q)'
    BY <1>1, <1>2, <2>2, <2>3 DEF FollowUp, Exists, tables
  <2>5. QED
    BY <1>1, <2>2, <2>4, MovedRequestsKeepAlerts DEF tables
<1>5. QED
  BY <1>3, <1>4 DEF PickRecipients

LEMMA WriteAlertsKeepsAlerts ==
    ASSUME TypeOK, AlertsInv, NEW q \in Req, WriteAlerts(q)
    PROVE  AlertsInv'
<1> DEFINE i == req[q].issue
           new == {DistrictAlert(u, i) : u \in req[q].recipients}
<1>1. /\ req[q] \in Running /\ i \in Issue
      /\ notification' = notification \cup new /\ Goto(q, "push")
      /\ UNCHANGED <<issue, aged, pushed, audit, moves>>
  BY FollowUpIsRunning DEF WriteAlerts, Stages, DistrictAlert
<1>2. /\ Exists(i) /\ i \notin aged /\ [issue |-> i, actor |-> req[q].actor, to |-> req[q].to] \in moves
      /\ issue[i].publishedAt /\ issue[i].reporter \notin req[q].recipients
  BY DEF WriteAlerts, AlertsInv, FollowUp, AfterWrite
<1>3. /\ \A p \in Req \ {q} : req'[p] = req[p]
      /\ req'[q].pc = "push" /\ req'[q].issue = i /\ req'[q].recipients = req[q].recipients
      /\ req'[q].actor = req[q].actor /\ req'[q].to = req[q].to
  BY <1>1 DEF Goto, TypeOK, Running
<1>4. \A n \in new : n[3] = i /\ n[1] \in req[q].recipients
  BY DEF DistrictAlert
<1>5. \A u \in req[q].recipients : DistrictAlert(u, i) \in new
  OBVIOUS
<1> HIDE DEF new
<1>6. TablesAgree'
  <2>1. AlertsOnlyOfPublished' /\ \A n \in notification' : Exists(n[3])'
    BY <1>1, <1>2, <1>4 DEF AlertsInv, TablesAgree, AlertsOnlyOfPublished, Exists
  <2>2. PushHasItsRow'
    BY <1>1 DEF AlertsInv, TablesAgree, PushHasItsRow, Exists
  <2>3. QED
    BY <1>1, <2>1, <2>2 DEF AlertsInv, TablesAgree
<1>7. ASSUME NEW p \in Req PROVE FollowUp(p)'
  <2>1. CASE p = q
    BY <1>1, <1>2, <1>3, <1>5, <2>1 DEF FollowUp, Exists
  <2>2. CASE p # q
    BY <1>1, <1>3, <2>2 DEF AlertsInv, FollowUp, Exists
  <2>3. QED
    BY <2>1, <2>2
<1>8. QED
  BY <1>6, <1>7 DEF AlertsInv

LEMMA PushAlertsKeepsAlerts ==
    ASSUME TypeOK, AlertsInv, NEW q \in Req, PushAlerts(q)
    PROVE  AlertsInv'
<1> DEFINE i == req[q].issue
<1>1. /\ req[q] \in Running /\ i \in Issue /\ Goto(q, "reporter")
      /\ UNCHANGED <<issue, aged, notification, audit, moves>>
  BY FollowUpIsRunning DEF PushAlerts, Stages
<1>2. /\ Exists(i) /\ i \notin aged /\ [issue |-> i, actor |-> req[q].actor, to |-> req[q].to] \in moves
      /\ \A u \in req[q].recipients : DistrictAlert(u, i) \in notification
  BY DEF PushAlerts, AlertsInv, FollowUp, AfterWrite
<1>3. /\ \A p \in Req \ {q} : req'[p] = req[p]
      /\ req'[q].pc = "reporter" /\ req'[q].issue = i
      /\ req'[q].actor = req[q].actor /\ req'[q].to = req[q].to
  BY <1>1 DEF Goto, TypeOK, Running
<1>4. \A u \in User, j \in Issue :
          pushed'[<<u, j>>] = pushed[<<u, j>>] \/ (j = i /\ u \in req[q].recipients)
  BY DEF PushAlerts
<1>5. TablesAgree'
  <2>1. AlertsOnlyOfPublished' /\ \A n \in notification' : Exists(n[3])'
    BY <1>1 DEF AlertsInv, TablesAgree, AlertsOnlyOfPublished, Exists
  <2>2. PushHasItsRow'
    BY <1>1, <1>2, <1>4 DEF AlertsInv, TablesAgree, PushHasItsRow, Exists, DistrictAlert
  <2>3. issue[i].status # "NONE"
    BY <1>2 DEF Exists, L!Statuses
  <2>4. \A j \in Issue, v \in User : issue'[j].status = "NONE" => pushed'[<<v, j>>] = 0
    BY <1>1, <1>4, <2>3 DEF AlertsInv, TablesAgree
  <2>5. QED
    BY <1>1, <2>1, <2>2, <2>4 DEF AlertsInv, TablesAgree
<1>6. ASSUME NEW p \in Req PROVE FollowUp(p)'
  <2>1. CASE p = q
    BY <1>1, <1>2, <1>3, <2>1 DEF FollowUp, Exists
  <2>2. CASE p # q
    BY <1>1, <1>3, <2>2 DEF AlertsInv, FollowUp, Exists, DistrictAlert
  <2>3. QED
    BY <2>1, <2>2
<1>7. QED
  BY <1>5, <1>6 DEF AlertsInv

LEMMA AlertReporterKeepsAlerts ==
    ASSUME TypeOK, AlertsInv, NEW q \in Req, AlertReporter(q)
    PROVE  AlertsInv'
<1> DEFINE i == req[q].issue
           notice == <<issue[i].reporter, "YOUR_ISSUE_UPDATED", i>>
<1>1. Exists(i) /\ i \notin aged /\ [issue |-> i, actor |-> req[q].actor, to |-> req[q].to] \in moves
  BY DEF AlertReporter, AlertsInv, FollowUp, AfterWrite
<1>2. /\ req[q] \in Running /\ i \in Issue /\ Goto(q, "audit")
      /\ notification' = notification \cup {notice}
      /\ UNCHANGED <<issue, aged, pushed, audit, moves>>
  BY <1>1, FollowUpIsRunning DEF AlertReporter, Stages
<1>3. /\ \A p \in Req \ {q} : req'[p] = req[p]
      /\ req'[q].pc = "audit" /\ req'[q].issue = i
      /\ req'[q].actor = req[q].actor /\ req'[q].to = req[q].to
  BY <1>2 DEF Goto, TypeOK, Running
<1>4. notice[2] # "ISSUE_IN_YOUR_DISTRICT" /\ notice[3] = i
  OBVIOUS
<1> HIDE DEF notice
<1>5. TablesAgree'
  <2>1. AlertsOnlyOfPublished' /\ \A n \in notification' : Exists(n[3])'
    BY <1>1, <1>2, <1>4 DEF AlertsInv, TablesAgree, AlertsOnlyOfPublished, Exists
  <2>2. PushHasItsRow'
    BY <1>2 DEF AlertsInv, TablesAgree, PushHasItsRow, Exists
  <2>3. QED
    BY <1>2, <2>1, <2>2 DEF AlertsInv, TablesAgree
<1>6. ASSUME NEW p \in Req PROVE FollowUp(p)'
  <2>1. CASE p = q
    BY <1>1, <1>2, <1>3, <2>1 DEF FollowUp, Exists
  <2>2. CASE p # q
    BY <1>2, <1>3, <2>2 DEF AlertsInv, FollowUp, Exists
  <2>3. QED
    BY <2>1, <2>2
<1>7. QED
  BY <1>5, <1>6 DEF AlertsInv

\* The row of the audit log is about a move that was made.
LEMMA RecordAuditKeepsAlerts ==
    ASSUME TypeOK, AlertsInv, NEW q \in Req, RecordAudit(q)
    PROVE  AlertsInv'
<1>1. /\ audit' = audit \cup {[issue |-> req[q].issue, actor |-> req[q].actor, to |-> req[q].to]}
      /\ Finish(q) /\ UNCHANGED <<issue, aged, notification, pushed, moves>>
  BY DEF RecordAudit
<1>2. [issue |-> req[q].issue, actor |-> req[q].actor, to |-> req[q].to] \in moves
  BY DEF RecordAudit, AlertsInv, FollowUp, AfterWrite
<1>3. TablesAgree'
  BY <1>1, <1>2 DEF AlertsInv, TablesAgree, AlertsOnlyOfPublished, PushHasItsRow, Exists
<1>4. req'[q].pc = "idle" /\ \A p \in Req \ {q} : req'[p] = req[p]
  BY <1>1 DEF Finish, Idle, TypeOK
<1>5. ASSUME NEW p \in Req \ {q} PROVE FollowUp(p)'
  BY <1>1, <1>4 DEF AlertsInv, FollowUp, Exists, DistrictAlert
<1>6. QED
  BY <1>3, <1>4, <1>5, NothingToFollowUp DEF AlertsInv

LEMMA StepKeepsAlerts ==
    ASSUME ConstantsAssumption, TypeOK, PublicWasChecked, AlertsInv, [Next]_vars
    PROVE  AlertsInv'
<1>1. ASSUME UNCHANGED <<issue, aged, notification, pushed, audit, moves, req>>
      PROVE  AlertsInv'
  BY <1>1, MovedRequestsKeepAlerts
<1>2. ASSUME NEW i \in Issue, NEW u \in User, NEW d \in District,
             NEW anonymous \in BOOLEAN, NEW mediaIds \in SUBSET Media,
             Submit(i, u, d, anonymous, mediaIds)
      PROVE  AlertsInv'
  BY <1>2, SubmitKeepsAlerts
<1>3. CASE \/ \E u \in User, d \in District \cup {NoDistrict} : SetHomeDistrict(u, d)
           \/ \E u \in User : SetStatus(u)
           \/ UNCHANGED vars
  BY <1>1, <1>3 DEF SetHomeDistrict, SetStatus, vars
<1>4. ASSUME NEW q \in Req, NEW u \in User, NEW i \in Issue, NEW to \in Targets,
             Authorise(q, u, i, to)
      PROVE  AlertsInv'
  <2>1. req'[q].pc = "authorised" /\ \A p \in Req \ {q} : req'[p] = req[p]
    BY <1>4 DEF Authorise, TypeOK
  <2>2. QED
    BY <1>4, <2>1, NothingToFollowUp, MovedRequestsKeepAlerts DEF Authorise, tables
<1>5. ASSUME NEW q \in Req, CheckTransition(q)
      PROVE  AlertsInv'
  <2>1. req[q] \in Running
    BY <1>5, FollowUpIsRunning DEF CheckTransition, Stages
  <2>2. /\ req'[q].pc \in {"checked", "idle"} /\ \A p \in Req \ {q} : req'[p] = req[p]
        /\ UNCHANGED tables
    BY <1>5, <2>1 DEF CheckTransition, Goto, Finish, Idle, TypeOK, Running
  <2>3. QED
    BY <2>2, NothingToFollowUp, MovedRequestsKeepAlerts DEF tables
<1>6. ASSUME NEW q \in Req, RequestStep(q), ~CheckTransition(q)
      PROVE  AlertsInv'
  BY <1>6, WriteTransitionKeepsAlerts, PickRecipientsKeepsAlerts, WriteAlertsKeepsAlerts,
     PushAlertsKeepsAlerts, AlertReporterKeepsAlerts, RecordAuditKeepsAlerts DEF RequestStep
<1>7. ASSUME NEW q \in Req, Crash(q)
      PROVE  AlertsInv'
  BY <1>7, EndedKeepsAlerts DEF Crash, tables
<1>8. CASE \/ \E i \in Issue : Age(i)
           \/ Purge
  BY <1>8, AgeKeepsAlerts, PurgeKeepsAlerts
<1>9. QED
  BY <1>2, <1>3, <1>4, <1>5, <1>6, <1>7, <1>8 DEF Next

\* What alerts, notices and the audit log rest on holds in every reachable state.
THEOREM AlertsInvariance == Spec => []AlertsInv
<1>1. Init => AlertsInv
  <2> SUFFICES ASSUME Init PROVE AlertsInv
    OBVIOUS
  <2>1. TablesAgree
    BY DEF Init, TablesAgree, AlertsOnlyOfPublished, PushHasItsRow
  <2>2. \A q \in Req : FollowUp(q)
    BY DEF Init, FollowUp, AfterWrite, Idle
  <2>3. QED
    BY <2>1, <2>2 DEF AlertsInv
<1>2. TypeOK /\ PublicWasChecked /\ AlertsInv /\ [Next]_vars => AlertsInv'
  BY StepKeepsAlerts, ConstantsAssumption
<1>3. QED
  BY <1>1, <1>2, TypeInvariance, PublicIsChecked, PTL DEF Spec

\* An alert, which cannot be recalled, is of a report that was published and does
\* not go to whoever filed it; a push finds its row in the bell, however many
\* queue actions, moves of home and retention passes interleave.
THEOREM AlertsStayInOrder == Spec => []AlertsAreInOrder
<1>1. AlertsInv => AlertsAreInOrder
  BY DEF AlertsInv, TablesAgree, AlertsAreInOrder
<1>2. QED
  BY <1>1, AlertsInvariance, PTL

\* The audit log says nothing of who filed an anonymous report: whatever is in it
\* was done in the queue.
THEOREM NoTrail == Spec => []AnonymousFilingLeavesNoTrail
<1>1. AlertsInv => AnonymousFilingLeavesNoTrail
  BY DEF AlertsInv, TablesAgree, AnonymousFilingLeavesNoTrail
<1>2. QED
  BY <1>1, AlertsInvariance, PTL

\* A report that retention removed is not brought back, and no notice points at
\* it, whatever was under way when the pass ran.
THEOREM DeletedIsGone == Spec => DeletedStaysDeleted
<1>1. TypeOK /\ AlertsInv /\ AlertsInv' /\ [Next]_vars =>
          [\A i \in Issue :
              issue[i].status = "DELETED" =>
                  /\ issue'[i].status = "DELETED"
                  /\ \A n \in notification' : n[3] # i]_vars
  <2> SUFFICES ASSUME TypeOK, AlertsInv, AlertsInv', [Next]_vars,
                      NEW i \in Issue, issue[i].status = "DELETED"
               PROVE  issue'[i].status = "DELETED" /\ \A n \in notification' : n[3] # i
    OBVIOUS
  <2>1. ~Exists(i)
    BY DEF Exists, L!Statuses
  <2>2. issue'[i].status = "DELETED"
    <3>1. CASE UNCHANGED issue
      BY <3>1
    <3>2. ASSUME NEW j \in Issue, NEW u \in User, NEW d \in District,
                 NEW anonymous \in BOOLEAN, NEW mediaIds \in SUBSET Media,
                 Submit(j, u, d, anonymous, mediaIds)
          PROVE  issue'[i].status = "DELETED"
      BY <3>2 DEF Submit, TypeOK
    <3>3. ASSUME NEW q \in Req, WriteTransition(q)
          PROVE  issue'[i].status = "DELETED"
      BY <2>1, <3>3 DEF WriteTransition, TypeOK
    <3>4. CASE Purge
      BY <3>4 DEF Purge, Blank
    <3>5. QED
      BY <3>1, <3>2, <3>3, <3>4
         DEF Next, vars, SetHomeDistrict, SetStatus, Authorise, RequestStep, CheckTransition,
             PickRecipients, WriteAlerts, PushAlerts, AlertReporter, RecordAudit, Crash, Age, tables
  <2>3. ~Exists(i)'
    BY <2>2 DEF Exists, L!Statuses
  <2>4. QED
    BY <2>2, <2>3 DEF AlertsInv, TablesAgree, Exists
<1>2. QED
  BY <1>1, TypeInvariance, AlertsInvariance, PTL DEF Spec, DeletedStaysDeleted
---------------------------------------------------------------------------
(* One request at a time follows the transition table                      *)

OneAtATime == \A p, q \in Req : p = q

\* What was checked is still so when it is written, or the row is gone.
StillAllowed ==
    \A q \in Req :
        LET status == issue[req[q].issue].status IN
        req[q].pc = "checked" => L!CanTransition(status, req[q].to) \/ status = "DELETED"

LEMMA QuietStepKeepsAllowed ==
    ASSUME StillAllowed, UNCHANGED issue,
           \A q \in Req : req'[q].pc = "checked" => req'[q] = req[q]
    PROVE  StillAllowed'
BY DEF StillAllowed

LEMMA StepKeepsAllowed ==
    ASSUME ConstantsAssumption, OneAtATime, TypeOK, StillAllowed, [Next]_vars
    PROVE  StillAllowed'
<1>1. CASE UNCHANGED vars
  BY <1>1, QuietStepKeepsAllowed DEF vars
<1>2. ASSUME NEW i \in Issue, NEW u \in User, NEW d \in District,
             NEW anonymous \in BOOLEAN, NEW mediaIds \in SUBSET Media,
             Submit(i, u, d, anonymous, mediaIds)
      PROVE  StillAllowed'
  <2>1. /\ issue[i].status = "NONE" /\ req' = req
        /\ \A j \in Issue \ {i} : issue'[j] = issue[j]
    BY <1>2 DEF Submit, TypeOK
  <2>2. ASSUME NEW q \in Req, req[q].pc = "checked"
        PROVE  issue'[req[q].issue] = issue[req[q].issue]
    <3>1. req[q].issue \in Issue
      BY <2>2, FollowUpIsRunning DEF Stages
    <3>2. issue[req[q].issue].status # "NONE"
      BY <2>2 DEF StillAllowed, L!CanTransition, L!Statuses
    <3>3. QED
      BY <2>1, <3>1, <3>2
  <2>3. QED
    BY <2>1, <2>2 DEF StillAllowed
<1>3. CASE \/ \E u \in User, d \in District \cup {NoDistrict} : SetHomeDistrict(u, d)
           \/ \E u \in User : SetStatus(u)
           \/ \E i \in Issue : Age(i)
  BY <1>3, QuietStepKeepsAllowed DEF SetHomeDistrict, SetStatus, Age
<1>4. CASE Purge
  <2>1. /\ \A i \in Issue : issue'[i] = issue[i] \/ issue'[i].status = "DELETED"
        /\ req' = req
    BY <1>4 DEF Purge, Blank
  <2>2. \A q \in Req : req[q].pc = "checked" => req[q].issue \in Issue
    BY FollowUpIsRunning DEF Stages
  <2>3. QED
    BY <2>1, <2>2 DEF StillAllowed
<1>5. ASSUME NEW q \in Req,
             \/ \E u \in User, i \in Issue, to \in Targets : Authorise(q, u, i, to)
             \/ Crash(q)
      PROVE  StillAllowed'
  <2>1. UNCHANGED issue
    BY <1>5 DEF Authorise, Crash, tables
  <2>2. \A p \in Req : req'[p].pc = "checked" => req'[p] = req[p]
    BY <1>5 DEF Authorise, Crash, Finish, Idle, TypeOK
  <2>3. QED
    BY <2>1, <2>2, QuietStepKeepsAllowed
<1>6. ASSUME NEW q \in Req, CheckTransition(q)
      PROVE  StillAllowed'
  <2>1. req[q] \in Running /\ req[q].issue \in Issue /\ UNCHANGED issue
    BY <1>6, FollowUpIsRunning DEF CheckTransition, Stages, tables
  <2>2. CASE L!CanTransition(issue[req[q].issue].status, req[q].to) /\ Goto(q, "checked")
    <3>1. \A p \in Req \ {q} : req'[p] = req[p]
      BY <2>2 DEF Goto, TypeOK
    <3>2. req'[q].issue = req[q].issue /\ req'[q].to = req[q].to
      BY <2>1, <2>2 DEF Goto, TypeOK, Running
    <3>3. QED
      BY <2>1, <2>2, <3>1, <3>2 DEF StillAllowed
  <2>3. CASE Finish(q)
    BY <2>1, <2>3, QuietStepKeepsAllowed DEF Finish, Idle, TypeOK
  <2>4. QED
    BY <1>6, <2>2, <2>3 DEF CheckTransition
<1>7. ASSUME NEW q \in Req, WriteTransition(q)
      PROVE  StillAllowed'
  <2>1. req'[q].pc # "checked"
    <3>1. req[q] \in Running
      BY <1>7, FollowUpIsRunning DEF WriteTransition, Stages
    <3>2. QED
      BY <1>7, <3>1 DEF WriteTransition, Goto, Finish, Idle, TypeOK, Running
  <2>2. \A p \in Req : p = q
    BY DEF OneAtATime
  <2>3. QED
    BY <2>1, <2>2 DEF StillAllowed
<1>8. ASSUME NEW q \in Req,
             \/ PickRecipients(q) \/ WriteAlerts(q) \/ PushAlerts(q)
             \/ AlertReporter(q) \/ RecordAudit(q)
      PROVE  StillAllowed'
  <2>1. UNCHANGED issue
    BY <1>8 DEF PickRecipients, WriteAlerts, PushAlerts, AlertReporter, RecordAudit, tables
  <2>2. req[q] \in Running
    BY <1>8, FollowUpIsRunning
       DEF PickRecipients, WriteAlerts, PushAlerts, AlertReporter, RecordAudit, Stages
  <2>3. \A p \in Req : req'[p].pc = "checked" => req'[p] = req[p]
    BY <1>8, <2>2
       DEF PickRecipients, WriteAlerts, PushAlerts, AlertReporter, RecordAudit,
           Goto, Finish, Idle, TypeOK, Running
  <2>4. QED
    BY <2>1, <2>3, QuietStepKeepsAllowed
<1>9. QED
  BY <1>1, <1>2, <1>3, <1>4, <1>5, <1>6, <1>7, <1>8 DEF Next, RequestStep

\* A step of the code is a step of the lifecycle, or leaves every status.
LEMMA StepFollowsLifecycle ==
    ASSUME ConstantsAssumption, TypeOK, StillAllowed, [Next]_vars
    PROVE  [L!Next]_([i \in Issue |-> issue[i].status])
<1> DEFINE stage == [i \in Issue |-> issue[i].status]
<1>1. CASE UNCHANGED issue
  BY <1>1
<1>2. ASSUME NEW i \in Issue, NEW u \in User, NEW d \in District,
             NEW anonymous \in BOOLEAN, NEW mediaIds \in SUBSET Media,
             Submit(i, u, d, anonymous, mediaIds)
      PROVE  L!Next
  <2>1. stage[i] = "NONE" /\ stage' = [stage EXCEPT ![i] = "SUBMITTED"]
    <3>1. /\ issue[i].status = "NONE" /\ issue'[i].status = "SUBMITTED"
          /\ \A j \in Issue \ {i} : issue'[j] = issue[j]
      BY <1>2 DEF Submit, Blank, TypeOK
    <3>2. QED
      BY <3>1
  <2>2. QED
    BY <2>1 DEF L!Next, L!File
<1>3. ASSUME NEW q \in Req, WriteTransition(q), ~UNCHANGED issue
      PROVE  L!Next
  <2>1. PICK i \in Issue, to \in Targets, actor \in User :
               req[q].issue = i /\ req[q].to = to /\ req[q].actor = actor
    BY <1>3, FollowUpIsRunning DEF WriteTransition, Stages
  <2>2. Exists(i) /\ issue' = [issue EXCEPT ![i] = Moved(issue[i], to, actor)]
    BY <1>3, <2>1 DEF WriteTransition
  <2>3. /\ issue'[i].status = to
        /\ \A j \in Issue \ {i} : issue'[j] = issue[j]
    BY <2>2, MovedIsARow DEF TypeOK
  <2>4. L!CanTransition(issue[i].status, to)
    BY <1>3, <2>1, <2>2 DEF StillAllowed, WriteTransition, Exists, L!Statuses
  <2>5. L!CanTransition(stage[i], to) /\ stage' = [stage EXCEPT ![i] = to]
    BY <2>3, <2>4
  <2>6. QED
    BY <2>5 DEF L!Next, L!Move, Targets
<1>4. CASE Purge
  <2> DEFINE old == {i \in aged : issue[i].status = "REJECTED"}
  <2>1. issue' = [i \in Issue |-> IF i \in old THEN Blank("DELETED") ELSE issue[i]]
    BY <1>4 DEF Purge
  <2>2. old \in SUBSET Issue /\ \A i \in old : stage[i] = "REJECTED"
    BY DEF TypeOK
  <2>3. stage' = [i \in Issue |-> IF i \in old THEN "DELETED" ELSE stage[i]]
    BY <2>1 DEF Blank
  <2> HIDE DEF old
  <2>4. QED
    BY <2>2, <2>3 DEF L!Next, L!Forget
<1>5. QED
  BY ZenonT(60), <1>1, <1>2, <1>3, <1>4
     DEF Next, vars, SetHomeDistrict, SetStatus, Authorise, RequestStep, CheckTransition,
         PickRecipients, WriteAlerts, PushAlerts, AlertReporter, RecordAudit, Crash, Age, tables

\* If no two queue actions overlap, the code implements the transition table:
\* every change of a status is one the table has, and only what was rejected is
\* ever deleted (canTransition, transitionIssue, runRetention).
THEOREM FollowsLifecycleOneAtATime == OneAtATime => (Spec => FollowsLifecycle)
<1>1. ASSUME OneAtATime PROVE Spec => FollowsLifecycle
  <2>1. Init => L!Init /\ StillAllowed
    BY DEF Init, L!Init, Blank, StillAllowed, Idle
  <2>2. TypeOK /\ StillAllowed /\ [Next]_vars => StillAllowed'
    BY <1>1, StepKeepsAllowed, ConstantsAssumption
  <2>3. TypeOK /\ StillAllowed /\ [Next]_vars => [L!Next]_([i \in Issue |-> issue[i].status])
    BY StepFollowsLifecycle, ConstantsAssumption
  <2>4. QED
    BY <2>1, <2>2, <2>3, TypeInvariance, PTL DEF Spec, FollowsLifecycle, L!Spec
<1>2. QED
  BY <1>1
---------------------------------------------------------------------------
(* One request at a time pushes once                                       *)

Alerting == {"alert", "notify", "push"}

\* Only a published report has been pushed, and none that is being alerted of has.
PushesAreNew ==
    /\ \A i \in Issue, u \in User :
           issue[i].status \notin L!PublicStatuses => pushed[<<u, i>>] = 0
    /\ \A q \in Req :
           req[q].pc \in Alerting =>
               /\ issue[req[q].issue].status = "PUBLISHED"
               /\ \A u \in User : pushed[<<u, req[q].issue>>] = 0
    /\ NobodyIsPushedTwice

\* The table has one way into publication and none back.
LEMMA PublishedOnce ==
    ASSUME NEW from \in L!Statuses, NEW to, L!CanTransition(from, to)
    PROVE  /\ to = "PUBLISHED" => from = "VERIFIED"
           /\ from \in L!PublicStatuses => to = "RESOLVED"
BY DEF L!CanTransition, L!Transitions, L!Statuses, L!PublicStatuses

LEMMA QuietStepKeepsPushes ==
    ASSUME PushesAreNew, UNCHANGED <<issue, pushed>>,
           \A q \in Req : req'[q].pc \in Alerting =>
               req[q].pc \in Alerting /\ req'[q].issue = req[q].issue
    PROVE  PushesAreNew'
<1>1. NobodyIsPushedTwice'
  BY DEF PushesAreNew, NobodyIsPushedTwice
<1>2. \A i \in Issue, u \in User :
          issue'[i].status \notin L!PublicStatuses => pushed'[<<u, i>>] = 0
  BY DEF PushesAreNew
<1>3. ASSUME NEW q \in Req, req'[q].pc \in Alerting
      PROVE  /\ issue'[req'[q].issue].status = "PUBLISHED"
             /\ \A u \in User : pushed'[<<u, req'[q].issue>>] = 0
  BY <1>3 DEF PushesAreNew
<1>4. QED
  BY <1>1, <1>2, <1>3 DEF PushesAreNew

\* Rows change under a push only if nothing public is touched.
LEMMA RowStepKeepsPushes ==
    ASSUME PushesAreNew, UNCHANGED <<pushed, req>>, TypeOK,
           \A i \in Issue : issue'[i] = issue[i] \/ issue[i].status \notin L!PublicStatuses
    PROVE  PushesAreNew'
<1>1. NobodyIsPushedTwice'
  BY DEF PushesAreNew, NobodyIsPushedTwice
<1>2. ASSUME NEW i \in Issue, NEW u \in User, issue'[i].status \notin L!PublicStatuses
      PROVE  pushed'[<<u, i>>] = 0
  BY <1>2 DEF PushesAreNew
<1>3. ASSUME NEW q \in Req, req'[q].pc \in Alerting
      PROVE  /\ issue'[req'[q].issue].status = "PUBLISHED"
             /\ \A u \in User : pushed'[<<u, req'[q].issue>>] = 0
  <2>1. req[q].issue \in Issue
    BY <1>3, FollowUpIsRunning DEF Alerting, Stages
  <2>2. /\ issue[req[q].issue].status = "PUBLISHED"
        /\ \A u \in User : pushed[<<u, req[q].issue>>] = 0
    BY <1>3 DEF PushesAreNew
  <2>3. QED
    BY <2>1, <2>2 DEF L!PublicStatuses
<1>4. QED
  BY <1>1, <1>2, <1>3 DEF PushesAreNew

LEMMA WriteTransitionKeepsPushes ==
    ASSUME OneAtATime, TypeOK, StillAllowed, PushesAreNew, NEW q \in Req, WriteTransition(q)
    PROVE  PushesAreNew'
<1>1. req[q] \in Running /\ req[q].pc = "checked"
  BY FollowUpIsRunning DEF WriteTransition, Stages
<1>2. PICK i \in Issue, to \in Targets, actor \in User :
             req[q].issue = i /\ req[q].to = to /\ req[q].actor = actor
  BY <1>1 DEF Running
<1>3. UNCHANGED pushed
  BY DEF WriteTransition
<1>4. CASE Finish(q) /\ UNCHANGED issue
  BY <1>3, <1>4, QuietStepKeepsPushes DEF Finish, Idle, TypeOK, Alerting
<1>5. CASE ~(Finish(q) /\ UNCHANGED issue)
  <2>1. /\ Exists(i) /\ issue' = [issue EXCEPT ![i] = Moved(issue[i], to, actor)]
        /\ Goto(q, IF to = "PUBLISHED" THEN "alert" ELSE "reporter")
    BY <1>2, <1>5 DEF WriteTransition
  <2>2. issue'[i].status = to /\ \A j \in Issue \ {i} : issue'[j] = issue[j]
    BY <2>1, MovedIsARow DEF TypeOK
  <2>3. issue[i].status \in L!Statuses /\ L!CanTransition(issue[i].status, to)
    BY <1>1, <1>2, <2>1 DEF StillAllowed, Exists, L!Statuses
  <2>4. /\ to = "PUBLISHED" => issue[i].status = "VERIFIED"
        /\ issue[i].status \in L!PublicStatuses => to = "RESOLVED"
    BY <2>3, PublishedOnce
  <2>5. ASSUME NEW j \in Issue, NEW u \in User, issue'[j].status \notin L!PublicStatuses
        PROVE  pushed'[<<u, j>>] = 0
    <3>1. issue[j].status \notin L!PublicStatuses
      BY <2>2, <2>4, <2>5 DEF L!PublicStatuses
    <3>2. QED
      BY <1>3, <3>1 DEF PushesAreNew
  <2>6. req'[q].pc = IF to = "PUBLISHED" THEN "alert" ELSE "reporter"
    BY <1>1, <2>1 DEF Goto, TypeOK, Running
  <2>7. req'[q].issue = i
    BY <1>1, <1>2, <2>1 DEF Goto, TypeOK, Running
  <2>8. ASSUME NEW p \in Req, req'[p].pc \in Alerting
        PROVE  /\ issue'[req'[p].issue].status = "PUBLISHED"
               /\ \A u \in User : pushed'[<<u, req'[p].issue>>] = 0
    <3>1. p = q /\ to = "PUBLISHED"
      BY <2>6, <2>8 DEF OneAtATime, Alerting
    <3>2. issue[i].status \notin L!PublicStatuses
      BY <2>4, <3>1 DEF L!PublicStatuses
    <3>3. \A u \in User : pushed[<<u, i>>] = 0
      BY <3>2 DEF PushesAreNew
    <3>4. QED
      BY <1>3, <2>2, <2>7, <3>1, <3>3
  <2>9. NobodyIsPushedTwice'
    BY <1>3 DEF PushesAreNew, NobodyIsPushedTwice
  <2>10. QED
    BY <2>5, <2>8, <2>9 DEF PushesAreNew
<1>6. QED
  BY <1>4, <1>5

LEMMA PushAlertsKeepsPushes ==
    ASSUME OneAtATime, TypeOK, PushesAreNew, NEW q \in Req, PushAlerts(q)
    PROVE  PushesAreNew'
<1>1. req[q] \in Running /\ req[q].pc = "push"
  BY FollowUpIsRunning DEF PushAlerts, Stages
<1>2. PICK i \in Issue : req[q].issue = i
  BY <1>1 DEF Running
<1>3. /\ pushed' = [n \in User \X Issue |->
             IF n[1] \in req[q].recipients /\ n[2] = i /\ pushed[n] < MaxPush
               THEN pushed[n] + 1 ELSE pushed[n]]
      /\ UNCHANGED issue /\ Goto(q, "reporter")
  BY <1>2 DEF PushAlerts
<1>4. issue[i].status = "PUBLISHED" /\ \A u \in User : pushed[<<u, i>>] = 0
  BY <1>1, <1>2 DEF PushesAreNew, Alerting
<1>5. ASSUME NEW u \in User, NEW j \in Issue
      PROVE  pushed'[<<u, j>>] = pushed[<<u, j>>] \/ (j = i /\ pushed'[<<u, j>>] = pushed[<<u, j>>] + 1)
  BY <1>3
<1>6. ASSUME NEW j \in Issue, NEW u \in User, issue'[j].status \notin L!PublicStatuses
      PROVE  pushed'[<<u, j>>] = 0
  <2>1. j # i /\ pushed[<<u, j>>] = 0
    BY <1>3, <1>4, <1>6 DEF PushesAreNew, L!PublicStatuses
  <2>2. QED
    BY <1>5, <2>1
<1>7. NobodyIsPushedTwice'
  <2>1. ASSUME NEW u \in User, NEW j \in Issue PROVE pushed'[<<u, j>>] <= 1
    <3>1. pushed[<<u, j>>] <= 1
      BY DEF PushesAreNew, NobodyIsPushedTwice
    <3>2. QED
      BY <1>4, <1>5, <3>1
  <2>2. QED
    BY <2>1 DEF NobodyIsPushedTwice
<1>8. \A p \in Req : req'[p].pc \notin Alerting
  <2>1. req'[q].pc = "reporter"
    BY <1>1, <1>3 DEF Goto, TypeOK, Running
  <2>2. QED
    BY <2>1 DEF OneAtATime, Alerting
<1>9. QED
  BY <1>6, <1>7, <1>8 DEF PushesAreNew

LEMMA StepKeepsPushes ==
    ASSUME OneAtATime, TypeOK, StillAllowed, PushesAreNew, [Next]_vars
    PROVE  PushesAreNew'
<1>1. ASSUME UNCHANGED <<issue, pushed, req>>
      PROVE  PushesAreNew'
  BY <1>1, QuietStepKeepsPushes
<1>2. ASSUME NEW i \in Issue, NEW u \in User, NEW d \in District,
             NEW anonymous \in BOOLEAN, NEW mediaIds \in SUBSET Media,
             Submit(i, u, d, anonymous, mediaIds)
      PROVE  PushesAreNew'
  <2>1. \A j \in Issue : issue'[j] = issue[j] \/ issue[j].status \notin L!PublicStatuses
    BY <1>2 DEF Submit, TypeOK, L!PublicStatuses
  <2>2. QED
    BY <1>2, <2>1, RowStepKeepsPushes DEF Submit
<1>3. CASE Purge
  <2>1. \A j \in Issue : issue'[j] = issue[j] \/ issue[j].status \notin L!PublicStatuses
    BY <1>3 DEF Purge, TypeOK, L!PublicStatuses
  <2>2. QED
    BY <1>3, <2>1, RowStepKeepsPushes DEF Purge
<1>4. ASSUME NEW q \in Req,
             \/ \E u \in User, i \in Issue, to \in Targets : Authorise(q, u, i, to)
             \/ CheckTransition(q) \/ AlertReporter(q) \/ RecordAudit(q) \/ Crash(q)
      PROVE  PushesAreNew'
  <2>1. UNCHANGED <<issue, pushed>>
    BY <1>4 DEF Authorise, CheckTransition, AlertReporter, RecordAudit, Crash, tables
  <2>2. \A p \in Req \ {q} : req'[p] = req[p]
    BY <1>4 DEF Authorise, CheckTransition, AlertReporter, RecordAudit, Crash, Goto, Finish, TypeOK
  <2>3. req'[q].pc \notin Alerting
    <3>1. CASE \E u \in User, i \in Issue, to \in Targets : Authorise(q, u, i, to)
      BY <3>1 DEF Authorise, TypeOK, Alerting
    <3>2. CASE CheckTransition(q) \/ AlertReporter(q)
      <4>1. req[q] \in Running
        BY <3>2, FollowUpIsRunning DEF CheckTransition, AlertReporter, Stages
      <4>2. QED
        BY <3>2, <4>1 DEF CheckTransition, AlertReporter, Goto, Finish, Idle, TypeOK, Running, Alerting
    <3>3. CASE RecordAudit(q) \/ Crash(q)
      BY <3>3 DEF RecordAudit, Crash, Finish, Idle, TypeOK, Alerting
    <3>4. QED
      BY <1>4, <3>1, <3>2, <3>3
  <2>4. QED
    BY <2>1, <2>2, <2>3, QuietStepKeepsPushes
<1>5. ASSUME NEW q \in Req, PickRecipients(q) \/ WriteAlerts(q)
      PROVE  PushesAreNew'
  <2>1. UNCHANGED <<issue, pushed>>
    BY <1>5 DEF PickRecipients, WriteAlerts, tables
  <2>2. req[q] \in Running /\ req[q].pc \in Alerting
    BY <1>5, FollowUpIsRunning DEF PickRecipients, WriteAlerts, Stages, Alerting
  <2>3. req'[q].issue = req[q].issue /\ \A p \in Req \ {q} : req'[p] = req[p]
    BY <1>5, <2>2 DEF PickRecipients, WriteAlerts, Goto, TypeOK, Running
  <2>4. QED
    BY <2>1, <2>2, <2>3, QuietStepKeepsPushes
<1>6. QED
  BY <1>1, <1>2, <1>3, <1>4, <1>5, WriteTransitionKeepsPushes, PushAlertsKeepsPushes
     DEF Next, RequestStep, vars, SetHomeDistrict, SetStatus, Age

\* "Nobody is told twice" (lib/issueAlerts.ts), of phones: if no two queue actions
\* overlap, a report is published once and its residents are pushed once, however
\* they move meanwhile and wherever the process dies.
THEOREM NobodyIsPushedTwiceOneAtATime == OneAtATime => (Spec => []NobodyIsPushedTwice)
<1>1. ASSUME OneAtATime PROVE Spec => []NobodyIsPushedTwice
  <2>1. Init => StillAllowed /\ PushesAreNew
    <3>1. Init => StillAllowed
      BY DEF Init, StillAllowed, Idle
    <3>2. ASSUME Init PROVE PushesAreNew
      <4>1. \A n \in User \X Issue : pushed[n] = 0
        BY <3>2 DEF Init
      <4>2. \A q \in Req : req[q].pc \notin Alerting
        BY <3>2 DEF Init, Idle, Alerting
      <4>3. QED
        BY <4>1, <4>2 DEF PushesAreNew, NobodyIsPushedTwice
    <3>3. QED
      BY <3>1, <3>2
  <2>2. TypeOK /\ StillAllowed /\ [Next]_vars => StillAllowed'
    BY <1>1, StepKeepsAllowed, ConstantsAssumption
  <2>3. TypeOK /\ StillAllowed /\ PushesAreNew /\ [Next]_vars => PushesAreNew'
    BY <1>1, StepKeepsPushes
  <2>4. PushesAreNew => NobodyIsPushedTwice
    BY DEF PushesAreNew
  <2>5. QED
    BY <2>1, <2>2, <2>3, <2>4, TypeInvariance, PTL DEF Spec
<1>2. QED
  BY <1>1
---------------------------------------------------------------------------
(* While no process dies, every move is owned                              *)

\* A request that has written a move and not yet logged it.
Owes(q, m) ==
    /\ req[q].pc \in AfterWrite
    /\ req[q].issue = m.issue /\ req[q].actor = m.actor /\ req[q].to = m.to

\* The same, with what is owed spelled as the log spells it.
MovesAreOwned == \A m \in moves : m \in audit \/ \E q \in Req : Owes(q, m)

LEMMA OwedStaysOwed ==
    ASSUME MovesAreOwned, moves' \subseteq moves, audit \subseteq audit',
           \A m \in moves, q \in Req : Owes(q, m) => Owes(q, m)' \/ m \in audit'
    PROVE  MovesAreOwned'
BY DEF MovesAreOwned

LEMMA StepKeepsOwed ==
    ASSUME ~Crashes, TypeOK, MovesAreOwned, [Next]_vars
    PROVE  MovesAreOwned'
<1>1. ASSUME UNCHANGED <<moves, audit, req>>
      PROVE  MovesAreOwned'
  BY <1>1, OwedStaysOwed DEF Owes
<1>2. ASSUME NEW q \in Req,
             \/ \E u \in User, i \in Issue, to \in Targets : Authorise(q, u, i, to)
             \/ CheckTransition(q)
      PROVE  MovesAreOwned'
  <2>1. UNCHANGED <<moves, audit>>
    BY <1>2 DEF Authorise, CheckTransition, tables
  <2>2. req[q].pc \notin AfterWrite /\ \A p \in Req \ {q} : req'[p] = req[p]
    BY <1>2 DEF Authorise, CheckTransition, InFlight, Goto, Finish, Idle, TypeOK, AfterWrite
  <2>3. QED
    BY <2>1, <2>2, OwedStaysOwed DEF Owes
<1>3. ASSUME NEW q \in Req, WriteTransition(q)
      PROVE  MovesAreOwned'
  <2>1. /\ req[q] \in Running /\ req[q].pc = "checked" /\ UNCHANGED audit
    BY <1>3, FollowUpIsRunning DEF WriteTransition, Stages
  <2>2. \A p \in Req \ {q} : req'[p] = req[p]
    BY <1>3 DEF WriteTransition, Goto, Finish, TypeOK
  <2>3. \A m \in moves, p \in Req : Owes(p, m) => Owes(p, m)'
    BY <2>1, <2>2 DEF Owes, AfterWrite
  <2>4. CASE UNCHANGED moves
    BY <2>1, <2>3, <2>4, OwedStaysOwed
  <2>5. CASE ~UNCHANGED moves
    <3>1. PICK m : m = [issue |-> req[q].issue, actor |-> req[q].actor, to |-> req[q].to]
      OBVIOUS
    <3>2. moves' = moves \cup {m} /\ Goto(q, IF req[q].to = "PUBLISHED" THEN "alert" ELSE "reporter")
      BY <1>3, <2>5, <3>1 DEF WriteTransition
    <3>3. /\ req'[q].pc \in AfterWrite
          /\ req'[q].issue = req[q].issue /\ req'[q].actor = req[q].actor /\ req'[q].to = req[q].to
      BY <2>1, <3>2 DEF Goto, TypeOK, Running, AfterWrite
    <3>4. Owes(q, m)'
      BY <3>1, <3>3 DEF Owes
    <3>5. QED
      BY <2>1, <2>3, <3>2, <3>4 DEF MovesAreOwned
  <2>6. QED
    BY <2>4, <2>5
<1>4. ASSUME NEW q \in Req, PickRecipients(q) \/ WriteAlerts(q) \/ PushAlerts(q) \/ AlertReporter(q)
      PROVE  MovesAreOwned'
  <2>1. UNCHANGED <<moves, audit>>
    BY <1>4 DEF PickRecipients, WriteAlerts, PushAlerts, AlertReporter, tables
  <2>2. req[q] \in Running
    BY <1>4, FollowUpIsRunning DEF PickRecipients, WriteAlerts, PushAlerts, AlertReporter, Stages
  <2>3. /\ req'[q].pc \in AfterWrite
        /\ req'[q].issue = req[q].issue /\ req'[q].actor = req[q].actor /\ req'[q].to = req[q].to
        /\ \A p \in Req \ {q} : req'[p] = req[p]
    BY <1>4, <2>2
       DEF PickRecipients, WriteAlerts, PushAlerts, AlertReporter, Goto, TypeOK, Running, AfterWrite
  <2>4. QED
    BY <2>1, <2>3, OwedStaysOwed DEF Owes
<1>5. ASSUME NEW q \in Req, RecordAudit(q)
      PROVE  MovesAreOwned'
  <2>1. /\ UNCHANGED moves
        /\ audit' = audit \cup {[issue |-> req[q].issue, actor |-> req[q].actor, to |-> req[q].to]}
        /\ \A p \in Req \ {q} : req'[p] = req[p]
    BY <1>5 DEF RecordAudit, Finish, TypeOK
  <2>2. ASSUME NEW m \in moves, Owes(q, m)
        PROVE  m \in audit'
    <3>1. m = [issue |-> m.issue, actor |-> m.actor, to |-> m.to]
      BY DEF TypeOK, MoveRow
    <3>2. QED
      BY <2>1, <2>2, <3>1 DEF Owes
  <2>3. \A m \in moves, p \in Req \ {q} : Owes(p, m) => Owes(p, m)'
    BY <2>1 DEF Owes
  <2>4. QED
    BY <2>1, <2>2, <2>3, OwedStaysOwed
<1>6. QED
  BY <1>1, <1>2, <1>3, <1>4, <1>5
     DEF Next, RequestStep, vars, Submit, SetHomeDistrict, SetStatus, Crash, Age, Purge

\* "Who made it" is never lost (run() in dashboard/issues/actions.ts): however
\* the queue actions interleave, if each of them runs to its end.
THEOREM MovesStayOwned == ~Crashes => (Spec => []EveryMoveIsAudited)
<1>1. ASSUME ~Crashes PROVE Spec => []EveryMoveIsAudited
  <2>1. Init => MovesAreOwned
    BY DEF Init, MovesAreOwned
  <2>2. TypeOK /\ MovesAreOwned /\ [Next]_vars => MovesAreOwned'
    BY <1>1, StepKeepsOwed
  <2>3. TypeOK /\ MovesAreOwned => EveryMoveIsAudited
    <3>1. ASSUME TypeOK, MovesAreOwned, NEW m \in moves, m \notin audit
          PROVE  \E q \in Req :
                    /\ InFlight(q)
                    /\ req[q].issue = m.issue /\ req[q].actor = m.actor /\ req[q].to = m.to
                    /\ req[q].pc \in Stages \ {"authorised", "checked"}
      <4>1. PICK q \in Req : Owes(q, m)
        BY <3>1 DEF MovesAreOwned
      <4>2. InFlight(q) /\ req[q].pc \in Stages \ {"authorised", "checked"}
        BY <4>1 DEF Owes, InFlight, Idle, AfterWrite, Stages
      <4>3. QED
        BY <4>1, <4>2 DEF Owes
    <3>2. QED
      BY <3>1 DEF EveryMoveIsAudited
  <2>4. QED
    BY <2>1, <2>2, <2>3, TypeInvariance, PTL DEF Spec
<1>2. QED
  BY <1>1
=============================================================================
