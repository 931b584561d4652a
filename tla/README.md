# Formal verification of Dispatch Report

TLA+ models, TLC model checks and TLAPS proofs for the news platform in this
repository (Next.js server actions over Prisma and MySQL; application code under
`src/`, schema in `prisma/schema.prisma`, documentation in `docs/`).

Every module is translated from the source. Names of actions and operators follow
the functions they model; `PROJECT.json` maps each definition to the lines it stands
for.

## 1. The system

### How it runs

The application has two kinds of concurrency, and the models have the same two.

**On the server** it is a set of *server actions* and route handlers. Nearly every one
has the same shape:

1. a session check: `auth()` re-reads the `User` row and compares the token's
   `sessionVersion`, so authorisation reflects the tables as they are *now*;
2. one or more reads that establish that the operation is allowed;
3. one or more writes, normally `update({ where: { id } })`, that is, by primary key
   and without repeating the condition that was checked;
4. side effects: notifications, pushes, mail, an audit row.

Each of these is an `await`. Nothing is locked, and few of them share a transaction, so
any other request may run between any two. A restart of the process (or a throwing
`await`) leaves the earlier writes in place. What makes the code hard to test is
therefore not a single operation but what two of them do to each other, what a request
that stops half-way leaves behind, and which sequences of legal operations lead
somewhere nobody meant.

**In the browser** a form or button is a component with a state of its own. A press
sends a call and marks the component as pending; the person goes on typing, cancelling
and opening other things; the answer comes later, or never, and finds the component as
it is by then. The page around it is rendered anew from the tables at moments of its
own.

### Inventory

| component | state it keeps | operations | interacts with | what is hard | what makes it correct |
|---|---|---|---|---|---|
| Issue queue (`dashboard/issues/*`, `lib/issues.ts`, `lib/issueVisibility.ts`) | `Issue` rows: status and four stamps; the queue page as rendered | claim, verify, publish, reject, release, resolve; lists, report page | issue alerts, audit log, retention | status is read, then written by id; buttons of an old page | nothing public that was not checked; the transition table; a deleted report stays deleted; cards lead to reports |
| Issue alerts (`lib/issueAlerts.ts`) | `Notification` rows, pushes sent | alert a district, answer the reporter | queue, push | sending cannot be undone; stale residents | alerts only of published reports, not to the reporter; rows before pushes; reporter eventually told |
| Filing (`(public)/issues/*`, `api/issues/evidence`) | `Issue`, `User.districtId`; the form's photographs | file, set home district, upload and strike photographs | media, alerts | anonymity over time; a report sent while photographs go up | no trail of an anonymous filing; own photographs only; filed as shown |
| Contributions (`lib/contributions.ts`, `support/*`, `dashboard/contributions/*`) | `Contribution`, `MembershipTier`, settings cache | pledge, confirm, fail, refund; create, update, retire tier | accounts, audit | two treasurers on one row; tier edited under a pledge | amounts never rewritten; counted money arrived; a membership has its term; references resolve |
| Roles (`lib/auth/roleService.ts`, `dashboard/roles/actions.ts`) | `UserRole`, `RolePermission`, `User.role` (copy of the tier) | create, update, delete, assign | sessions, accounts | rules checked outside the transaction that writes | permissions within the tier; protected role keeps control; copies agree; somebody manages people |
| User administration (`dashboard/users/actions.ts`, `dashboard/comments/actions.ts`) | `User` | create, set role, set status, suspend, reset MFA, send reset | roles, sessions | changes racing sign-ins | a changed account is signed out at once |
| Account erasure (`lib/accountDeletion.ts`) | `User` and everything of the account | anonymise | all tables that name a user | what stays behind | an erased account never works again |
| Sign-in (`lib/auth/config.ts`, `lockout.ts`, `emailOtp.ts`, `mfa.ts`, `recoveryCodes.ts`, `trustedDevice.ts`, `(auth)/login/*`) | failure counters, lock, codes, trusted devices, session version; the login page | password step, second factor, trust, enrol, disable | tokens, mail, accounts | overlapping attempts read the same counter or code; two accounts in one page | the lock comes; no session outlives a reset; no entry without the factor |
| One-time tokens (`lib/auth/tokens.ts` and its flows) | `VerificationToken` | create (replacing), consume | reset, verify, change of address | delete and create are two statements | a link works once; an address is proved |
| OAuth and linking (`oauthFlow.ts`, `accountLinking.ts`, `adapter.ts`) | `Account` rows, signed cookies | link, unlink, join, consent | sign-in, erasure | accounts must not merge by accident; tabs that return at once | one identity, one account; a way in remains |
| Phone and contact (`account/actions.ts`, `lib/phone.ts`, `ContactDetails.tsx`) | phone columns of `User`; the page's two conversations | start, confirm, remove; change the address | mail, SMS | the number changes between compare and write | a verified number is the one whose code was entered |
| Articles (`dashboard/articles/*`, `lib/articleMedia.ts`, `lib/mediaRights.ts`) | `Article`, links, references, the form with its autosave | create, update, publish, unpublish, archive, sources, translations | media rights, notifications, scheduler | stale checks, limits counted before slow awaits, a save under the typing | nothing published with a rights blocker; withdrawn stays withdrawn; nothing typed is lost |
| Scheduled publishing (`lib/scheduledPublishing.ts`) | `Article.scheduledFor` | the minute's pass | articles | unscheduled in the middle of a pass; a stopped process | published only when due; what is due goes up |
| Comments (`components/comments/*`, `dashboard/comments/*`) | `Comment`, the tree, the boxes | post, edit, delete, report, moderate | notifications, settings | edit against moderation; late answers | a moderator's decision stands; nothing typed is lost or posted twice |
| Notifications and push (`lib/notifications.ts`, `lib/push.ts`, `PushToggle.tsx`, `sw.js`) | `Notification`, `PushSubscription`, the browser's subscription | notify, subscribe, fan out, prune | comments, articles, issues | two systems changed in turn | whoever is subscribed is reached |
| Engagement (`components/engagement/*`) | likes, bookmarks, follows, reports | toggles | feed | read then create/delete, on two pages | counted once; the page shows what is stored |
| Reader's pages (`app/(public)`, `sitemap.ts`, `feed.xml`, `lib/search.ts`) | none: each request asks anew | every list, feed and page | articles, accounts, categories | many filters of one table | anonymous everywhere; what is offered is there |
| Categories, settings (`lib/settings.ts`, `lib/smtp.ts`) | `Category`, cached settings | save, delete, read through a one-minute cache | everything that reads settings | save during a read; delete during a save | staleness is bounded; no story loses its section |
| Media pipeline (`lib/mediaPipeline.ts`, `lib/uploadToken.ts`, `api/media/*`, `MediaDetailsDialog.tsx`) | objects in storage, `Media`, the rights dialog | presign, upload, finalize, scan, transcode, serve, save terms | articles, issues | storage and table are two systems | nothing served unchecked; a credit is of its file |
| Retention (`lib/retention.ts`) | all dated tables | hourly purge | all | deletes under running requests | only what is old enough goes |
| Rate limiting (`lib/rateLimit.ts`) | in-memory windows | `rateLimit` | public endpoints | window boundary, pruning, restart | less than twice the limit in any window's length |
| Reading (`lib/viewCount.ts`, `lib/analyticsCapture.ts`, `ReadingBeacon.tsx`) | counters per day | count a view, a reading | articles | lost and repeated beacons | never more than there was |
| Start-up, deployment, migrations, health (`ci.yml`, `restartOnDeploy.ts`, `cpanel-setup.cjs`, `lib/health/*`) | files, schema, restart file, process | copy, migrate, touch, exit, start, check | everything | a process and a job that share files and nothing else | a deploy lands; trouble shows |
| Request gate (`proxy.ts`) | none | redirect or serve | sign-in | rules that redirect to one another | no circles; the dashboard is guarded |
| Analytics reports, link-preview parsing, text and formatting, layout | – | – | – | – | not modelled, see section 7 |

## 2. Plan

Order was by what matters most if it goes wrong; all items are done.

1. `IssueLifecycle` (abstract), `Issues` (the code), `Issues_proofs`.
2. `Ledger` (abstract), `Contributions` (the code).
3. `Accounts`: roles, tiers, suspension, erasure, sessions.
4. `SignIn`, `Tokens` with `OneTimeSecret` (abstract), `Linking`, `Phone`, `Gate`, and
   the pages in front of them, `Entrance` and the contact part of `Phone`; composed in
   `Identity`.
5. `Articles`, `Editor`, `Sources`, `Surfaces`, `Uploads`, `Credits`, `Forms`, `Filing`,
   `Casework`; composed in `Newsroom`.
6. `Discussion`, `Thread`, `Push`, `Engagement`, `Reading`, `Limits`, `Mail`, `Deploy`
   (with migrations and bundles), `Health`; composed in `Site`.
7. Proofs for every value of the constants: `Issues_proofs`, `Contributions_proofs`,
   `Accounts_proofs`, `SignIn_proofs`, `Links_proofs`, and `Identity_proofs`,
   `Newsroom_proofs` and `Site_proofs` of the compositions.

Runs: one *concurrent* and one *serial* run for each of the three components of items 1
to 3, the first for what must hold under every interleaving, the second for the abstract
specification and for liveness; one run for each composition. Where the code promises
more than it keeps and the promise is about money, control or being told, a further run
shows the counterexample.

## 3. Modules

### Issues, Contributions, Accounts

These share one convention. A *request* is an element of `Req`; `req[q]`
holds its program counter and the values it has read. An action performs exactly one
`await` on the database with the code around it: the reads before the first decision are
one step (`Begin…`/`Authorise`), a check by a later query another, each write another,
and each side effect another. Rows are records with the columns a property tells
apart; "NONE" and "deleted" rows stand for identities not used yet and used up.
`Crash(q)` forgets the request and leaves the tables. Deadlock is checked except where
stated.

**Issues, IssueLifecycle**

| TLA+ | code |
|---|---|
| `issue`, `notification`, `audit`, `active`, `home` | tables `Issue`, `Notification`, `AuditLog`, columns `User.status`, `User.districtId` |
| `pushed`, `moves`, `started` | history: what left the process, what was written |
| `Authorise`, `CheckTransition`, `WriteTransition` | `run` and the two halves of `transitionIssue` |
| `PickRecipients`, `WriteAlerts`, `PushAlerts` | `alertDistrictOfIssue`: status re-read and residents, `createMany`, pushes |
| `AlertReporter`, `RecordAudit` | `alertReporterOfChange`, `recordAudit` |
| `Submit`, `SetHomeDistrict`, `SetStatus` | filing, choosing a district, user administration as seen from here |
| `Age`, `Purge` | time passing and the issue clause of `runRetention` |

`Age` requires that no request is in flight: the retention period is ninety days and a
request lasts seconds. Pushes to the reporter are not counted in `pushed`.
`IssueLifecycle` is the transition table as a specification, with a `Forget(old)` that
deletes any number of rejected reports at once, as the one DELETE of a retention pass
does; `Issues` instantiates it with `stage <- issue[i].status`.

**Contributions, Ledger**

| TLA+ | code |
|---|---|
| `tier`, `contribution`, `payable`, `audit` | tables `MembershipTier`, `Contribution`, the support settings' `isPayable`, settlement rows of `AuditLog` |
| `closed`, `told`, `settled` | erased accounts; history: references returned, settlements written |
| `BeginPledge`, `ReadTier`, `CreateContribution`, `AnswerPledge` | `pledgeAction` and `pledge` |
| `BeginSettle`, `WriteSettlement`, `AuditSettlement` | `run` with `confirmContribution`, `failContribution`, `refundContribution` (one shape, three targets) |
| `CreateTier`, `UpdateTier`, `BeginRetire`, `WriteRetire` | the tier functions |
| `SaveSettings`, `CloseAccount`, `Tick` | `saveSupportSettings`, `anonymiseAccount`, the calendar in months |

Amounts are members of a small set. `CreateContribution` respects the foreign key on
`tierId`; `WriteRetire` applies its `SET NULL`; `AnswerPledge` models that the audit row
of a guest's pledge names the contribution as actor, which the foreign key on
`AuditLog.actorId` refuses. `Ledger` says what `docs/support.md` promises: settled once,
refunds only of confirmed money, amounts never change.

**Accounts**

| TLA+ | code |
|---|---|
| `role` | tables `UserRole` and `RolePermission`: tier, flags, permissions |
| `user` | `User`: status, the copied tier, `roleId`, `anonymisedAt` |
| `signedIn` | accounts holding a token with their current `sessionVersion`; incrementing the version removes the account |
| `BeginAssign`, `CountManagers`, `WriteAssign` | `setUserRole`, `assertNotLastAdministrator`, the transaction of `assignRole` |
| `BeginCreateUser`, `WriteCreateUser` | `createUser` |
| `CreateRole`, `BeginUpdateRole`/`WriteUpdateRole`, `BeginDeleteRole`/`WriteDeleteRole` | `createRole`, `updateRole`, `deleteRole` |
| `BeginStatus`, `CountAdmins`, `BeginSuspend`, `WriteStatus` | `setUserStatus`, `wouldRemoveLastAdmin`, `suspendCommenter` |
| `BeginErase`, `WriteErase` | `deleteMyAccount`, `anonymiseAccount` (its `User` row) |
| `RecordAudit` | the audit row after each of them |

`Ops` selects the server actions in use, so that a run can ask about one interaction.

### The compositions: Identity, Newsroom, Site

The other components are modules with variables, `…Init`, `…Next` and properties of
their own. Three modules compose them. The parts of a composition keep their state in
tables, files and pages of their own, so an interleaving of two parts shows nothing that
each does not show alone; the composition therefore has a variable `concern` that picks,
at the start, the part this behaviour exercises, and the others stand still. Where two
components do share state (the scheduler and the editors' actions, the settings cache
and the comments, Google and erasure, the restart file and the deploy job) they are in
*one* module and interleave freely.

A property of a composition is the conjunction of a part's or several parts' named
properties. Each conjunct keeps its own mutant beside the definition it alters (an
operator with a comment that begins "Mutant:"); `PROJECT.json` lists one of them for
each property.

Several properties end in "unless". The condition is then a history variable (`raced`,
`crossed`, `met`, `slipped`, `overtaken`, `lateFill`, `broken`, `doubt`, ...) that names
exactly the overlap or loss under which the code does *not* keep its promise; section 6
lists what happens then. Where a bound on overlapping requests is a variable (`lanes`,
`linkLanes`, `phoneLanes`), a behaviour with one lane checks what holds one at a time,
and a behaviour with two checks what survives overlap.

**Identity** (who somebody is)

| module | state and actions | properties |
|---|---|---|
| `SignIn` | `acct` the User row, `otp` the emailed code, sessions and trust by device, calls in flight; every await of the credentials and step-up providers, of enrolment and removal, of resets and revocations | `SessionsDieWithReset`, `NobodyIsLockedForNothing`, `FailuresAreCounted`, `TrustedDeviceShowedACode` (in `SessionsFollowTheAccount`); `GuessesAreCapped`, `OneUseAlone`, `OnlyTheLastSetWorks`, `EnrolledAppIsProven` (in `CodesHold`); `FactorIsAsked` (in `NoWayAround`) |
| `Tokens`, `OneTimeSecret` | `links` the VerificationToken rows, `person` the accounts; registration, forgotten password, verifying and changing an address | refinement of `OneTimeSecret` (`LinksAreOneTime`); `FewLinksOutstanding`, `VerifiedAddressIsProven`, `LastAskedWins` |
| `Linking` | `holder`, `linked`, the two cookies, returns from Google in flight; signIn callback, adapter, connect, disconnect, erasure | `NoUnprovenMerge`, `ConsentPrecedesAccount`, `WayBackIn`, `NoLinkIsTakenOver` |
| `Phone` | phone columns of `User`, codes that reached a phone | `VerifiedNumberIsProven`, `PhoneGuessesAreCapped`, `PhoneCodeWorksOnce` |
| `Gate` | a visitor, the page asked for, redirects so far; `Redirect` is the cascade of `proxy.ts` | `RedirectsEnd`, `DashboardIsGuarded` |
| `Entrance` | the login page: which form, whose code, presses under way, the calls of a press one by one | `SignedInGoesOn`, `TickIsObeyed`, `OneSignInAtATime` |
| `Phone`, contact part | the account page's two conversations over one `pending` | `CodeStepIsTrue`, `MailSentIsAwaited`, `OneCallBetweenThem` |

**Newsroom** (what the desk makes)

| module | state and actions | properties |
|---|---|---|
| `Articles` | rows, joined files, cleared terms, editors' requests, the scheduler's pass (`BeginPass`…`PassThrows`) woken by visits | `WithdrawnStaysWithdrawn`, `PublicFilesAreCleared`, `NewsIsAnnounced`; `DueIsPublished` (liveness) |
| `Editor` | the form of `ArticleForm.tsx`: text on screen, dirty mark, saves in order, rows they made | `FormKeepsItsStory` |
| `Sources` | links or references of a story, requests with their fetch through redirects | `NumberedInOrder`, `FewSources`, `OnlyOutsideIsRead` |
| `Uploads` | quarantine, kept objects, `Media`, requests for a resized copy, for each configuration of S3, ffmpeg and clamd | `ServedIsChecked`, `PicturesAreWhole` |
| `Credits` | the rights dialog, saves under way, figures in the text | `LineIsOfItsFile`, `SavedIsPublishable`, `LineIsCredited` |
| `Surfaces` | what every list, feed and page selects while stories, writers and the section change; `translationOfId` and what the article page and the sitemap tell of it | `AnonymousStaysAnonymous`, `OffersLeadSomewhere`, `SectionsHold`; `VersionsNameEachOther` |
| `Forms` | nineteen forms as one machine with a `shape` each: boxes, pending, calls, message, what is shown once | `SaysWhatWasDone`, `SheetsStay`, `RefusedTextStays` |
| `Filing` | the report form: photographs going up one after the other, the report, its answer | `PhotosFit`, `FiledAsShown`, `FiledIsHeard` |
| `Casework` | the verifiers' page as rendered, presses on it, moves and permissions changed elsewhere, public lists and the report page; uses `IssueLifecycle` for the table | `CardsLeadToReports`, `PublishedAsShown`, `DeskIsCurrent` |

**Site** (the readers and the host)

| module | state and actions | properties |
|---|---|---|
| `Discussion` | comments, notices, settings with their cache, a moderator's old page, requests in flight | `TakenDownStaysDown`, `PublicTextWasVetted`, `SettingsAreCurrent`; `EveryAnswerIsAnnounced` does *not* hold (section 6) |
| `Thread` | rows of one article and the tree `CommentSection.tsx` makes of them (folds, no recursion) | `OthersAreStillRead`, `PlacesHoldAnswers`, `EveryOrderIsWhole` |
| `Thread`, boxes | the boxes of one tab, calls under way, the correction of a comment | `WordsArePostedOnce`, `EditStartsFromTheComment` |
| `Push` | the browser's subscription, its tabs, rows, stories being sent, the worker, the purge | `SubscribedIsReached` |
| `Engagement` | rows of one reader, the buttons of two pages | `CountedOnce` |
| `Reading` | counters of a day, open pages with their clock, beacons under way | `ReadingIsCounted` (`BucketsAgree`, `ReadOnce`) |
| `Limits` | windows of `memoryLimit`, the sweep, restarts | `LimitsHold` |
| `Mail` | mail settings, password, each process's cache, messages under way | `SavedMailIsUsed` |
| `Deploy`, migrations | statements, `_prisma_migrations` rows, runs that die anywhere | `FinishedOnce`, `NothingUnrecorded`, `OneAfterAnother` |
| `Deploy` | files, schema, restart file, deploy job, process | `OneExitForEachTouch`, `EverythingIsInPlace`, `SmokeMeansDeployed`; `NewVersionServes` (liveness) |
| `Deploy`, bundle | a release made by hand: the working tree, what `next build` left, `cpanel-dist`, kept downloads, the archive under its temporary and its own name; a command that stops anywhere, a download cut short, a synchronising program | `BundlesLand` (`NamedIsVerified`, `Shippable`) |
| `Health` | checks against subjects that answer, refuse or are silent; readiness of the configuration | `TroubleShows`, `RowsFailAlone`, `ServesConfigured` |

## 4. Runs

| run | specification and bounds | what it shows |
|---|---|---|
| `issues_concurrent` | one report, two people, two requests at once, four queue actions, crashes | `TypeOK`, `PublicWasChecked`, `AlertsAreInOrder`, `AnonymousFilingLeavesNoTrail`, `EvidenceIsTheReportersOwn`, `DeletedStaysDeleted` hold under every interleaving |
| `issues_serial` | one request at a time, six queue actions, fairness | the code implements `IssueLifecycle` (`FollowsLifecycle`); `NobodyIsPushedTwice`; every move is audited and answered (`MovesAreFollowedUp`) |
| `contributions_concurrent` | one contribution, one account (a member who is the treasurer) and guests, one tier, two prices, two requests, three treasurer's actions, crashes | `TypeOK`, `CountedMoneyArrived`, `MembershipsAreWhole`, `HistoryIsNotRewritten` under every interleaving |
| `contributions_serial` | two contributions, one request at a time, no crashes, fairness | the code implements `Ledger` (`KeepsTheLedger`); `BooksAreComplete`, `MemberLearnsReference` |
| `accounts_concurrent` | three people (two who administer, one not created yet), three roles, two requests, three actions of any kind but creating a role, crashes | `TypeOK`, `RolesKeepTheirShape`, `ErasedStaysOut`, `ChangedIsSignedOut` |
| `accounts_serial` | three people (two managers, one not created yet), four roles (one not created yet), one request at a time, three actions of any kind | `EveryoneHoldsTheirRole`, `MovingKeepsAManager` |
| `identity` | `Identity`: two devices, two lanes, three or four calls | `IdentityTypeOK`, `SessionsFollowTheAccount`, `CodesHold`, `IdentityIsProven`, `GateHolds`, `LinksAreOneTime`, `NoWayAround` |
| `newsroom` | `Newsroom`: one story with one file and two desks; two or three stories on the pages; two reports; two files | `NewsroomTypeOK`, `StoriesStandAsDecided`, `WorkIsKept`, `DueIsPublished` |
| `site` | `Site`: two readers, tabs, pages, processes; three versions; every row of the health page | `SiteTypeOK`, `CommentsStandAsDecided`, `ConversationHolds`, `ReadersAreServed`, `MemoryIsTrue`, `ReleasesLand`, `NewVersionServes` |
| `contributions_inflated` | two requests, three treasurer's actions | violated, as documented in section 6 |
| `accounts_swap` | two managers, two requests, assignments only | violated, as documented in section 6 |
| `replies_dropped` | `Site`, comments only | violated, as documented in section 6 |

**Why these bounds are enough to be interesting.** A race between a check and a write
needs two requests on the same row; a third has to begin after one of them ended, which
`MaxStarted` of three or more allows (the counterexample of section 6 about money uses
exactly three). One report or contribution suffices for properties that speak of one
row at a time, since no action writes two of them; the serial run of contributions has
two because the retirement of a tier counts rows. `FanoutLimit` is one, so that a single
alert pass already meets its limit. `MaxPush` caps a history counter at two, enough to
see a repeated push. `MaxTime` of one month lets a confirmation fall before or after a
step of the calendar. `Volatile` names the people who move or are suspended while
requests run: the administrator, who is also the resident alerted.

In the compositions the bounds follow the same rule: two of everything that can meet
itself, and one step more than the shortest history that reaches the limit in question.
Limits of the code are lowered so that they are met (two guesses instead of five, two
photographs instead of eight, two sources, one redirect more than allowed, a window of
three moments, two roots before "show more"). `CallBound`, `LinkBound` and `PhoneBound`
are pairs: calls in a behaviour with one lane, and with two. In `Linking` the revocations
of a behaviour are all of one account (`VersionBound`): what is checked again after a
return from Google is one account's version, the one the connect cookie names. `Piece = {1, 2}` with
`TopLength = 1` lets the front page's top and rest differ. `Tale = {1, 2, 3}` allows a
chain of translations. `Post = {1, 2, 3, 4}` with depth 2 has a thread deeper than what
may be answered. `WindowLength = 3` within six moments lets a stretch lie across two
windows. Three versions let a deploy be overtaken by the next, and one crash falls
anywhere. A working tree changes once (`TreeBound`) and three commands are given (`CommandBound`): a
build, a build that meets the downloads of the first, and an archive. `Watches` looks at one check of the health page per behaviour, and at two at
once that share nothing.

In the concurrent runs and in `identity` values that play the same part are symmetric;
no liveness property is checked under symmetry.

**Deadlock** is off in `accounts_*` and in the compositions. In `Accounts` the bound on
actions started may be used up while everybody is suspended or erased: nobody may sign
in any more, no request is in flight, and the model, like the site, waits for somebody.
In the compositions the bounds on presses, calls and moments come to an end, and then
the person in front of the page does nothing more.

**Fairness.** Of the server: `FairSpec` (issues, contributions) adds weak fairness of
`RequestStep(q)` for each request: Node runs a request that has begun to its end, and
the database answers each `await`. `NewsroomFairness` says that visits keep coming, that
minutes pass, and that a pass that has begun goes on or throws, which is all the
scheduler of `lib/scheduledPublishing.ts` has to live on (the process may be restarted
at any moment). `SiteFairness` is weak fairness of `DeployStep`: the host starts a
process that is not running, a running process polls the file, and the job goes on. No
fairness is assumed of people: nobody is obliged to file, review, pledge, confirm or
publish, and neither crashes, restarts, losses, `Tick` nor retention have to happen. The
fair runs of `Issues` and `Contributions` have `Crashes = FALSE`: a lost request is not
retried by this code, so nothing that needs its last step can be promised.

## 5. Proofs

### Issues_proofs

For every value of the constants that satisfies `ConstantsAssumption` (so for any number
of accounts, reports, photographs and requests in flight, any limits, with or without
crashes):

* **`TypeInvariance`**: `Spec => []TypeOK`. `TypeOK` also says that every report that
  exists names an account as its reporter, which the alerts rely on. One lemma per group
  of actions; `GotoKeepsType`, `FinishKeepsType` and `MovedIsARow` carry the data.
* **`PublicIsChecked`**: `Spec => []PublicWasChecked`. The property is not inductive:
  from a state in which a request has passed its check, the later write must be known to
  be harmless whatever happened in between. The strengthening `CheckedInv` says that
  stamps and status agree in each row (whatever is or was VERIFIED has its stamp and a
  name; whatever is public has both stamps) *and* that a request that stands between its
  check and its write relies only on stamps the row still has. It is inductive because no
  action ever takes a stamp away (`MovedKeepsStamps`): a competing transition changes the
  status but only adds stamps, and a retention pass makes the late write fail. So the
  race that lets a request overwrite a newer status (section 6) cannot make an
  unverified report public.
* **`EvidenceIsOwn`**: `Spec => []EvidenceIsTheReportersOwn`. Media is written in
  `Submit` only, after the ownership query; every other step leaves media and reporter
  alone or blanks both.

* **`AlertsStayInOrder`**, **`NoTrail`** and **`DeletedIsGone`** come from one more
  inductive invariant, `AlertsInv`. `TablesAgree` says what the tables know of one another:
  a district alert is of a published report, a push has its row, every notice points at a
  report that is there, every line of the log is a move that was made. `FollowUp` is what
  a request may rely on once it has moved its report: the report exists and no retention
  pass takes it. The latter needs the model's one assumption about time, that a request
  does not outlive the ninety days of the retention period (the guard of `Age`). Without
  it a notice could point at a report that is gone.
* **`FollowsLifecycleOneAtATime`**: `OneAtATime => (Spec => FollowsLifecycle)`, the
  refinement of `IssueLifecycle`, for any number of reports and accounts, when no two
  queue actions overlap (`OneAtATime == \A p, q \in Req : p = q`). What a request has
  checked is then still allowed when it writes, or retention removed the row
  (`StillAllowed`); each step maps to a line of the transition table or to a stutter.
  Section 6 has what happens without `OneAtATime`.
* **`NobodyIsPushedTwiceOneAtATime`**: `OneAtATime => (Spec => []NobodyIsPushedTwice)`.
  The invariant `PushesAreNew`: what is not public was never pushed, and a report whose
  alert is under way is published and has not been pushed yet. Publication has one way in
  and none back (`PublishedOnce`), so no second alert finds a pushed report. Processes may
  die.
* **`MovesStayOwned`**: `~Crashes => (Spec => []EveryMoveIsAudited)`, for any overlap: a
  move that is not in the log is owed by a request that is on its way there. It is the
  safety half of `MovesAreFollowedUp`; the other half is liveness.

### Contributions_proofs

For every value of the constants that satisfies its `ConstantsAssumption`: any number of
accounts, tiers, treasurers and requests, any prices and terms, a calendar of any length,
with or without crashes. The assumption is that treasurers are accounts, that prices and
terms are positive, that null is neither an account nor a tier, and that the table can
hold finitely many contributions (it is `IsFiniteSet(Contribution)`, needed for the number
a retirement compares with zero). All theorems come from one inductive invariant,
**`BooksInv`** (`BooksInvariance`):

* `RowsAreSound` is what is wanted of the tables;
* `PledgesAreSound` says that the row a pledge on its way will create does not exist yet
  and belongs to no other pledge, that a membership knows its tier until it has read it
  and its price from then on. Without it, `CreateContribution` might write over a row;
* `SettlementsAreSound` says that a settlement that has passed its check relies on a row
  that is there, and a refund on one that was confirmed. It is inductive although two
  settlements of one row may both have passed: no settlement takes `confirmed` back
  (`SettledRow`), so what the other relied on is still so when it writes by id.

From it follow

* **`TypeInvariance`**: `Spec => []TypeOK`;
* **`MoneyArrived`**: `Spec => []CountedMoneyArrived`: a row that counts or was refunded
  was confirmed once, by somebody it names;
* **`MembershipsStayWhole`**: `Spec => []MembershipsAreWhole`: a confirmed membership has
  a term that begins no later than now and ends after it begins, and no row names a tier
  that is gone, however a pledge, the tier's retirement and a confirmation overlap;
* **`HistoryIsKept`**: `Spec => HistoryIsNotRewritten`, the action property: amount, kind
  and donor of a recorded contribution stay in every step. `RecordedIsKept` is the step,
  from `BooksInv`; only three actions write the table at all.

So the counterexample of section 6 about a contribution that is confirmed after it was
refunded is a matter of *which* status is left, never of an amount, of a donor or of
money nobody has seen.

With `OneAtATime` the books gain `LedgerInv`: what a request has read (the status a
settlement asks for, how often a tier was sold) is still so when it writes. From it follow

* **`KeepsTheLedgerOneAtATime`**: the refinement of `Ledger`, the abstract specification;
* **`NothingIsInflatedOneAtATime`**: no refunded contribution counts as confirmed, which
  the run `contributions_inflated` shows broken by two overlapping settlements. The
  theorem says that the overlap is the whole cause;
* **`SoldTierStaysOneAtATime`**: a tier somebody bought is not deleted.

If no process dies, every settlement is logged or about to be, whatever overlaps
(**`SettlementsStayAudited`**). Both conditions together give
**`BooksAreCompleteOneAtATime`**: `OneAtATime /\ ~Crashes => (Spec => []BooksAreComplete)`.

### Accounts_proofs

For any number of accounts, roles, permissions and requests, with or without crashes. The
assumption is that the seeded roles stand as `prisma/seed` makes them: each within its
tier, and a protected one there, marked as a system role and holding what controls the
site. The inductive invariant is **`AccountsInv`** (`AccountsInvariance`): types;
`RolesAreSound`, which adds to the wanted property that the flags of the seeded protected
role stand, because every later edit is measured by them; `SessionsAreSound`; and
`RequestsAreChecked`. The last is why checks made before the transaction suffice for
these properties: tier limits and protection do not change, so what a request has checked
of its *own* data is still so when it writes, whatever others wrote meanwhile. It is also
why they do not suffice for the number of managers, which others do change (section 6).

* **`TypeInvariance`**: `Spec => []TypeOK`;
* **`RolesStayInShape`**: `Spec => []RolesKeepTheirShape`;
* **`ErasedIsOut`**: `Spec => []ErasedStaysOut`;
* **`ChangesSignOut`**: `Spec => ChangedIsSignedOut`, the action property: whatever changes
  the tier of an account or ends its being active ends its sessions in the same step.

With `OneAtATime` a second invariant, `ReadsStand`, says that what a request has read is
still so when it writes: the role it gives is there with the tier it read, the role it
deletes has no holders, and either the role it gives can manage people or somebody else
was counted. From it follow

* **`EveryoneHoldsOneAtATime`**: `OneAtATime /\ SeedIsInOrder => (Spec =>
  []EveryoneHoldsTheirRole)`: nobody is left in a role that is gone and the two copies of
  the tier agree, from any database in which they do (`SeedIsInOrder`; the migration that
  introduced roles gives every account the built-in role of its tier, and
  `prisma/seed.ts:124-130` looks after what it missed);
* **`MovingKeepsAManagerOneAtATime`**: `OneAtATime => (Spec => MovingKeepsAManager)`. The
  run `accounts_swap` shows that this is all it takes: two assignments that overlap leave
  nobody.

### SignIn_proofs

From `SignInAssumption`: finitely many lanes for calls, a bound on calls for each number
of them, limits that are numbers, and accounts at the start that are fresh. The inductive
invariant **`SignInInv`** has four parts, the last of which speaks of behaviours with one
lane (`Alone`), where most promises of the second factor are made:

* `Typed`: shapes, and versions no higher than the account's;
* `TablesAgree`: what is of the present `sessionVersion` was begun after the last reset, a
  session by code had one shown, and no counter is above the failures there were;
* `CallsAgree`: the same of the row each call has in hand. A call reads the row once and
  writes several awaits later; what it read is of the present version only if no reset
  came between, which is why its token is worthless otherwise;
* `AloneInv`: between calls the tables stand (`TablesStand`: codes in the table are not
  spent, a trusted device showed a code, an app in force is proven), and within the one
  call of a lane the step it is at says what of that it may rely on (`StandsAlone`).

Proved, each from `SignInInvariance`: **`SignInTypeInvariance`**, **`ResetsEndSessions`**,
**`LocksAreEarned`** for any overlap; **`EveryFailureCounts`**, **`GuessesStayCapped`**,
**`CodesWorkOnce`**, **`OldSetsAreDead`**, **`AppIsProven`**, **`TrustIsShown`** and the
action property **`FactorIsAlwaysAsked`** for one call after the other. What overlap does
to the latter is in section 6.

### Links_proofs

Links sent by mail (`Tokens`), then links between accounts and Google (`Linking`).

*Links by mail.* For any number of people, addresses and lanes. The assumption is that the addresses at the
start are apart and the lanes are finitely many. The inductive invariant **`TokensInv`** has
three parts: `RowsAreSound` (ids are given once, so a row is known by its id; a row that is
there was not accepted yet), `PeopleAreSound` (types, unique addresses, verified means
proven) and `CallsAreSound`, which carries over the gap between two statements: what a
request has burned the link for stays proven, whoever has the address when it writes.

* **`LinksAreSecrets`**: `TokensSpec => LinksAreOneTime`, the refinement of
  `OneTimeSecret` for any overlap: a find-then-delete that lost the race maps to a
  stutter, because its delete throws; revoking, replacing and expiring map to `Withdraw`.
* **`VerifiedIsProven`**: `TokensSpec => []VerifiedAddressIsProven`;
  **`TypeInvariance`** includes that no two accounts share an address.
* **`MovesWhereAsked`** and **`OneLinkAtATime`** hold in behaviours with `linkLanes = 1`:
  an account moves only to the address its owner asked for last (`SerialInv`), and the
  comment of `lib/auth/tokens.ts` that one link is outstanding per purpose and address is
  true.
* **`LinksStayFew`**: with *k* requests at once there may be *k*, and never more
  (`FewLinksOutstanding`). Inductive is the sum (`FewInv`): links that are alike and
  requests about to create one more. `createToken` withdraws all that are alike and joins
  the second group in one statement, so the sum never passes the number of lanes.

*Links to Google.* From `LinkingAssumption`: the value that stands for nothing is no account, identity or
address, `GoogleMail` maps identities to addresses, and the two bounds are numbers.
Accounts, identities and browsers may be any sets. `LinkingSpec` is the component by
itself. The safety properties are not inductive, since a return from Google acts on what
it read several steps ago; the inductive invariant **`LinkingInv`** says what each return
has in hand:

* `StateIsTyped`: the shapes, each step of a return with its fields, addresses unique
  among accounts, and nothing born of an identity before there is a row;
* `VerifiedHoldersAreProven`, `ReturnsHaveGround`, `LinksHaveGround`: what is marked as verified
  was proved, and a return that is about to link has a *ground* for it: it was brought
  back to a Connect, it created the account, or both sides proved the address. Grounds
  are histories, and histories only grow (`HistoriesGrow`, an action lemma), so a move,
  an erasure or another tab in between takes none away;
* `CookiesAreConsent`, `ReturnsHaveConsent`: a return that may still create an account
  has consent behind it, or saw a link that was removed since (`LinksLeaveTraces`: a link
  is never written over, and its removal is written down);
* `RemovalsLeaveAKey`: a disconnection that passed its check is of an account whose
  password stays, or that is not used any more (`KeysStay`).

Each part is preserved by every action, one step per action and one lemma per part.
Proved:

* **`LinkingInvariance`**: `LinkingSpec => []LinkingInv`;
* **`NoMergeWithoutProof`**: `LinkingSpec => []NoUnprovenMerge`;
* **`ConsentComesFirst`**: `LinkingSpec => []ConsentPrecedesAccount`;
* **`EveryoneGetsBackIn`**: `LinkingSpec => []WayBackIn`;
* **`LinksAreNotTakenOver`**: `LinkingSpec => NoLinkIsTakenOver`.

### Identity_proofs

The four parts that are left, then the whole.

* **Gate**: `GateInv` says that a page one was sent to is served (`RedirectedIsServed`, by
  the order of the rules), and stays so when the visitor puts right what was missing
  there. **`NoCircles`** and **`OnlyStaffPass`**.
* **Entrance**: `EntranceInv` knows of each press under way whose it is and what the page
  shows meanwhile; at most one of them is the person's own (`OwnPressIsOne`).
  **`EntranceIsSound`**.
* **Contact section**: the page follows the answers in the order they come
  (`PageFollows`). **`ContactIsSound`**.
* **Phone**: `PhoneInv` says that a code belongs to one row, which counts every wrong
  guess at it except those of requests in flight (`CodesAreCounted`, `GuessesAreFew`), and
  that with one lane what a request has read is still so (`ReadIsStillSo`).
  **`NumbersAreUnique`**, **`NumberIsProven`**, **`CodesAreNotGuessed`**,
  **`TextedCodeWorksOnce`**. The assumption is that lanes are finitely many, limits are
  numbers and the value for no number is none.
* **The composition**: `PartsBehave` shows that every behaviour of `Identity` is one of
  each part (the part that is its concern steps, the others stutter), so each of the seven
  properties the run `identity` checks follows from theorems about the parts:
  **`IdentityTypeInvariance`**, **`SessionsFollow`**, **`CodesAreSound`**,
  **`IdentitiesAreProven`**, **`GateIsSound`**, **`LinksWorkOnce`**,
  **`NobodyGoesAround`**, all from `IdentitySpec` and for every value of the constants.

### Newsroom_proofs

One inductive invariant for each of the ten components, then the whole. The assumptions
are what the constants are made of: what an editor may send is a body, a mark and a date
(`ArticlesAssumption`), authors are finitely many (`SourcesAssumption`: positions are
counted), no version is numbered zero and there is a language (`SurfacesAssumption`), the
value for nothing is no file and no terms (`CreditsAssumption`), and bounds and limits are
numbers (`EditorAssumption`, `UploadsAssumption`, `FormsAssumption`, `FilingAssumption`,
`CaseworkAssumption`). Stories, desks, files, writers, languages, reports, texts, uploads
and presses may be any number.

* **Articles**: `StoryIsRight` of every story that no two requests raced for. It is in one
  hand at most (`InOneHand`: a request of an editor, or one entry of the scheduler's list,
  never both), so what that hand has read (the status, the files it means to join, that
  their terms are cleared) is still so when it writes; breaking news is announced or in
  the hand that announces it. Without the hand the property says nothing of the awaits
  between the check of the rights and the write. **`ArticlesAreRight`**.
* **Sources**: `RoomIsKept` counts the requests that are past the limit's check together
  with the rows there are, which is why overlapping requests exceed the limit by one each
  and no more; with one request at a time (`OneAtATime`) positions run from one without a
  gap (`InOrder`). **`SourcesAreInOrder`**.
* **Editor**: `TextIsKept` says where the text of the screen is: marked as not saved, in
  the last save under way, or in the row. `CreatedOnce` counts rows and saves that will
  create one. **`FormKeepsTheStory`**.
* **Uploads**: `UploadIsSafe` says what each step of `finalize` has behind it: scanned
  before stored, stored before there is a row, quarantine left before the answer;
  `CopyIsSafe` says it of the resized copy. **`UploadsStaySafe`**.
* **Surfaces**: what makes `SectionsHold` inductive is `given`: while a section that was
  counted as empty is deleted, whatever was filed in it was written meanwhile.
  **`SurfacesAreRight`**. *Translations*: who is within two links of a version finds it
  among its own (`Kin` is symmetric where nothing raced). **`TranslationsAreRight`**.
* **Credits**: a figure's line is that of its row, or the answer to the save that changed
  the row is still on its way (`LinesAreSound`). **`CreditsAreTrue`**.
* **Forms**: one call at most is waited for, with the button disabled (`OneIsWaitedFor`),
  so the message one reads answers the last press (`AnswersAreTrue`), for each of the
  nineteen shapes. **`FormsAnswerTruly`**.
* **Filing**: a report on its way holds the photos the page showed at the press, and its
  press is not among those answered before (`ReportIsNew`). **`FilingIsWhole`**.
* **Casework**: a row of the queue differs from its report only while the answer to a move
  is on its way or for what others did (`BoardStands`, `PublishingIsShown`).
  **`CaseworkIsTrue`**.
* **The composition**: `NewsroomPartsBehave`, then **`NewsroomIsInOrder`** (all ten
  invariants hold together), and from it the three invariants the run `newsroom` checks:
  **`NewsroomTypeInvariance`**, **`NewsroomStoriesStand`**, **`NewsroomKeepsWork`**.

Two properties were said more strongly on the way, since the proofs did not need their
exceptions. `NewsIsAnnounced` had excepted a story whose mark as breaking news was removed
later, and `FormKeepsItsStory` a form that was closed, or overtaken by its own first save.

### Site_proofs

The twelve parts (of the rows of a conversation, their types alone), then the whole.

* **Discussion**: `crossed` holds the comments that two requests, or an old page of the
  moderators, raced for. Of every other comment one request at most has it in hand, and
  what that request read of it is still so when it writes; what was taken down is down,
  and what is public was vetted (`CommentIsRight`). Comments get their numbers in turn
  (`WrittenInTurn`), so a new one is nobody's. **`CommentsStand`**. The assumption
  (`DiscussionAssumption`) is that there is a first reader, that a comment can be written
  and that the bounds are numbers.
* **Composer**: of every piece of text typed, `CallsAreSound` says on which call it is, and
  no two calls have it; a call of the form's own is of what the form still holds, one whose
  form was closed shares nothing with the form opened since. `BoxIsSound`: what is in the
  box and not under way was not posted, and nothing typed is lost but what was discarded.
  `EditIsSound`: a correction under way is the draft it was sent from, unless the reader was
  hasty. **`WordsArriveOnce`**.
* **Push**: every row has a number, and a number is never used again (`RowsAreNumbered`).
  A delivery carries the number of the row it was made by, and one that came back as gone
  is not of the subscription in use (`SendingsAreTrue`), so tidying up after a story takes
  no row that was made meanwhile; a subscription without a row is in the hands of a tab
  (`SomebodyIsAtIt`). **`SubscribersAreReached`**. TLC had been given an exception for two
  tabs that work at once; the proof did not need it, so it is gone from the model. The
  assumption is that endpoints are finitely many and numbered from one.
* **Engagement**: a row came of a press of its own, so the numbers never run out
  (`PressesSuffice`), a request that is alone finds what is stored (`AloneIsRight`), and
  the page that was answered last shows it (`FreshestShows`). **`ReadersCountOnce`**.
* **Reading**: a view is written bucket by bucket, so each bucket is behind the one before
  by at least the views on their way to it (`BucketsFollow`); a page reports once, what its
  clock shows at that moment (`ClocksRun`, `ReportsAreOwn`). **`ReadingIsTrue`**.
* **Limits**: that a stretch of one window's length lets through at most
  `2 * Limit - 1` is not inductive: it says nothing of where the windows lie.
  `WindowsStand` does: the last window of a key was opened by a request let through at
  its first moment, everything let through since is within it and is what its counter
  says, and every stretch that reaches over its start found at most `Limit - 1` before it.
  Counting is by `SpanGrows` (one more let through is one more in each span that has its
  moment) and `SpanIsCut` (a span is no larger than its two halves).
  **`TheLimitIsTheLimit`**, for every limit and length of the window.
* **Mail**: a worker's cache was filled with what was stored, so what it knows and is no
  longer stored was replaced after it was read (`KnownIsDated`); a message that goes on to
  the password does so within the cache's life (`SecretsFollow`). **`MailIsCurrent`**.
* **Deploy**: a job brings its files, then the schema, then touches (`JobGoesInOrder`);
  every exit that answered a touch has a touch of its own (`ExitsHaveTouches`), and who
  answers one does so while the job waits for it (`JobWaits`), or the job's verdict is in
  `doubt` already. That a young process means the new version rests on `YoungIsNew`: who
  was not young at the touch and is now was started since, so it loaded what was brought.
  The assumption is that the number of versions is a number.
* **Migrations**: the first `k` are applied, of the next one at most some statements took
  effect, and none of those after it (`Reached`); the one run under way is at migration
  `k + 1`, as far as its row and its step say (`RunsGoOn`). The property excepts two runs
  at once, which the script does not exclude, and so does the invariant.
* **Bundle**: what is in the directory before a step is what the steps before it put there
  (`BuildGoesInOrder`), so what is finished can be shipped, wherever it was put since
  (`FinishedIsShippable`); an archive has its name only after it was read back
  (`ArchivesAreRead`).
* **Health**: a row's grade was right of something that was so since its report began
  (`VerdictsAreKept`, `RowsAreGraded`), from one lemma for each function of `grade.ts`
  (`GradesAreRight`); a check fails alone, by a subject that did not answer (`TroubleIsKept`).
  The assumption is that the rows looked at are rows the page has.
* **The types**: the type invariants bound the counters as well, and some of the bounds
  need an argument of their own, inductive together with the invariants above: a page's
  clock shows no more than it was on the screen (`ClocksAreBounded`), nobody is let through
  more often than somebody asked (`WindowsAreBounded`), a deploy touches the file once,
  after the version it brings (`DeployBounds`), and a command is at one of its steps
  (`CommandsAreBounded`). That the rows of `_prisma_migrations` stay within the migrations
  there are has to hold when several runs are at it together, where `MigrationsInv` says
  nothing: `TurnsAreKept` says that the applied ones are still the first `a` and that every
  run is at one of those that have had their turn. `CrashBound`, `RunBound`, `TreeBound` and
  `CommandBound` are assumed to be numbers.
* **The composition**: `SitePartsBehave` shows that a behaviour of `Site` is one of each of
  these parts. **`SiteTypeInvariance`**, **`SiteComments`**, **`SiteServesItsReaders`**,
  **`SiteMemoryIsTrue`** and **`SiteReleasesLand`** are the properties the run `site` checks,
  from `SiteSpec` and for every value of the constants.

The proofs also settled a point of form. Where the arms of a `CASE` overlap, TLA+ does not
say which is meant; TLC takes the first, and so does the code, an `if` with early returns.
The provers do not, so the grades of latency and disk, the step after a second factor in
`SignIn` and the answer to a post in `Thread` now say in their guards which one it is.

### Only model-checked

On the instances of section 4, every invariant the runs check but one is a theorem. What
stays with TLC:

* `ConversationHolds`, of the tree the page makes of a thread's rows: `Prune` is a recursive
  function, the orders are folds, and what is below a comment is a transitive closure. What
  these compute for every input needs induction over data, which is out of the prover's
  reach; TLC compares them with their definition on every set of rows it reaches.
* Liveness (`ReporterIsAnswered`, `MemberLearnsReference`, `DueIsPublished`,
  `NewVersionServes`), out of the prover's reach together with `ENABLED`.

## 6. Where the code and its own documentation disagree

Three runs show a counterexample:

* **`contributions_inflated`** – `lib/contributions.ts:126-129` promises that two
  treasurers "cannot confirm the same money twice and inflate a total". Both checks are
  reads and the update at line 158 is by id. A confirmation that was checked before
  another confirmation and its refund is written after them: the refunded money counts
  again. Making the update conditional (`updateMany` with the status) closes it.
* **`accounts_swap`** – `lib/auth/roleService.ts:27`: "the last account that can manage
  people cannot be moved off it". `assertNotLastAdministrator` counts outside the
  transaction that writes; two managers moving each other are each counted as the one
  who remains.
* **`replies_dropped`** – `lib/notifications.ts:18-19` says that a notification is
  idempotent by user, type and *comment*; the unique key in the schema is user, type and
  *article*, and the insert skips duplicates. Of several answers to one person under one
  article only the first is announced.

### Issues, Contributions, Accounts

The serial runs hold because only one request runs at a time. The same properties with
`Req = {q1, q2}` fail, each for the reason just described (a check and a write with
something in between):

* `FollowsLifecycle` and `NobodyIsPushedTwice`: `lib/issues.ts:294` overwrites a newer
  status, so a move outside the table can be written; two publications that both read
  VERIFIED push a resident twice although the notification row is unique
  (`lib/issueAlerts.ts:107`; its comment says "Nobody is told twice").
* `BooksAreComplete`: a pledge recorded between the count and the delete of `retireTier`
  (`lib/contributions.ts:468`) loses its tier.
* `EveryoneHoldsTheirRole`: `updateRole` decides whether the holders' tier has to follow
  from a tier read before the transaction (`lib/auth/roleService.ts:161`); a role counted
  as unheld (line 201) is deleted after somebody was moved onto it, and the foreign key
  sets their role to null.

With one request at a time `assertNotLastAdministrator` never refuses: whoever moves
somebody holds `user.manage` and stays. What `MovingKeepsAManager` rests on then is that
nobody moves themselves and that a role somebody holds is not deleted; the count is
there for the concurrent case, which `accounts_swap` shows it does not cover.
`MovingKeepsAManager` exempts edits of permissions and changes of status: `updateRole`
asks only that the protected role keeps control, `wouldRemoveLastAdmin` counts tiers
rather than permissions, and erasing one's own account does not count at all.
`MemberLearnsReference` speaks of members: for a guest the audit row of
`support/actions.ts:89` names the contribution as its actor, which the foreign key into
`User` refuses, so the pledge is stored and the reference is not returned.
`docs/support.md:62` says that closing an account unlinks its contributions;
`anonymiseAccount` keeps the `User` row, so nothing is unlinked.

### The conditions of the other properties

Met while modelling; each is an "unless" of a property, or a transition of a model that
no property forbids.

*Identity.* An emailed code can be used by two overlapping requests
(`emailOtp.ts:133`), recovery codes are restored by overlapping uses, and "one
outstanding token" means at most one per overlapping request. A device
trusted by an emailed code stays trusted through `confirmMfaSetup` when an earlier secret
was left over. A Google link
severed between the `signIn` callback's lookup and the adapter's creates an account
without recorded consent; a link created by a join that races an erasure stays on the
erased account; `createUser` followed by a refused `linkAccount` leaves an account with
neither password nor link. A phone number stored between comparison and write is marked
as verified though another was proved. The rule of `proxy.ts` for `?why=verify` is
unreachable. On the login page, "use a different account" while a code is being verified
still signs the first account in, "remember this device" acts on whatever session the
browser has by then, an editor whose session cannot be read after signing in is sent to
"/", and with `mfaCheckLimiter` exhausted an account with a factor is told "incorrect
credentials". `StepUpForm` takes six digits only, though it is described as the same
screen as the password path, which accepts recovery codes. In the contact section a text
that cannot be sent has already replaced a verified number by an unverified one, while
the page goes on showing the old one.

*Stories.* Publishing, unpublishing and archiving leave `scheduledFor` set, the form
sends it again, and the scheduler writes by id what it read: a story withdrawn in the
middle of a pass can go up again. Making a published story breaking alerts nobody. In
the form, text typed while a save is in flight loses its dirty mark; a click on Save
during the first autosave makes a second article; a save that throws leaves the button
disabled. Limits on links and references are exceeded by one per overlapping request. A
section deleted while a save into it is in flight silently leaves the story without one.
Two versions of a story in one language make the alternates one-sided. The sitemap lists
author pages of suspended staff (they are 404) although its comment says it matches who
has one; search options name writers whose public stories are all anonymous. Author
names of anonymous stories are among the properties handed to a client component of the
article page.

*Files.* The limiter of uploads counts upload and finalize, and a 429 at finalize leaves
the bytes in quarantine though a comment says they are deleted either way; the resized
copy is not written atomically; an object stays when creating its row fails. In the
rights dialog the confirmation tick stays when the licence changes, though
`setMediaRights` says that changing anything asks for it again; an upload that ends
replaces an open dialog, so the file it belonged to may never be inserted.

*Reports.* `rejectIssue` requires a note because "it is shown to the reporter", but the
note is never read by any page or notification. "Mark resolved" is unreachable: the
queue lists only reports that are not published. An old "Take it on" is accepted on a
verified or rejected report and an old "Cannot verify" rejects what somebody else just
verified. A named reporter's byline leads to an author page that ordinary members do not
have. Photographs are attached in the order the database returns them. A report sent
while photographs go up is filed without them, and one whose answer is lost is filed
again by the next press.

*Comments, push, counts.* A reply approved while its parent is pending is never
announced; approving from an old page revives a comment its author deleted; reports of
comments are never closed. The comment form empties what was typed while it was posting.
The unique keys with a `NULL` in them allow a follow twice. `PushToggle` shows "on" from
the browser's subscription though the server may have no row; retention removes a device
after one failed delivery followed by a month without any story. Republishing sends a
second push. `ReadingBeacon` reports once, at the first hide.

*Host.* `rateLimit.ts:4-8` says sliding window, the code is a fixed one (at most
`2 * limit - 1` in any window's length). The mail cache can be filled by a read that a
save overtook, beyond "60 s is the longest". Two overlapping `setup.js migrate` runs
leave a failed row for a migration that is applied; a failed migration leaves new files
beside an old schema. The smoke test accepts a process that started within five minutes
before the touch, and a touch that falls between a start's reading of old code and of
the file's time is missed. On the health page a database that hangs is "warn", one that
refuses is "fail"; the fallback resolver is useless when the system's is silent (3 s and
3 s reach the limit of 6 s); walking a large uploads folder synchronously delays every
other row. `pack:cpanel` archives the directory of a build
that stopped, `.env` included if it stopped early; an `ffmpeg` whose download was cut short
begins like an executable and is bundled. Readiness demands `RESEND_API_KEY` although mail settings in the dashboard
would do.

*Forms.* Settings forms say "Saved." beside text typed while the save was in flight, and
`SmtpForm` drops a password typed then; `ProfileDetails`, `CategoryRow` and the role
editor write back values from when they were opened. A call whose answer is lost leaves
a form `pending` until the page is reloaded, and a sheet it made (recovery codes, a
temporary password) is one that nobody sees. The report button of a comment shows
"reported" whatever the answer.

## 7. What is not modelled

`PROJECT.json` lists every component with its status. Left out as a whole:

* **Text and formatting** (`sanitize.ts`, `slugify.ts`, `format.ts`, `feed.ts`,
  `i18n/*`): functions of characters without state. A model over values cannot tell
  their results apart, and one over characters would be the program again.
* **Analytics reports** (`analytics.ts`, charts): aggregations for display of counters
  whose writing is in `Reading`.
* **Tables of data**: provinces and districts (`nepal.ts`), permissions (only those the
  rules of `Accounts` name), private address ranges (`ssrf.ts`), limits of form schemas.
* **Demo data** (`seed-demo.ts`): a script that one person runs once, on their own.
* **Layout, icons, the audio player, privacy and other text pages**: rendering.
* **Headers** (`csp.ts`) and the origin comparison (`csrf.ts`): string building.

Partly: `Retention` (only the clauses whose deletes other steps can meet), `Account
erasure` (rows of reactions and subscriptions go by one transaction and are not
modelled), `Contributions` (parsing of amounts, the random reference), `Search` (which
names and stories, not which words), `Link previews` (the fetch, not the HTML), `Mail
and SMS` (which server, not the protocol), `Categories and settings` (ordering, theme).

Inside the modelled components the following is left out: wording of messages, cache
revalidation after a write (pages are rendered anew at any moment), rate limits in front
of the actions unless a property is about them (they only refuse), form parsing, and the
isolation level of MySQL inside a transaction (each transaction is one step; reads
and writes outside transactions are steps of their own). Hashes, signatures and one-time
passwords are equality of values.
