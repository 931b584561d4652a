--------------------------------- MODULE Site ---------------------------------
(***************************************************************************)
(* The readers and the host: what people write, press and read on the      *)
(* site, and the processes, mail servers and releases that serve them.     *)
(* Twelve parts that keep their state in tables, pages and files of their  *)
(* own: a behaviour exercises one of them, chosen at the start, and the    *)
(* others stand still.                                                     *)
(***************************************************************************)
EXTENDS Discussion, Thread, Push, Engagement, Reading, Limits, Mail, Deploy,
        Health

VARIABLE concern    \* the part this behaviour exercises

SiteConcerns == {"discussion", "thread", "composer", "push", "engagement",
                 "reading", "limits", "mail", "migrations", "deploy", "bundle",
                 "health"}

siteVars == <<concern, commentVars, threadVars, composerVars, pushVars,
              engagementVars, readingVars, limitVars, mailVars,
              migrationVars, deployVars, bundleVars, healthVars>>

\* Where several starts are possible, a part that stands still has one of them.
SiteInit ==
    /\ concern \in SiteConcerns
    /\ DiscussionInit /\ ThreadInit /\ ComposerInit /\ PushInit
    /\ EngagementInit /\ ReadingInit /\ LimitsInit /\ MailInit
    /\ MigrationsInit /\ DeployInit /\ BundleInit /\ HealthInit
    /\ concern # "composer" => writing = "comment"
    /\ concern # "engagement" => kind = "like" /\ freshest = CHOOSE p \in Page : TRUE
    /\ concern # "mail" => saver = CHOOSE w \in Worker : TRUE
    /\ concern # "bundle" => machine = "linux"
    /\ concern # "health" =>
           /\ watched = CHOOSE w \in Watches : TRUE
           /\ written.wrong = {} /\ ~bigFolder

\* The part takes a step, and the others none.
Alone(part) ==
    /\ concern = part /\ UNCHANGED concern
    /\ IF part = "discussion" THEN TRUE ELSE UNCHANGED commentVars
    /\ IF part = "thread" THEN TRUE ELSE UNCHANGED threadVars
    /\ IF part = "composer" THEN TRUE ELSE UNCHANGED composerVars
    /\ IF part = "push" THEN TRUE ELSE UNCHANGED pushVars
    /\ IF part = "engagement" THEN TRUE ELSE UNCHANGED engagementVars
    /\ IF part = "reading" THEN TRUE ELSE UNCHANGED readingVars
    /\ IF part = "limits" THEN TRUE ELSE UNCHANGED limitVars
    /\ IF part = "mail" THEN TRUE ELSE UNCHANGED mailVars
    /\ IF part = "migrations" THEN TRUE ELSE UNCHANGED migrationVars
    /\ IF part = "deploy" THEN TRUE ELSE UNCHANGED deployVars
    /\ IF part = "bundle" THEN TRUE ELSE UNCHANGED bundleVars
    /\ IF part = "health" THEN TRUE ELSE UNCHANGED healthVars

SiteNext ==
    \/ Alone("discussion") /\ DiscussionNext
    \/ Alone("thread") /\ ThreadNext
    \/ Alone("composer") /\ ComposerNext
    \/ Alone("push") /\ PushNext
    \/ Alone("engagement") /\ EngagementNext
    \/ Alone("reading") /\ ReadingNext
    \/ Alone("limits") /\ LimitsNext
    \/ Alone("mail") /\ MailNext
    \/ Alone("migrations") /\ MigrationsNext
    \/ Alone("deploy") /\ DeployNext
    \/ Alone("bundle") /\ BundleNext
    \/ Alone("health") /\ HealthNext

\* The host starts what is not running, and a running process goes on.
SiteFairness == WF_deployVars(concern = "deploy" /\ DeployStep)

SiteSpec == SiteInit /\ [][SiteNext]_siteVars /\ SiteFairness

---------------------------------------------------------------------------
SiteTypeOK ==
    /\ concern \in SiteConcerns
    /\ DiscussionTypeOK /\ ThreadTypeOK /\ ComposerTypeOK /\ PushTypeOK
    /\ EngagementTypeOK /\ ReadingTypeOK /\ LimitsTypeOK /\ MailTypeOK
    /\ MigrationsTypeOK /\ DeployTypeOK /\ BundleTypeOK /\ HealthTypeOK

\* A comment is public as its author and the moderators decided, by the
\* settings in force, and what is typed into the page is posted once.
CommentsStandAsDecided ==
    TakenDownStaysDown /\ PublicTextWasVetted /\ SettingsAreCurrent /\ ComposerHolds

\* Who is shown as subscribed is reached, and what readers press and read is
\* counted once, and no more of it than they did.
ReadersAreServed == SubscribedIsReached /\ CountedOnce /\ ReadingIsCounted

\* What a process remembers is no older than it may be.
MemoryIsTrue == LimitsHold /\ SavedMailIsUsed

\* A release is bundled whole, migrated once and in order, serves whole, and on
\* a configuration it can do its job with; and where something is wrong the
\* health page tells.
ReleasesLand == BundlesLand /\ MigrationsLand /\ DeploysLand /\ HealthIsTold
=============================================================================
