------------------------------- MODULE Newsroom -------------------------------
(***************************************************************************)
(* What the desk makes: a story from its editing form over its files,      *)
(* sources and translations to the pages that show it, the queue of        *)
(* reports, and the reports and forms people fill in on the way. Parts     *)
(* that keep their state in rows and pages of their own: a behaviour       *)
(* exercises one of them, chosen at the start, and the others stand still. *)
(***************************************************************************)
EXTENDS Articles, Sources, Editor, Uploads, Surfaces, Forms,
        Credits, Filing, Casework

VARIABLE concern    \* the part this behaviour exercises

NewsroomConcerns == {"articles", "sources", "editor", "uploads", "surfaces",
                     "translations", "forms", "credits", "filing", "casework"}

newsroomVars == <<concern, articleVars, sourceVars, editorVars, uploadVars,
                  surfaceVars, taleVars, formVars, creditVars, filingVars,
                  caseVars>>

\* Where several starts are possible, a part that stands still has one of them.
NewsroomInit ==
    /\ concern \in NewsroomConcerns
    /\ ArticlesInit /\ SourcesInit /\ EditorInit /\ UploadsInit
    /\ SurfacesInit /\ TranslationsInit /\ FormsInit /\ CreditsInit
    /\ FilingInit /\ CaseworkInit
    /\ concern # "articles" => licensed = {} /\ \A s \in Story : story[s] = NoStory
    /\ concern # "sources" => sheet = "links"
    /\ concern # "editor" => rows = <<>>
    /\ concern # "uploads" =>
           /\ setup = CHOOSE x \in Setup : TRUE
           /\ \A u \in Upload : upload[u].kind = "image"
    /\ concern # "surfaces" => \A p \in Piece : shelf[p].by = CHOOSE w \in Writer : TRUE
    /\ concern # "forms" => shape = RegisterForm
    /\ concern # "casework" => \A c \in Case : caseRow[c].status = "NONE"

\* The part takes a step, and the others none.
OnlyAt(part) ==
    /\ concern = part /\ UNCHANGED concern
    /\ IF part = "articles" THEN TRUE ELSE UNCHANGED articleVars
    /\ IF part = "sources" THEN TRUE ELSE UNCHANGED sourceVars
    /\ IF part = "editor" THEN TRUE ELSE UNCHANGED editorVars
    /\ IF part = "uploads" THEN TRUE ELSE UNCHANGED uploadVars
    /\ IF part = "surfaces" THEN TRUE ELSE UNCHANGED surfaceVars
    /\ IF part = "translations" THEN TRUE ELSE UNCHANGED taleVars
    /\ IF part = "forms" THEN TRUE ELSE UNCHANGED formVars
    /\ IF part = "credits" THEN TRUE ELSE UNCHANGED creditVars
    /\ IF part = "filing" THEN TRUE ELSE UNCHANGED filingVars
    /\ IF part = "casework" THEN TRUE ELSE UNCHANGED caseVars

NewsroomNext ==
    \/ OnlyAt("articles") /\ ArticlesNext
    \/ OnlyAt("sources") /\ SourcesNext
    \/ OnlyAt("editor") /\ EditorNext
    \/ OnlyAt("uploads") /\ UploadsNext
    \/ OnlyAt("surfaces") /\ SurfacesNext
    \/ OnlyAt("translations") /\ TranslationsNext
    \/ OnlyAt("forms") /\ FormsNext
    \/ OnlyAt("credits") /\ CreditsNext
    \/ OnlyAt("filing") /\ FilingNext
    \/ OnlyAt("casework") /\ CaseworkNext

\* Visits keep coming, time passes and a pass of the scheduler goes on.
NewsroomFairness ==
    /\ WF_articleVars(concern = "articles" /\ Visit)
    /\ WF_articleVars(concern = "articles" /\ MinutePasses)
    /\ WF_articleVars(concern = "articles" /\ PassStep)

NewsroomSpec == NewsroomInit /\ [][NewsroomNext]_newsroomVars /\ NewsroomFairness

---------------------------------------------------------------------------
NewsroomTypeOK ==
    /\ concern \in NewsroomConcerns
    /\ ArticlesTypeOK /\ SourcesTypeOK /\ EditorTypeOK /\ UploadsTypeOK
    /\ SurfacesTypeOK /\ TranslationsTypeOK /\ FormsTypeOK /\ CreditsTypeOK
    /\ FilingTypeOK /\ CaseworkTypeOK

\* A story or a report is public as was decided at the desk: what was taken
\* down stays down, what is up is cleared, credited and announced, its sources
\* keep their order, and the pages that show it show what they may and lead
\* somewhere.
StoriesStandAsDecided ==
    WithdrawnStaysWithdrawn /\ PublicFilesAreCleared /\ NewsIsAnnounced /\ SourcesInOrder
        /\ SurfacesHold /\ VersionsNameEachOther /\ CreditsHold /\ CaseworkHolds

\* What people hand in is kept whole, and once: a story in its form, files in
\* the media store, a report with its photos, and whatever is written into
\* the forms of the site.
WorkIsKept == FormKeepsItsStory /\ UploadsAreSafe /\ FormsHold /\ FilingHolds
=============================================================================
