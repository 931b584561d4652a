------------------------------ MODULE Surfaces ------------------------------
(***************************************************************************)
(* What readers are shown of the articles: every page and feed asks the    *)
(* database anew for each request, with a filter of its own (app/(public), *)
(* app/sitemap.ts, app/feed.xml, lib/search.ts, lib/followingFeed.ts), and *)
(* what the filters look at changes under them: editors write, publish,    *)
(* withdraw and hide a byline, administrators suspend and demote writers   *)
(* and delete a section (dashboard/categories/actions.ts).                 *)
(*                                                                         *)
(* Stories are numbered in the order they were published.  There is one    *)
(* section, and one tag that stands for it too.                            *)
(*                                                                         *)
(* The second part is the same story in two languages: the link an editor  *)
(* sets from one article to the article it translates                      *)
(* (dashboard/articles/actions.ts), and the two places that tell crawlers  *)
(* and readers of the other versions, each in its own way: the article     *)
(* page and the sitemap.  It keeps its stories apart from the first.       *)
(***************************************************************************)
EXTENDS Naturals, FiniteSets

CONSTANTS
    Piece,          \* stories, in the order of their publication, 1..n
    Writer,         \* accounts that have written
    TopLength,      \* the stories at the top of the front page
    Tale,           \* articles of the second part, 1..n
    Lang            \* LOCALES

\* An article without an original has 0 for its number.
ASSUME SurfacesAssumption == 0 \notin Tale /\ Lang # {}

VARIABLES
    shelf,          \* Article rows
    writer,         \* by account, what the public pages ask of it
    section,        \* the section exists
    clearing,       \* deleteCategory has counted no story
    filing,         \* saves that have checked their section, by piece
    given,          \* history: pieces saved with the section and not since without
    midClear,       \* history: a save with the section was written while it was being deleted
    tale            \* second part: status, locale and translationOfId of Article rows

surfaceVars == <<shelf, writer, section, clearing, filing, given, midClear>>

Standing == {"staff", "suspended", "reader"}
PieceRow == [by : Writer, public : BOOLEAN, anonymous : BOOLEAN, section : BOOLEAN]

SurfacesInit ==
    /\ shelf \in [Piece -> [by : Writer, public : {FALSE}, anonymous : {FALSE},
                            section : {FALSE}]]
    /\ writer = [w \in Writer |-> "staff"]
    /\ section = TRUE /\ clearing = FALSE
    /\ filing = {} /\ given = {} /\ midClear = FALSE

---------------------------------------------------------------------------
(* What changes                                                            *)

\* validateRelations: the section is there when it is looked for.
FileInSection(p) ==
    /\ section /\ filing = {}
    /\ filing' = {p}
    /\ UNCHANGED <<shelf, writer, section, clearing, given, midClear>>

\* The write fails when the section has gone since.
WriteInSection(p) ==
    /\ p \in filing /\ filing' = filing \ {p}
    /\ IF section
       THEN /\ shelf' = [shelf EXCEPT ![p].section = TRUE]
            /\ given' = given \cup {p} /\ midClear' = (midClear \/ clearing)
       ELSE UNCHANGED <<shelf, given, midClear>>
    /\ UNCHANGED <<writer, section, clearing>>

SaveOutside(p) ==
    /\ shelf[p].section
    /\ shelf' = [shelf EXCEPT ![p].section = FALSE]
    /\ given' = given \ {p}
    /\ UNCHANGED <<writer, section, clearing, filing, midClear>>

\* Other saves, of the byline; and publish, unpublish, archive.
Edit(p) ==
    /\ \/ shelf' = [shelf EXCEPT ![p].anonymous = ~@]
       \/ shelf' = [shelf EXCEPT ![p].public = ~@]
    /\ UNCHANGED <<writer, section, clearing, filing, given, midClear>>

\* setUserStatus, updateUserRole and their like, by what the pages see of them.
ChangeStanding(w) ==
    /\ \E s \in Standing \ {writer[w]} : writer' = [writer EXCEPT ![w] = s]
    /\ UNCHANGED <<shelf, section, clearing, filing, given, midClear>>

\* Mutant: a section may go while stories are in it.
MayClearAny == section

MayClear == section /\ \A p \in Piece : ~shelf[p].section

CountForDeletion ==
    /\ ~clearing /\ MayClear
    /\ clearing' = TRUE
    /\ UNCHANGED <<shelf, writer, section, filing, given, midClear>>

\* The key of a story to its section is set to NULL.
DeleteSection ==
    /\ clearing /\ clearing' = FALSE
    /\ section' = FALSE
    /\ shelf' = [p \in Piece |-> [shelf[p] EXCEPT !.section = FALSE]]
    /\ UNCHANGED <<writer, filing, given, midClear>>

SurfacesNext ==
    \/ CountForDeletion \/ DeleteSection
    \/ \E w \in Writer : ChangeStanding(w)
    \/ \E p \in Piece : FileInSection(p) \/ WriteInSection(p) \/ SaveOutside(p) \/ Edit(p)

SurfacesSpec == SurfacesInit /\ [][SurfacesNext]_surfaceVars

---------------------------------------------------------------------------
(* What is shown, of the rows r                                            *)

Public(r) == {p \in Piece : r[p].public}
InSection(r) == {p \in Public(r) : r[p].section}
Nobody == "anonymous"

\* ArticleCard, ArticleHeader, the share card, the feed and the structured data.
Card(r, p) == [piece |-> p, byline |-> IF r[p].anonymous THEN Nobody ELSE r[p].by]
Cards(r, S) == {Card(r, p) : p \in S}


\* Mutant: the page of an author lists all they wrote.
AllOf(r, w) == {p \in Public(r) : r[p].by = w}

\* Author pages, the search by author and the feed of a writer's followers
\* leave out what has no byline.
SignedBy(r, w) == {p \in Public(r) : r[p].by = w /\ ~r[p].anonymous}

\* The author page, which only active staff have.
HasPage(w) == writer[w] = "staff"
AuthorPage(r, w) == IF HasPage(w) THEN Cards(r, SignedBy(r, w)) ELSE {}

\* Search with no words: by section, by author.
SearchSection(r) == Cards(r, InSection(r))
SearchAuthor(r, w) == Cards(r, SignedBy(r, w))

\* What the search form offers, and what the sitemap lists.
WithStories(r) == {w \in Writer : \E p \in Public(r) : r[p].by = w}
OfferedSection(r) == InSection(r) # {}
MappedAuthors(r) == {w \in WithStories(r) : writer[w] # "reader"}

\* A reader follows writers, and the section or not.  Suspended writers are left out.
FollowedFeed(r, writers, alsoSection) ==
    Cards(r, (UNION {SignedBy(r, w) : w \in {x \in writers : writer[x] # "suspended"}})
             \cup (IF alsoSection THEN InSection(r) ELSE {}))

\* notifyBreakingNews and pushBreakingNews: whose followers hear of a story.
AlertedBy(r, p) == (IF r[p].anonymous THEN {} ELSE {r[p].by})
                       \cup (IF r[p].section THEN {"section"} ELSE {})

\* The bottom of a story: more of its section, or of the latest.
MoreFrom(r, p) == Cards(r, (IF r[p].section THEN InSection(r) ELSE Public(r)) \ {p})

\* The front page: the newest lead it, and no strip repeats them.
Top(r) == {p \in Public(r) : Cardinality({q \in Public(r) : q > p}) < TopLength}
Strip(r, writers) == {c \in FollowedFeed(r, writers, TRUE) : c.piece \notin Top(r)}

Surfaces(r) ==
    [front |-> <<Cards(r, Top(r)), Cards(r, Public(r) \ Top(r))>>,
     feed |-> Cards(r, Public(r)),
     section |-> Cards(r, InSection(r)),
     search |-> <<SearchSection(r), [w \in Writer |-> SearchAuthor(r, w)]>>,
     author |-> [w \in Writer |-> AuthorPage(r, w)],
     following |-> [W \in SUBSET Writer |-> <<FollowedFeed(r, W, FALSE), Strip(r, W)>>],
     alerts |-> [p \in Public(r) |-> AlertedBy(r, p)],
     more |-> [p \in Public(r) |-> MoreFrom(r, p)]]

---------------------------------------------------------------------------
SurfacesTypeOK ==
    /\ shelf \in [Piece -> PieceRow] /\ writer \in [Writer -> Standing]
    /\ section \in BOOLEAN /\ clearing \in BOOLEAN
    /\ filing \subseteq Piece /\ given \subseteq Piece /\ midClear \in BOOLEAN

\* A public story without a byline is anonymous everywhere: whoever wrote it,
\* every page, list, feed and alert is the same.  (The names in the sitemap
\* and in the search form are not: see OffersLeadSomewhere.)
AnonymousStaysAnonymous ==
    \A p \in Public(shelf) : shelf[p].anonymous =>
        \A w \in Writer : Surfaces(shelf) = Surfaces([shelf EXCEPT ![p].by = w])

\* What is offered is there: a section in the list has stories, a writer with
\* an author page that lists something is in the sitemap, and a writer whom
\* the search form or the sitemap names is found, or wrote only anonymously,
\* or has no page any more.
OffersLeadSomewhere ==
    /\ OfferedSection(shelf) => section /\ SearchSection(shelf) # {}
    /\ \A w \in Writer :
           /\ AuthorPage(shelf, w) # {} => w \in MappedAuthors(shelf)
           /\ w \in WithStories(shelf) =>
                  \/ SearchAuthor(shelf, w) # {}
                  \/ \A p \in Public(shelf) : shelf[p].by = w => shelf[p].anonymous
           /\ w \in MappedAuthors(shelf) /\ SearchAuthor(shelf, w) # {} =>
                  AuthorPage(shelf, w) # {} \/ writer[w] = "suspended"

\* Deleting a section takes no story out of it: whatever was last saved in the
\* section is in it, in spite of deletions that were begun, unless the save
\* was written while one was under way.
SectionsHold == ~midClear => \A p \in given : section /\ shelf[p].section

SurfacesHold == AnonymousStaysAnonymous /\ OffersLeadSomewhere /\ SectionsHold

---------------------------------------------------------------------------
(* The same story in two languages                                         *)

taleVars == <<tale>>

NoTale == [there |-> FALSE, public |-> FALSE, lang |-> CHOOSE l \in Lang : TRUE, of |-> 0]

TranslationsInit == tale = [a \in Tale |-> NoTale]

There == {a \in Tale : tale[a].there}

\* Mutant: an article may be named as its own original.
ResolveAnything(a) == {0} \cup There

\* resolveTranslationOf: no slug, or that of another article that exists.
\* Articles are never deleted, so what was resolved is there when it is written.
Resolves(a) == {0} \cup (There \ {a})

\* createArticle and updateArticle.
SaveTranslation(a) ==
    \E of \in Resolves(a), lang \in Lang :
        tale' = [tale EXCEPT ![a] = [@ EXCEPT !.there = TRUE, !.lang = lang, !.of = of]]

\* publishArticle, and unpublishArticle or archiveArticle.
TurnPublic(a) ==
    /\ tale[a].there
    /\ tale' = [tale EXCEPT ![a].public = ~@]

TranslationsNext == \E a \in Tale : SaveTranslation(a) \/ TurnPublic(a)

TranslationsSpec == TranslationsInit /\ [][TranslationsNext]_taleVars

---------------------------------------------------------------------------
(* What is told of the other versions                                      *)

Of(a) == {b \in Tale : b = tale[a].of}
TranslationsOf(a) == {b \in Tale : tale[b].there /\ tale[b].of = a}
Readable(S) == {b \in S : tale[b].public}

\* Mutant: the other translations of one original are left out.
CandidatesDirect(a) == <<Of(a), TranslationsOf(a)>>

\* otherVersions looks at the original, at its translations, at its own.
Candidates(a) == <<Of(a), UNION {TranslationsOf(b) : b \in Of(a)}, TranslationsOf(a)>>

\* One of each language but its own, the first that is found.
OtherVersions(a) ==
    LET found == [i \in DOMAIN Candidates(a) |-> Readable(Candidates(a)[i]) \ {a}]
        first(l) == {i \in DOMAIN found : \E b \in found[i] : tale[b].lang = l} IN
    {CHOOSE b \in found[CHOOSE i \in first(l) : \A j \in first(l) : i <= j] : tale[b].lang = l :
         l \in {x \in Lang \ {tale[a].lang} : first(x) # {}}}

\* The sitemap: what is linked to it directly, and the other translations of
\* its original that are in the same list.  A language found later replaces
\* the one found before, its own among them.
MapVersions(a) ==
    Readable(Of(a) \cup TranslationsOf(a))
        \cup (IF tale[a].of = 0 THEN {} ELSE Readable(TranslationsOf(tale[a].of)) \ {a})

---------------------------------------------------------------------------
TranslationsTypeOK ==
    \A a \in Tale : tale[a].lang \in Lang /\ tale[a].of \in Tale \cup {0}

Linked(a, b) == tale[a].of = b \/ tale[b].of = a
Akin(a, b) == Linked(a, b) \/ (tale[a].of # 0 /\ tale[a].of = tale[b].of)

\* No two readable versions in one language, counting over two steps.
OneOfEachLanguage ==
    \A a, b \in Readable(Tale) : a # b /\ tale[a].lang = tale[b].lang =>
        /\ ~Akin(a, b)
        /\ \A c \in Tale : ~(Akin(a, c) /\ Akin(c, b))

\* Versions name one another: whatever is public of a story, in whichever
\* order its versions were linked, published and withdrawn, an article page
\* offers those that offer it, the sitemap tells of the same ones, and no
\* article is its own original.  Unless two of them are in one language,
\* which nothing in the editor prevents.
VersionsNameEachOther ==
    /\ \A a \in Tale : tale[a].of # a
    /\ \A a \in Readable(Tale) : OtherVersions(a) \subseteq Readable(Tale) \ {a}
    /\ OneOfEachLanguage =>
           \A a \in Readable(Tale) :
               /\ \A b \in OtherVersions(a) : a \in OtherVersions(b)
               /\ MapVersions(a) = OtherVersions(a)
=============================================================================
