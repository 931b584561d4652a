------------------------------ MODULE Sources ------------------------------
(***************************************************************************)
(* The links and the numbered references of one article                    *)
(* (dashboard/articles/actions.ts, addArticleLink to                       *)
(* removeArticleReference), and the fetch of a linked page that stands     *)
(* between the count of the links and the writing of one                   *)
(* (lib/linkPreview/fetch.ts).                                             *)
(*                                                                         *)
(* Each action is one request with the reads and writes of the code as     *)
(* steps of their own; the removal of a reference and the renumbering      *)
(* after it are one transaction.                                           *)
(***************************************************************************)
EXTENDS Naturals, FiniteSets

CONSTANTS
    Author,         \* requests that can be under way at once
    MaxSources,     \* MAX_LINKS_PER_ARTICLE, MAX_REFERENCES_PER_ARTICLE
    MaxRedirects,   \* MAX_REDIRECTS
    SourceBound     \* bound of the model: requests, which number the rows too

ASSUME SourcesAssumption ==
    IsFiniteSet(Author) /\ MaxSources \in Nat \ {0} /\ MaxRedirects \in Nat /\ SourceBound \in Nat

VARIABLES
    sheet,          \* the list this behaviour is about
    entries,        \* its rows
    task,           \* by author, the request under way
    asked,          \* counter of the bound
    crossing,       \* history: two requests were under way at once
    reached         \* history: places the server has connected to

sourceVars == <<sheet, entries, task, asked, crossing, reached>>

Places == {"outside", "inside"}

\* What an address may be: a name is looked up when it is dialled, a literal
\* address is not, and the rest (another protocol, credentials) is none.
Address == [form : {"name", "number"}, place : Places] \cup {[form |-> "other", place |-> "outside"]}

NoWork == [pc |-> "idle", what |-> 0, at |-> 0, hop |-> 0, shown |-> FALSE]

SourcesInit ==
    /\ sheet \in {"links", "references"}
    /\ entries = {} /\ asked = 0 /\ crossing = FALSE /\ reached = {}
    /\ task = [a \in Author |-> NoWork]

Working == {a \in Author : task[a].pc # "idle"}
Set(a, w) == task' = [task EXCEPT ![a] = w]

Begin(a) ==
    /\ task[a].pc = "idle" /\ asked < SourceBound
    /\ asked' = asked + 1
    /\ crossing' = (crossing \/ Working # {})

Fetchable(u) == u.form # "other" /\ ~(u.form = "number" /\ u.place = "inside")

Add(a) ==
    /\ Begin(a)
    /\ Cardinality(entries) < MaxSources
    /\ IF sheet = "references" THEN Set(a, [NoWork EXCEPT !.pc = "number", !.what = asked + 1])
       ELSE \E u \in Address :
                Set(a, [NoWork EXCEPT !.what = asked + 1, !.at = u,
                            !.pc = IF Fetchable(u) THEN "dial" ELSE "create"])
    /\ UNCHANGED <<sheet, entries, reached>>

\* A name is looked up for the connection itself, and may answer with any
\* places whatever it was taken for; a number is not looked up.
LookUps(u) == IF u.form = "number" THEN {{u.place}} ELSE SUBSET Places

\* One answer inside refuses them all.
Connects(u, answers) == u.form = "number" \/ (answers # {} /\ "inside" \notin answers)

\* The page is read, or it is not one, or it does not come.
FetchEnds(a) ==
    /\ task[a].pc = "dial"
    /\ \E answers \in LookUps(task[a].at), read \in BOOLEAN :
           LET open == Connects(task[a].at, answers) IN
           /\ Set(a, [task[a] EXCEPT !.pc = "create", !.shown = open /\ read])
           /\ reached' = reached \cup IF open THEN answers ELSE {}
    /\ UNCHANGED <<sheet, entries, asked, crossing>>

\* Mutant: only the address that was typed is checked.
FollowFirst(a, u) == [task[a] EXCEPT !.at = u, !.hop = @ + 1]

\* Every hop is checked as the first one was.
Follow(a, u) ==
    IF task[a].hop = MaxRedirects \/ ~Fetchable(u) THEN [task[a] EXCEPT !.pc = "create"]
    ELSE [task[a] EXCEPT !.at = u, !.hop = @ + 1]

FetchRedirected(a) ==
    /\ task[a].pc = "dial"
    /\ \E answers \in LookUps(task[a].at) :
           /\ Connects(task[a].at, answers)
           /\ reached' = reached \cup answers
    /\ \E u \in Address : Set(a, Follow(a, u))
    /\ UNCHANGED <<sheet, entries, asked, crossing>>

LastPosition == IF entries = {} THEN 0 ELSE CHOOSE n \in {e.position : e \in entries} :
                    \A e \in entries : e.position <= n

ReadLastPosition(a) ==
    /\ task[a].pc = "number"
    /\ Set(a, [task[a] EXCEPT !.pc = "create", !.at = LastPosition + 1])
    /\ UNCHANGED <<sheet, entries, asked, crossing, reached>>

Create(a) ==
    /\ task[a].pc = "create"
    /\ entries' = entries \cup {[id |-> task[a].what, previewed |-> task[a].shown,
                                 position |-> IF sheet = "links" THEN 0 ELSE task[a].at]}
    /\ Set(a, NoWork)
    /\ UNCHANGED <<sheet, asked, crossing, reached>>

FindToRemove(a) ==
    /\ Begin(a)
    /\ \E e \in entries : Set(a, [NoWork EXCEPT !.pc = "remove", !.what = e.id, !.at = e.position])
    /\ UNCHANGED <<sheet, entries, reached>>

\* Mutant: a removal leaves its number out.
LeaveHole(e, n) == e

\* updateMany of the positions after the one that was read.
MoveUp(e, n) == IF sheet = "references" /\ e.position > n THEN [e EXCEPT !.position = @ - 1] ELSE e

\* A row another request removed first makes the transaction fail.
Remove(a) ==
    /\ task[a].pc = "remove"
    /\ entries' = IF \A e \in entries : e.id # task[a].what THEN entries
                  ELSE {MoveUp(e, task[a].at) : e \in {x \in entries : x.id # task[a].what}}
    /\ Set(a, NoWork)
    /\ UNCHANGED <<sheet, asked, crossing, reached>>

SourcesNext ==
    \E a \in Author :
        \/ Add(a) \/ FetchEnds(a) \/ FetchRedirected(a) \/ ReadLastPosition(a) \/ Create(a)
        \/ FindToRemove(a) \/ Remove(a)

SourcesSpec == SourcesInit /\ [][SourcesNext]_sourceVars

---------------------------------------------------------------------------
SourcesTypeOK ==
    /\ sheet \in {"links", "references"} /\ asked \in 0..SourceBound /\ reached \subseteq Places
    /\ \A e \in entries : e.id \in 1..SourceBound /\ e.position \in 0..SourceBound
    /\ \A a \in Author : task[a].hop \in 0..MaxRedirects

\* The references are 1, 2, 3, as readers see them.
NumberedInOrder ==
    sheet = "references" /\ ~crossing => {e.position : e \in entries} = 1..Cardinality(entries)

\* The limit holds, and requests that overlap pass it by at most one each.
FewSources ==
    /\ ~crossing => Cardinality(entries) <= MaxSources
    /\ Cardinality(entries) + 1 <= MaxSources + Cardinality(Author)

\* Whatever an address says, looks up to or redirects to, the server reads
\* only pages outside.
OnlyOutsideIsRead == "inside" \notin reached

\* The list of sources keeps its numbers and its limit through additions and
\* removals in any order, unless two were under way at once; the fetch that
\* an addition waits for goes nowhere it should not.
SourcesInOrder == NumberedInOrder /\ FewSources /\ OnlyOutsideIsRead
=============================================================================
