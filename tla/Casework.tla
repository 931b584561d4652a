------------------------------ MODULE Casework ------------------------------
(***************************************************************************)
(* The queue in which reports are checked, and the pages that show them.   *)
(* A desk is the queue as it was rendered: its buttons follow the status   *)
(* it shows, while others move the same reports from desks of their own    *)
(* and an administrator changes who may do what.  The overlap of two moves *)
(* on the server is the matter of Issues; here a move is one step.         *)
(***************************************************************************)
EXTENDS Naturals, FiniteSets, Sequences

CONSTANTS
    Case,           \* reports
    PressedBound,   \* buttons pressed at the desk
    ChangeBound     \* changes elsewhere, of reports and of the role

\* Buttons and changes are counted.
ASSUME CaseworkAssumption == PressedBound \in Nat /\ ChangeBound \in Nat

VARIABLES
    caseRow,        \* Issue rows
    grants,         \* permissions of the person at the desk
    board,          \* the page of that person: open or not, the status of each row it shows,
                    \* the question a row asks, and whether it waits for an answer
    boardCalls,     \* calls of the page, run one after the other
    pressed,        \* buttons pressed so far
    changes,        \* changes elsewhere so far
    cards,          \* history: cards the public lists have shown
    raised,         \* history: reports published, and how
    elsewhere       \* history: reports that changed elsewhere since the page was rendered

caseVars == <<caseRow, grants, board, boardCalls, pressed, changes, cards, raised, elsewhere>>

Life == INSTANCE IssueLifecycle WITH Issue <- Case, stage <- [c \in Case |-> caseRow[c].status]

Moves == [claim |-> "UNDER_REVIEW", release |-> "SUBMITTED", verify |-> "VERIFIED",
          publish |-> "PUBLISHED", reject |-> "REJECTED", resolve |-> "RESOLVED"]
Needs == [claim |-> "verify", release |-> "verify", verify |-> "verify",
          publish |-> "publish", reject |-> "verify", resolve |-> "resolve"]
Questions == {"publish", "reject", "resolve"}

\* listQueue: what is neither public nor turned down.
Queued == {c \in Case : caseRow[c].status \in {"SUBMITTED", "UNDER_REVIEW", "VERIFIED"}}
Rows == [c \in Case |-> IF c \in Queued THEN caseRow[c].status ELSE "NONE"]

\* Mutant: publishing is offered whatever the status.
OfferPublishing(status, can) ==
    {m \in DOMAIN Moves : m = "publish" /\ Needs[m] \in can}

\* QueueRow: the buttons of a row.  No row shows a published report, so none
\* of them leads to the resolution of one.
Offered(status, can) ==
    CASE status = "NONE" -> {}
      [] status = "SUBMITTED" -> {"claim", "reject"}
      [] status = "UNDER_REVIEW" -> {"verify", "release", "reject"}
      [] status = "VERIFIED" -> {"reject"} \cup ({"publish"} \cap can)
      [] status = "PUBLISHED" -> {"resolve"} \cap can

NoDesk == [open |-> FALSE, rows |-> [c \in Case |-> "NONE"], can |-> {},
           asks |-> [c \in Case |-> "nothing"], waits |-> [c \in Case |-> FALSE]]

\* Some reports have been filed and checked before.
CaseworkInit ==
    /\ caseRow \in [Case -> {[status |-> "NONE", anonymous |-> FALSE]} \cup
                           [status : {"VERIFIED"}, anonymous : BOOLEAN]]
    /\ grants = {"verify", "publish", "resolve"} /\ board = NoDesk /\ boardCalls = <<>> /\ pressed = 0
    /\ changes = 0 /\ cards = {} /\ raised = {} /\ elsewhere = {}

---------------------------------------------------------------------------
(* Elsewhere                                                               *)

OneChange == changes < ChangeBound /\ changes' = changes + 1

\* A member files a report.
FileCase(c) ==
    /\ caseRow[c].status = "NONE"
    /\ \E a \in BOOLEAN : caseRow' = [caseRow EXCEPT ![c] = [status |-> "SUBMITTED", anonymous |-> a]]
    /\ elsewhere' = elsewhere \cup {c}
    /\ UNCHANGED <<grants, board, boardCalls, pressed, cards, raised>> /\ OneChange

\* Somebody else moves it on, from a desk or with the action itself.
MoveElsewhere(c) ==
    /\ \E to \in Life!Statuses :
          /\ Life!CanTransition(caseRow[c].status, to)
          /\ caseRow' = [caseRow EXCEPT ![c].status = to]
    /\ elsewhere' = elsewhere \cup {c}
    /\ UNCHANGED <<grants, board, boardCalls, pressed, cards, raised>> /\ OneChange

\* The role of the person at the desk is edited.
SetGrants(g) ==
    /\ g # grants /\ grants' = g
    /\ UNCHANGED <<caseRow, board, boardCalls, pressed, cards, raised, elsewhere>> /\ OneChange

\* publicReporter: the byline for anybody who is not at a desk.
Byline(c) == IF caseRow[c].anonymous THEN "anonymous" ELSE "named"

\* canView.
Opens(viewer, c) ==
    \/ caseRow[c].status \in Life!PublicStatuses
    \/ caseRow[c].status # "NONE" /\ viewer \in {"reporter", "verifier"}

\* The page of a report, not found for whoever may not see it.  Search
\* engines are told what it is about when anybody may.
ReportPage(viewer, c) ==
    [opens |-> Opens(viewer, c), by |-> Byline(c), described |-> Opens("stranger", c)]

CardOf(c) == [case |-> c, by |-> Byline(c)]

\* Mutant: the list leaves out only what was turned down.
ListUnchecked == {c \in Case : caseRow[c].status \notin {"NONE", "REJECTED"}}

\* listPublishedIssues takes no status.
Listed == {c \in Case : caseRow[c].status \in Life!PublicStatuses}

\* A list is rendered: all reports, those of a district, of a section, or the
\* last few of the front page.
ShowList ==
    /\ cards' = cards \cup {CardOf(c) : c \in Listed}
    /\ UNCHANGED <<caseRow, grants, board, boardCalls, pressed, raised, elsewhere, changes>>

---------------------------------------------------------------------------
(* At the desk                                                             *)

\* A row whose status has changed moves to another section, and is a new one.
Rendered(asks, waits) ==
    LET same(c) == board.rows[c] = Rows[c] IN
    [open |-> TRUE, rows |-> Rows, can |-> grants,
     asks |-> [c \in Case |-> IF same(c) THEN asks[c] ELSE "nothing"],
     waits |-> [c \in Case |-> same(c) /\ waits[c]]]

OpenDesk ==
    /\ boardCalls = <<>> /\ "verify" \in grants
    /\ board' = [Rendered(NoDesk.asks, NoDesk.waits) EXCEPT !.asks = NoDesk.asks]
    /\ elsewhere' = {}
    /\ UNCHANGED <<caseRow, grants, boardCalls, pressed, cards, raised, changes>>

LeaveDesk ==
    /\ board.open /\ boardCalls = <<>> /\ board' = NoDesk
    /\ UNCHANGED <<caseRow, grants, boardCalls, pressed, cards, raised, elsewhere, changes>>

Call(c, m) ==
    /\ pressed < PressedBound /\ pressed' = pressed + 1
    /\ boardCalls' = Append(boardCalls, [case |-> c, move |-> m, shown |-> board.rows[c], at |-> "asked"])
    /\ board' = [board EXCEPT !.waits[c] = TRUE]
    /\ UNCHANGED <<caseRow, grants, cards, raised, elsewhere, changes>>

\* A button that acts at once.
PressMove(c, m) ==
    /\ board.open /\ ~board.waits[c] /\ m \in Offered(board.rows[c], board.can) \ Questions
    /\ Call(c, m)

\* A button that asks first; publishing, because it cannot be taken back.
AskFirst(c, m) ==
    /\ board.open /\ ~board.waits[c] /\ m \in Offered(board.rows[c], board.can) \cap Questions
    /\ board' = [board EXCEPT !.asks[c] = m]
    /\ UNCHANGED <<caseRow, grants, boardCalls, pressed, cards, raised, elsewhere, changes>>

CancelAsked(c) ==
    /\ board.asks[c] # "nothing" /\ board' = [board EXCEPT !.asks[c] = "nothing"]
    /\ UNCHANGED <<caseRow, grants, boardCalls, pressed, cards, raised, elsewhere, changes>>

AnswerAsked(c) ==
    /\ board.open /\ ~board.waits[c] /\ board.asks[c] # "nothing"
    /\ Call(c, board.asks[c])

\* Mutant: whoever sees the button may press it.
AllowedByThePage(k) == Life!CanTransition(caseRow[k.case].status, Moves[k.move])

\* requirePermission, by now; and transitionIssue, from the status by now.
Allowed(k) ==
    /\ Needs[k.move] \in grants
    /\ Life!CanTransition(caseRow[k.case].status, Moves[k.move])

\* run: the move is made, or refused; a note is refused when it is empty.
DeskServed ==
    /\ boardCalls # <<>> /\ Head(boardCalls).at = "asked"
    /\ LET k == Head(boardCalls) IN
       \/ /\ Allowed(k)
          /\ caseRow' = [caseRow EXCEPT ![k.case].status = Moves[k.move]]
          /\ raised' = IF k.move = "publish"
                       THEN raised \cup {[shown |-> k.shown, was |-> caseRow[k.case].status, by |-> grants]}
                       ELSE raised
          /\ boardCalls' = [boardCalls EXCEPT ![1].at = "done"]
       \/ /\ ~Allowed(k) \/ k.move \in {"reject", "resolve"}
          /\ boardCalls' = [boardCalls EXCEPT ![1].at = "refused"]
          /\ UNCHANGED <<caseRow, raised>>
    /\ UNCHANGED <<grants, board, pressed, cards, elsewhere, changes>>

\* Mutant: the page is not revalidated.
HearDoneOnly ==
    /\ boardCalls # <<>> /\ Head(boardCalls).at = "done"
    /\ board' = [board EXCEPT !.asks[Head(boardCalls).case] = "nothing", !.waits[Head(boardCalls).case] = FALSE]
    /\ boardCalls' = Tail(boardCalls) /\ elsewhere' = {}
    /\ UNCHANGED <<caseRow, grants, pressed, cards, raised, changes>>

\* The answer brings the queue as it is by then; a person who has lost the
\* permission is sent away.
HearDone ==
    /\ boardCalls # <<>> /\ Head(boardCalls).at = "done"
    /\ LET c == Head(boardCalls).case IN
       board' = IF "verify" \in grants
               THEN Rendered([board.asks EXCEPT ![c] = "nothing"], [board.waits EXCEPT ![c] = FALSE])
               ELSE NoDesk
    /\ boardCalls' = (IF "verify" \in grants THEN Tail(boardCalls) ELSE <<>>) /\ elsewhere' = {}
    /\ UNCHANGED <<caseRow, grants, pressed, cards, raised, changes>>

\* A refusal is shown beside the row, which stays as it was rendered.
HearNo ==
    /\ boardCalls # <<>> /\ Head(boardCalls).at = "refused"
    /\ board' = [board EXCEPT !.waits[Head(boardCalls).case] = FALSE]
    /\ boardCalls' = Tail(boardCalls)
    /\ UNCHANGED <<caseRow, grants, pressed, cards, raised, elsewhere, changes>>

\* The call throws: the error screen.
DeskLost ==
    /\ boardCalls # <<>> /\ boardCalls' = <<>> /\ board' = NoDesk
    /\ UNCHANGED <<caseRow, grants, pressed, cards, raised, elsewhere, changes>>

CaseworkNext ==
    \/ \E c \in Case : FileCase(c) \/ MoveElsewhere(c) \/ CancelAsked(c) \/ AnswerAsked(c)
    \/ \E c \in Case, m \in DOMAIN Moves : PressMove(c, m) \/ AskFirst(c, m)
    \/ \E g \in SUBSET {"verify", "publish"} : SetGrants(g)
    \/ ShowList \/ OpenDesk \/ LeaveDesk \/ DeskServed \/ HearDone \/ HearNo \/ DeskLost

CaseworkSpec == CaseworkInit /\ [][CaseworkNext]_caseVars

---------------------------------------------------------------------------
CaseworkTypeOK ==
    /\ \A c \in Case : /\ caseRow[c].status \in Life!Statuses \cup {"NONE"} /\ caseRow[c].anonymous \in BOOLEAN
                       /\ board.rows[c] \in {"NONE", "SUBMITTED", "UNDER_REVIEW", "VERIFIED"}
                       /\ board.asks[c] \in Questions \cup {"nothing"}
    /\ \A i \in DOMAIN boardCalls : boardCalls[i].at \in {"asked", "done", "refused"}
    /\ pressed \in 0..PressedBound /\ changes \in 0..ChangeBound /\ elsewhere \subseteq Case

\* Whoever has seen a card of a report finds the report behind it, signed as
\* the card was, for as long as reports are moved one move at a time.
CardsLeadToReports ==
    \A k \in cards : ReportPage("stranger", k.case) = [opens |-> TRUE, by |-> k.by, described |-> TRUE]

\* A desk publishes a report that it showed as checked, that is checked by
\* then, and for a person who may publish by then - however old the page is.
\* The question is only ever asked of a row that may be published.
PublishedAsShown ==
    /\ \A r \in raised : r.shown = "VERIFIED" /\ r.was = "VERIFIED" /\ "publish" \in r.by
    /\ \A c \in Case : board.asks[c] = "publish" => board.rows[c] = "VERIFIED"

\* Once it has heard of its calls, a desk shows every report there is to
\* decide with the status it has, but for what others did meanwhile.
DeskIsCurrent ==
    board.open =>
        \A c \in Case \ elsewhere :
            (\A i \in DOMAIN boardCalls : boardCalls[i].case # c) => board.rows[c] = Rows[c]

CaseworkHolds == CardsLeadToReports /\ PublishedAsShown /\ DeskIsCurrent
=============================================================================
