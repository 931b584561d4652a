---------------------------- MODULE Engagement ----------------------------
(***************************************************************************)
(* Likes, bookmarks, follows and reports: the buttons of one reader's open *)
(* pages (components/engagement/ToggleButton.tsx, CommentThread.tsx) and   *)
(* the actions that look for a row and then write                          *)
(* (components/engagement/actions.ts, reportComment).                      *)
(*                                                                         *)
(* A like and a bookmark have a unique key.  The key of a follow holds a   *)
(* NULL, which makes it none; a report has none either.                    *)
(***************************************************************************)
EXTENDS Naturals, FiniteSets

CONSTANTS
    Page,           \* pages the reader has open
    PressBound      \* bound of the model: presses of the buttons

ASSUME EngagementAssumption == PressBound \in Nat

VARIABLES
    kind,           \* the button this behaviour is about
    marks,          \* its rows for this reader and this target
    button,         \* by page, what the button shows and what its request is at
    presses,        \* counter of the bound, which numbers the rows too
    freshest,       \* history: the page that was answered, or loaded, last (not: refused)
    met,            \* history: two requests were under way at once
    ignored         \* history: a report was refused, and the page did not look

engagementVars == <<kind, marks, button, presses, freshest, met, ignored>>

Kinds == {"like", "follow", "report"}
AtRest == [shows |-> FALSE, before |-> FALSE, pc |-> "idle", found |-> 0, active |-> FALSE]

EngagementInit ==
    /\ kind \in Kinds
    /\ marks = {} /\ presses = 0 /\ met = FALSE /\ ignored = FALSE
    /\ button = [p \in Page |-> AtRest]
    /\ freshest \in Page

UnderWay == {p \in Page : button[p].pc # "idle"}
Change(p, b) == button' = [button EXCEPT ![p] = b]

\* A toggle shows its guess at once; a report waits.
PressButton(p) ==
    /\ button[p].pc = "idle" /\ presses < PressBound
    /\ kind = "report" => ~button[p].shows
    /\ presses' = presses + 1
    /\ Change(p, [button[p] EXCEPT !.pc = "find", !.before = button[p].shows,
                      !.shows = IF kind = "report" THEN @ ELSE ~@])
    /\ met' = (met \/ UnderWay # {})
    /\ UNCHANGED <<kind, marks, freshest, ignored>>

\* Mutant: the guess stands.
KeepGuess(b) == [b EXCEPT !.pc = "idle"]

\* A toggle is taken back; the report button does not look at its answer.
TakeBack(b) == [b EXCEPT !.pc = "idle", !.shows = IF kind = "report" THEN TRUE ELSE b.before]

\* Too fast, signed out, or the target is no longer there.
Refused(p) ==
    /\ button[p].pc = "find"
    /\ Change(p, TakeBack(button[p]))
    /\ ignored' = (ignored \/ kind = "report")
    /\ UNCHANGED <<kind, marks, presses, freshest, met>>

Find(p) ==
    /\ button[p].pc = "find"
    /\ \E id \in IF marks = {} THEN {0} ELSE marks :
           Change(p, [button[p] EXCEPT !.pc = "write", !.found = id])
    /\ UNCHANGED <<kind, marks, presses, freshest, met, ignored>>

\* A row that is gone cannot be deleted, one that its key forbids not created.
Impossible(b) ==
    IF b.found # 0 THEN kind # "report" /\ b.found \notin marks ELSE kind = "like" /\ marks # {}

NewMark == CHOOSE k \in 1..(PressBound + 1) : k \notin marks

Write(p) ==
    /\ button[p].pc = "write" /\ ~Impossible(button[p])
    /\ LET b == button[p] IN
       /\ marks' = IF b.found = 0 THEN marks \cup {NewMark}
                   ELSE IF kind = "report" THEN marks ELSE marks \ {b.found}
       /\ Change(p, [b EXCEPT !.pc = "answer", !.active = (b.found = 0 \/ kind = "report")])
    /\ UNCHANGED <<kind, presses, freshest, met, ignored>>

\* The action throws: the page shows its error until it is loaded again.
Throws(p) ==
    /\ button[p].pc = "write" /\ Impossible(button[p])
    /\ Change(p, [button[p] EXCEPT !.pc = "thrown"])
    /\ UNCHANGED <<kind, marks, presses, freshest, met, ignored>>

Answered(p) ==
    /\ button[p].pc = "answer"
    /\ Change(p, [button[p] EXCEPT !.pc = "idle", !.shows = button[p].active])
    /\ freshest' = p
    /\ UNCHANGED <<kind, marks, presses, met, ignored>>

\* A report is not remembered by the page.
Reload(p) ==
    /\ button[p].pc \in {"idle", "thrown"} /\ kind # "report"
    /\ button[p].pc = "idle" => button[p].shows # (marks # {})
    /\ Change(p, [AtRest EXCEPT !.shows = (marks # {})])
    /\ freshest' = p
    /\ UNCHANGED <<kind, marks, presses, met, ignored>>

EngagementNext ==
    \E p \in Page :
        \/ PressButton(p) \/ Refused(p) \/ Find(p) \/ Write(p) \/ Throws(p) \/ Answered(p) \/ Reload(p)

EngagementSpec == EngagementInit /\ [][EngagementNext]_engagementVars

---------------------------------------------------------------------------
EngagementTypeOK ==
    /\ kind \in Kinds /\ marks \subseteq 1..(PressBound + 1) /\ presses \in 0..PressBound
    /\ \A p \in Page : button[p].pc \in {"idle", "find", "write", "answer", "thrown"}

\* A reader counts once, and the page that was answered last shows what is
\* stored, whatever the other page did before: unless two requests met, or
\* a refused report was shown as made.
CountedOnce ==
    /\ kind = "like" \/ ~met => Cardinality(marks) <= 1
    /\ ~met /\ ~ignored /\ UnderWay = {} => button[freshest].shows = (marks # {})
=============================================================================
