------------------------------- MODULE Filing -------------------------------
(***************************************************************************)
(* Reporting something: photos go up one after the other as soon as they   *)
(* are picked, and the report names the ones on the page when it is sent.  *)
(* It may be sent while photos are still going up, the boxes stay open     *)
(* while it is under way, and its answer may be lost.                      *)
(***************************************************************************)
EXTENDS Naturals, FiniteSets, Sequences

CONSTANTS
    PhotoLimit,     \* photos of a report (8 in the code)
    PhotoBound,     \* photos stored in an instance
    ReportBound     \* reports sent in an instance

\* Photos are counted.
ASSUME FilingAssumption == PhotoLimit \in Nat /\ PhotoBound \in Nat

VARIABLES
    thumbs,         \* the photos on the page, by their Media row
    picked,         \* picked photos still to go up; the first is on its way
    noName,         \* the tick at "without my name"
    report,         \* the report under way
    receipt,        \* the reference on the page, 0 while there is the form
    shots,          \* Media rows of the reporter, in the order they went up
    issues,         \* Issue rows of the reporter
    presses,        \* history: what the page showed at each press
    heard,          \* history: references the person has seen
    unheard         \* history: reports filed whose answer was lost

filingVars == <<thumbs, picked, noName, report, receipt, shots, issues, presses, heard, unheard>>

NoReport == [at |-> "none", press |-> 0]
Photo == 1..PhotoBound
Files(set) == Cardinality(set)

FilingInit ==
    /\ thumbs = {} /\ picked = 0 /\ noName = FALSE /\ report = NoReport /\ receipt = 0
    /\ shots = 0 /\ issues = {} /\ presses = <<>> /\ heard = {} /\ unheard = {}

---------------------------------------------------------------------------
\* Mutant: the whole choice goes up.
PickAll(n) ==
    /\ receipt = 0 /\ picked = 0 /\ Files(thumbs) < PhotoLimit
    /\ picked' = n
    /\ UNCHANGED <<thumbs, noName, report, receipt, shots, issues, presses, heard, unheard>>

\* onPickFiles: the input is disabled during an upload, and takes as many of
\* the n files as there is room for now.
PickFiles(n) ==
    /\ receipt = 0 /\ picked = 0 /\ Files(thumbs) < PhotoLimit
    /\ picked' = IF Files(thumbs) + n > PhotoLimit THEN PhotoLimit - Files(thumbs) ELSE n
    /\ UNCHANGED <<thumbs, noName, report, receipt, shots, issues, presses, heard, unheard>>

\* The route stores a photo, and the page shows it.  Behind the receipt the
\* photos that are left go up all the same.
PhotoStored ==
    /\ picked > 0 /\ shots < PhotoBound
    /\ shots' = shots + 1 /\ thumbs' = thumbs \cup {shots'} /\ picked' = picked - 1
    /\ UNCHANGED <<noName, report, receipt, issues, presses, heard, unheard>>

\* A photo is refused, or its answer lost when it may be stored: the ones
\* behind it do not go up.
PhotoFails ==
    /\ picked > 0 /\ picked' = 0
    /\ shots' \in {shots, shots + 1} /\ shots' <= PhotoBound
    /\ UNCHANGED <<thumbs, noName, report, receipt, issues, presses, heard, unheard>>

\* The cross on a photo; its row stays.
StrikePhoto(p) ==
    /\ receipt = 0 /\ p \in thumbs /\ thumbs' = thumbs \ {p}
    /\ UNCHANGED <<picked, noName, report, receipt, shots, issues, presses, heard, unheard>>

TurnName ==
    /\ receipt = 0 /\ noName' = ~noName
    /\ UNCHANGED <<thumbs, picked, report, receipt, shots, issues, presses, heard, unheard>>

Sent == [media |-> thumbs, anonymous |-> noName]

\* Mutant: the button stays enabled while a report is under way.
SendAgain ==
    /\ receipt = 0 /\ Len(presses) < ReportBound
    /\ presses' = Append(presses, Sent) /\ report' = [at |-> "asked", press |-> Len(presses')]
    /\ UNCHANGED <<thumbs, picked, noName, receipt, shots, issues, heard, unheard>>

\* onSubmit sends the photos and the tick of the page as it is.
SendReport ==
    /\ receipt = 0 /\ report = NoReport /\ Len(presses) < ReportBound
    /\ presses' = Append(presses, Sent) /\ report' = [at |-> "asked", press |-> Len(presses')]
    /\ UNCHANGED <<thumbs, picked, noName, receipt, shots, issues, heard, unheard>>

\* Mutant: the photos and the tick are those of the page when it is filed.
FiledLate == [press |-> report.press, media |-> thumbs, anonymous |-> noName]

\* submitIssue: the photos named that are the reporter's own, and the tick.
Filed == [press |-> report.press, media |-> presses[report.press].media \cap 1..shots,
          anonymous |-> presses[report.press].anonymous]

\* submitIssueAction, or a refusal: of the limiter, of the session, or of the
\* schema, which takes no more photos than the limit.
FileReport ==
    /\ report.at = "asked"
    /\ \/ /\ Files(presses[report.press].media) <= PhotoLimit
          /\ issues' = issues \cup {Filed} /\ report' = [report EXCEPT !.at = "filed"]
       \/ report' = [report EXCEPT !.at = "refused"] /\ UNCHANGED issues
    /\ UNCHANGED <<thumbs, picked, noName, receipt, shots, presses, heard, unheard>>

\* The receipt takes the place of the form.
HearFiled ==
    /\ report.at = "filed" /\ receipt' = report.press /\ heard' = heard \cup {report.press}
    /\ report' = NoReport
    /\ UNCHANGED <<thumbs, picked, noName, shots, issues, presses, unheard>>

\* A refusal leaves every box as it is.
HearRefused ==
    /\ report.at = "refused" /\ report' = NoReport
    /\ UNCHANGED <<thumbs, picked, noName, receipt, shots, issues, presses, heard, unheard>>

\* A form without photos: the person opens it anew, or the call of a report
\* throws, after the report was filed or before, and the error screen takes
\* its place.  The photo on its way may be stored.
OpenReport ==
    /\ thumbs' = {} /\ picked' = 0 /\ noName' = FALSE /\ report' = NoReport /\ receipt' = 0
    /\ shots' \in {shots} \cup (IF picked > 0 /\ shots < PhotoBound THEN {shots + 1} ELSE {})
    /\ issues' \in {issues} \cup (IF report.at = "asked" THEN {issues \cup {Filed}} ELSE {})
    /\ unheard' = unheard \cup ({i.press : i \in issues'} \cap {report.press})
    /\ UNCHANGED <<presses, heard>>

FilingNext ==
    \/ \E n \in 1..(PhotoLimit + 1) : PickFiles(n)
    \/ \E p \in Photo : StrikePhoto(p)
    \/ PhotoStored \/ PhotoFails \/ TurnName \/ SendReport \/ FileReport \/ HearFiled \/ HearRefused \/ OpenReport

FilingSpec == FilingInit /\ [][FilingNext]_filingVars

---------------------------------------------------------------------------
FilingTypeOK ==
    /\ thumbs \subseteq 1..shots /\ shots \in 0..PhotoBound /\ picked \in 0..PhotoLimit
    /\ noName \in BOOLEAN /\ report.at \in {"none", "asked", "filed", "refused"}
    /\ {receipt, report.press} \cup heard \cup unheard \subseteq 0..Len(presses)
    /\ \A i \in issues : i.press \in DOMAIN presses

\* Whatever is picked, struck and picked again while photos go up, the page
\* never holds more of them than a report may have: none is refused for it.
PhotosFit == Files(thumbs) + picked <= PhotoLimit

\* The boxes stay open under a report and photos go on arriving: what is
\* filed is the photos and the choice of a name that the page showed at the
\* press, whole.  A photo that arrives later is not in it.
FiledAsShown ==
    \A i \in issues : [media |-> i.media, anonymous |-> i.anonymous] = presses[i.press]

\* Whoever filed a report has seen its reference, is about to, or lost the
\* answer: no press files a report behind the page that answers for another.
FiledIsHeard ==
    {i.press : i \in issues} =
        heard \cup unheard \cup (IF report.at = "filed" THEN {report.press} ELSE {})

FilingHolds == PhotosFit /\ FiledAsShown /\ FiledIsHeard
=============================================================================
