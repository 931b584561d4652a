------------------------------ MODULE Credits ------------------------------
(***************************************************************************)
(* The credit and the licence of a file: asked for by a dialog when the    *)
(* file has been uploaded and again from its figure, kept on the Media     *)
(* row, and copied as a line under the figure.  The editor has one dialog; *)
(* an upload that finishes puts its own in the place of whatever is open,  *)
(* and Escape closes one whose save is under way.  The calls of a page run *)
(* one after the other, and their answers go to the dialog that asked.     *)
(***************************************************************************)
EXTENDS Naturals, FiniteSets, Sequences

CONSTANTS
    Clip,           \* files
    Used,           \* the licences people choose from in an instance
    TermsBound,     \* saves of terms, by whomever
    Nothing         \* no row, figure, dialog or file

VARIABLES
    mediaRow,       \* the terms on each Media row, or Nothing before the upload
    figure,         \* the line under each file's figure, or Nothing
    dialog,         \* the open dialog, or Nothing
    uploading,      \* the file being uploaded, or Nothing
    saving,         \* saves under way, in order
    terms,          \* history: complete terms each row has had
    granted,        \* history: saves so far
    astray          \* history: files changed by others, or whose answer was lost

creditVars == <<mediaRow, figure, dialog, uploading, saving, terms, granted, astray>>

\* The licences, by what they ask for and allow: five kinds of the eleven.
Licence == [OWN_WORK      |-> [credit |-> FALSE, note |-> FALSE, download |-> FALSE],
            PERMISSION    |-> [credit |-> TRUE,  note |-> TRUE,  download |-> FALSE],
            CC0           |-> [credit |-> FALSE, note |-> FALSE, download |-> TRUE],
            CC_BY         |-> [credit |-> TRUE,  note |-> FALSE, download |-> TRUE],
            PUBLIC_DOMAIN |-> [credit |-> FALSE, note |-> TRUE,  download |-> TRUE]]

NoTerms == [licence |-> "none", credit |-> FALSE, note |-> FALSE, confirmed |-> FALSE]
Terms == [licence : Used \cup {"none"}, credit : BOOLEAN, note : BOOLEAN, confirmed : BOOLEAN]

\* What stands for nothing is neither a file nor the terms of one.
ASSUME CreditsAssumption == TermsBound \in Nat /\ Nothing \notin Clip /\ Nothing \notin Terms

\* rightsProblem: what keeps a file from being published.
HasRightsProblem(t) ==
    \/ t.licence = "none"
    \/ Licence[t.licence].credit /\ ~t.credit
    \/ Licence[t.licence].note /\ ~t.note
    \/ ~t.confirmed

\* creditLine: the licence unless all rights are reserved, and the names.
CreditLine(t) == [licence |-> IF t.licence \in {"none", "OWN_WORK"} THEN "none" ELSE t.licence,
                  named |-> t.credit]

\* The credits at the end of the story are read from the row.
Credited(f) == [line |-> CreditLine(mediaRow[f]),
                download |-> mediaRow[f].licence # "none" /\ Licence[mediaRow[f].licence].download]

CreditsInit ==
    /\ mediaRow = [f \in Clip |-> Nothing] /\ figure = [f \in Clip |-> Nothing]
    /\ dialog = Nothing /\ uploading = Nothing /\ saving = <<>>
    /\ terms = [f \in Clip |-> {}] /\ granted = 0 /\ astray = {}

---------------------------------------------------------------------------
Dialog(mode, f) == [mode |-> mode, file |-> f, loading |-> TRUE, pending |-> 0, boxes |-> NoTerms]

\* pick and upload: the toolbar is out of reach behind a dialog, and its
\* buttons are disabled during an upload.
StartUpload(f) ==
    /\ dialog = Nothing /\ uploading = Nothing /\ mediaRow[f] = Nothing
    /\ uploading' = f
    /\ UNCHANGED <<mediaRow, figure, dialog, saving, terms, granted, astray>>

\* The upload is done: its dialog opens over any other.
UploadDone ==
    /\ uploading # Nothing /\ uploading' = Nothing
    /\ \/ /\ mediaRow' = [mediaRow EXCEPT ![uploading] = NoTerms] /\ dialog' = Dialog("insert", uploading)
       \/ UNCHANGED <<mediaRow, dialog>>
    /\ UNCHANGED <<figure, saving, terms, granted, astray>>

\* "Details" on a figure.
EditFigure(f) ==
    /\ dialog = Nothing /\ figure[f] # Nothing
    /\ dialog' = Dialog("edit", f)
    /\ UNCHANGED <<mediaRow, figure, uploading, saving, terms, granted, astray>>

\* getMediaDetails fills the boxes; before that there are none to write in.
Prefill ==
    /\ dialog # Nothing /\ dialog.loading /\ saving = <<>>
    /\ dialog' = [dialog EXCEPT !.loading = FALSE, !.boxes = mediaRow[dialog.file]]
    /\ UNCHANGED <<mediaRow, figure, uploading, saving, terms, granted, astray>>

\* The person fills in the boxes.
FillIn(t) ==
    /\ dialog # Nothing /\ ~dialog.loading /\ granted < TermsBound
    /\ dialog' = [dialog EXCEPT !.boxes = t]
    /\ UNCHANGED <<mediaRow, figure, uploading, saving, terms, granted, astray>>

\* Mutant: the dialog does not insist on a note.
CompleteWithoutNote(t) ==
    t.licence # "none" /\ (Licence[t.licence].credit => t.credit) /\ t.confirmed

\* The dialog's own idea of what is complete; it asks for an alt text, too.
Complete(t) ==
    /\ t.licence # "none"
    /\ Licence[t.licence].credit => t.credit
    /\ Licence[t.licence].note => t.note
    /\ t.confirmed

\* "Save details".
SaveDetails ==
    /\ dialog # Nothing /\ ~dialog.loading /\ dialog.pending = 0 /\ Complete(dialog.boxes)
    /\ granted < TermsBound /\ granted' = granted + 1
    /\ saving' = Append(saving, [mode |-> dialog.mode, file |-> dialog.file, terms |-> dialog.boxes,
                                no |-> granted', at |-> "asked"])
    /\ dialog' = [dialog EXCEPT !.pending = granted']
    /\ UNCHANGED <<mediaRow, figure, uploading, terms, astray>>

\* Cancel waits for a save; Escape does not.
CloseDialog ==
    /\ dialog # Nothing /\ dialog' = Nothing
    /\ UNCHANGED <<mediaRow, figure, uploading, saving, terms, granted, astray>>

Kept(f, t) == /\ mediaRow' = [mediaRow EXCEPT ![f] = t]
              /\ terms' = [terms EXCEPT ![f] = @ \cup {t}]

\* setMediaRights writes what it was sent, or refuses.
RightsServed ==
    /\ saving # <<>> /\ Head(saving).at = "asked"
    /\ \/ Kept(Head(saving).file, Head(saving).terms) /\ saving' = [saving EXCEPT ![1].at = "kept"]
       \/ saving' = [saving EXCEPT ![1].at = "refused"] /\ UNCHANGED <<mediaRow, terms>>
    /\ UNCHANGED <<figure, dialog, uploading, granted, astray>>

\* Mutant: the answer goes to the dialog that is open.
FinishOpenDialog ==
    /\ saving # <<>> /\ Head(saving).at = "kept" /\ dialog # Nothing
    /\ figure' = [figure EXCEPT ![dialog.file] = CreditLine(Head(saving).terms)]
    /\ saving' = Tail(saving) /\ dialog' = Nothing
    /\ UNCHANGED <<mediaRow, uploading, terms, granted, astray>>

\* Mutant: the answer is dropped if its dialog has been closed.
FinishUnlessClosed ==
    /\ saving # <<>> /\ Head(saving).at = "kept"
    /\ figure' = IF dialog # Nothing THEN [figure EXCEPT ![Head(saving).file] = CreditLine(Head(saving).terms)]
                 ELSE figure
    /\ saving' = Tail(saving) /\ dialog' = Nothing
    /\ UNCHANGED <<mediaRow, uploading, terms, granted, astray>>

\* finishDialog, as it was when the save was pressed: the figure goes in, or
\* gets its new line, and the dialog that is open now, if any, is closed.
FinishDialog ==
    /\ saving # <<>> /\ Head(saving).at = "kept"
    /\ figure' = IF Head(saving).mode = "insert" \/ figure[Head(saving).file] # Nothing
                 THEN [figure EXCEPT ![Head(saving).file] = CreditLine(Head(saving).terms)] ELSE figure
    /\ saving' = Tail(saving) /\ dialog' = Nothing
    /\ UNCHANGED <<mediaRow, uploading, terms, granted, astray>>

OwnDialog == dialog # Nothing /\ saving # <<>> /\ dialog.pending = Head(saving).no

\* A refusal is shown by the dialog that asked, if it is still there.
RefuseDetails ==
    /\ saving # <<>> /\ Head(saving).at = "refused"
    /\ saving' = Tail(saving)
    /\ dialog' = IF OwnDialog THEN [dialog EXCEPT !.pending = 0] ELSE dialog
    /\ UNCHANGED <<mediaRow, figure, uploading, terms, granted, astray>>

\* The call throws inside its transition: the page turns to its error screen.
\* The story is opened again with what was saved of it.
SaveLost ==
    /\ saving # <<>> /\ astray' = astray \cup {saving[i].file : i \in DOMAIN saving}
    /\ saving' = <<>> /\ dialog' = Nothing /\ uploading' = Nothing
    /\ UNCHANGED <<mediaRow, figure, terms, granted>>

\* The trash button of a figure.
RemoveFigure(f) ==
    /\ dialog = Nothing /\ figure[f] # Nothing
    /\ figure' = [figure EXCEPT ![f] = Nothing]
    /\ UNCHANGED <<mediaRow, dialog, uploading, saving, terms, granted, astray>>

\* The uploader or an admin saves other terms from another desk.
OtherRights(f, t) ==
    /\ mediaRow[f] # Nothing /\ Complete(t) /\ granted < TermsBound /\ granted' = granted + 1
    /\ Kept(f, t) /\ astray' = astray \cup {f}
    /\ UNCHANGED <<figure, dialog, uploading, saving>>

CreditsNext ==
    \/ \E f \in Clip : StartUpload(f) \/ EditFigure(f) \/ RemoveFigure(f)
    \/ UploadDone \/ Prefill \/ SaveDetails \/ CloseDialog \/ RightsServed \/ FinishDialog \/ RefuseDetails \/ SaveLost
    \/ \E t \in Terms : FillIn(t) \/ \E f \in Clip : OtherRights(f, t)

CreditsSpec == CreditsInit /\ [][CreditsNext]_creditVars

---------------------------------------------------------------------------
CreditsTypeOK ==
    /\ \A f \in Clip : /\ mediaRow[f] = Nothing \/ mediaRow[f] \in Terms
                       /\ terms[f] \subseteq Terms
                       /\ figure[f] = Nothing \/ figure[f] \in {CreditLine(t) : t \in Terms}
    /\ dialog = Nothing \/ (dialog.file \in Clip /\ dialog.boxes \in Terms)
    /\ uploading \in Clip \cup {Nothing} /\ granted \in 0..TermsBound /\ astray \subseteq Clip

\* Nothing goes into the story before its terms are kept: the line under a
\* figure is one its own file has had, whichever dialogs opened and closed
\* meanwhile.
LineIsOfItsFile == \A f \in Clip : figure[f] # Nothing => \E t \in terms[f] : CreditLine(t) = figure[f]

\* What the dialog lets through is what the publish gate asks for.
SavedIsPublishable == \A f \in Clip : \A t \in terms[f] : ~HasRightsProblem(t)

\* The line under the figure is what the credits of the story say, once no
\* save is under way, unless somebody else changed the terms.
LineIsCredited ==
    \A f \in Clip \ astray :
        figure[f] # Nothing /\ (\A i \in DOMAIN saving : saving[i].file # f) => figure[f] = Credited(f).line

CreditsHold == LineIsOfItsFile /\ SavedIsPublishable /\ LineIsCredited
=============================================================================
