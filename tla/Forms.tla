------------------------------- MODULE Forms -------------------------------
(***************************************************************************)
(* The forms of the site that ask the server for one thing: boxes to fill, *)
(* a button, an answer.  Each is a component with a state of its own that  *)
(* outlives a refresh of its page; the answer to a call finds the boxes as *)
(* the person has left them by then, which is seldom as they were sent.    *)
(*                                                                         *)
(* A behaviour fills in one form.  What is in its boxes is a number: 0 for *)
(* what a blank form holds, and a new one whenever somebody writes.        *)
(***************************************************************************)
EXTENDS Naturals, FiniteSets

CONSTANTS
    TypeBound,      \* times the person types
    CallBound       \* calls the person makes

\* How often the person types is counted.
ASSUME FormsAssumption == TypeBound \in Nat

VARIABLES
    shape,          \* the form
    saved,          \* what the server has
    props,          \* what the page was rendered with
    drawn,          \* the form is on the page, and not only the button that opens it
    boxes,          \* what its boxes hold
    pending,        \* its button is disabled
    calls,          \* calls in flight: what was sent, the server's answer, and whether
                    \* the page still waits for it
    says,           \* the message beside the button
    slip,          \* what the page shows once and never again: 0, or what was made
    wrote,          \* times somebody has written so far
    draft,          \* history: what the person last wrote and has not given up, 0 if nothing
    accepted,       \* history: what the server has accepted
    stored,         \* history: what the server has had
    owed            \* history: what was made, was answered, and was not dismissed

formVars == <<shape, saved, props, drawn, boxes, pending, calls, says, slip, wrote,
              draft, accepted, stored, owed>>

(***************************************************************************)
(* starts: what the boxes hold at first - nothing, what the page was       *)
(* rendered with when it was mounted, or the same when it is opened.       *)
(* door: it is opened by a button.  cancel: what closing does to text and  *)
(* message - both are kept, gone, as rendered, or the message is kept and  *)
(* the text gone.  ok: what an accepted call does - the page is left, the  *)
(* form closes, its boxes are emptied, both, it stays as it is, all or but *)
(* for a password, or a slip takes its place, for good or until it is     *)
(* dismissed.  throws: what a call that is lost leaves - a button that     *)
(* waits, or the error page.                                               *)
(***************************************************************************)
Shape(starts, door, cancel, ok, throws) ==
    [starts |-> starts, door |-> door, cancel |-> cancel, ok |-> ok, throws |-> throws]

RegisterForm == Shape("blank", FALSE, "none", "leave", "wait")
ChangePasswordForm == Shape("blank", FALSE, "none", "leave", "wait")
DisableMfaForm == Shape("blank", FALSE, "none", "leave", "wait")
SignOutEverywhere == Shape("blank", TRUE, "keep", "leave", "break")
AccountPrivacy == Shape("blank", TRUE, "empty", "leave", "wait")
ProfileDetails == Shape("mounted", TRUE, "restore", "close", "wait")
CategoryRow == Shape("mounted", TRUE, "restore", "close", "wait")
RoleEditor == Shape("opened", TRUE, "empty", "close", "break")
QueueRow == Shape("blank", TRUE, "keep", "close", "break")
ContributionRow == Shape("blank", TRUE, "keep", "finish", "break")
CategoryForm == Shape("blank", FALSE, "none", "empty", "wait")
SettingsForm == Shape("mounted", FALSE, "none", "stay", "wait")
SupportSettingsForm == Shape("mounted", FALSE, "none", "stay", "break")
SmtpForm == Shape("mounted", FALSE, "none", "part", "break")
InviteUserForm == Shape("blank", TRUE, "empty", "show", "wait")
RecoveryCodesPanel == Shape("blank", TRUE, "drop", "show", "wait")
EnrollMfaFlow == Shape("blank", FALSE, "none", "show", "wait")
SupportForm == Shape("blank", FALSE, "none", "end", "break")

FormShapes == {RegisterForm, ChangePasswordForm, DisableMfaForm, SignOutEverywhere, AccountPrivacy,
               ProfileDetails, CategoryRow, RoleEditor, QueueRow, ContributionRow, CategoryForm,
               SettingsForm, SupportSettingsForm, SmtpForm, InviteUserForm, RecoveryCodesPanel,
               EnrollMfaFlow, SupportForm}

Quiet == [what |-> "nothing", of |-> 0]
Said(w, v) == [what |-> w, of |-> v]
Keeps == shape.starts # "blank"        \* it edits what is saved

---------------------------------------------------------------------------
\* The component is mounted on a page rendered now.
Mounted ==
    /\ props' = saved /\ boxes' = (IF shape.starts = "mounted" THEN saved ELSE 0)
    /\ drawn' = ~shape.door /\ pending' = FALSE /\ says' = Quiet /\ slip' = 0
    /\ draft' = 0 /\ owed' = {}
    /\ calls' = {[c EXCEPT !.heard = FALSE] : c \in {d \in calls : d.at = "asked"}}

FormsInit ==
    /\ shape \in FormShapes
    /\ saved = 0 /\ props = 0 /\ boxes = 0 /\ drawn = ~shape.door /\ pending = FALSE
    /\ calls = {} /\ says = Quiet /\ slip = 0 /\ wrote = 0
    /\ draft = 0 /\ accepted = {} /\ stored = {0} /\ owed = {}

FormShown == drawn /\ slip = 0 /\ says.what \notin {"left", "broken"}

\* The button that opens the form, or what it has made meanwhile.
OpenForm ==
    /\ ~drawn /\ (slip = 0 \/ shape = InviteUserForm)
    /\ says.what \notin {"left", "broken"}
    /\ drawn' = TRUE /\ says' = IF says.what = "done" THEN Quiet ELSE says
    /\ boxes' = IF shape.starts = "opened" THEN props ELSE boxes
    /\ draft' = IF shape.starts = "opened" THEN 0 ELSE draft
    /\ UNCHANGED <<shape, saved, props, pending, calls, slip, wrote, accepted, stored, owed>>

\* The person writes; the form of the bank details takes back its message.
TypeIn ==
    /\ FormShown /\ wrote < TypeBound
    /\ wrote' = wrote + 1 /\ boxes' = wrote' /\ draft' = wrote'
    /\ says' = IF shape = SupportSettingsForm THEN Quiet ELSE says
    /\ UNCHANGED <<shape, saved, props, drawn, pending, calls, slip, accepted, stored, owed>>

\* Cancel closes the form, and takes no call back.
CancelForm ==
    /\ FormShown /\ shape.door
    /\ drawn' = FALSE
    /\ boxes' = CASE shape.cancel \in {"empty", "drop"} -> 0 [] shape.cancel = "restore" -> props [] OTHER -> boxes
    /\ draft' = IF shape.cancel = "keep" THEN draft ELSE 0
    /\ says' = IF shape.cancel \in {"keep", "drop"} THEN says ELSE Quiet
    /\ UNCHANGED <<shape, saved, props, pending, calls, slip, wrote, accepted, stored, owed>>

\* A blank form has boxes that are required; the settings must have changed.
Filled == /\ boxes # 0 \/ Keeps \/ shape.cancel = "keep"
          /\ shape # SettingsForm \/ boxes # props

\* Mutant: the button works while a call is pending.
SubmitAgain ==
    /\ FormShown /\ Filled /\ Cardinality(accepted) < CallBound
    /\ calls' = calls \cup {[of |-> boxes, at |-> "asked", heard |-> TRUE]}
    /\ pending' = TRUE /\ says' = Quiet
    /\ UNCHANGED <<shape, saved, props, drawn, boxes, slip, wrote, draft, accepted, stored, owed>>

\* The button: what the boxes hold now is sent, and the message taken back.
Submit ==
    /\ FormShown /\ ~pending /\ Filled /\ Cardinality(accepted) < CallBound
    /\ calls' = calls \cup {[of |-> boxes, at |-> "asked", heard |-> TRUE]}
    /\ pending' = TRUE /\ says' = Quiet
    /\ UNCHANGED <<shape, saved, props, drawn, boxes, slip, wrote, draft, accepted, stored, owed>>

\* The server takes it or refuses.
Served(c) ==
    /\ c.at = "asked"
    /\ \/ /\ calls' = (calls \ {c}) \cup {x \in {[c EXCEPT !.at = "accepted"]} : x.heard}
          /\ accepted' = accepted \cup {c.of}
          /\ saved' = (IF Keeps THEN c.of ELSE saved) /\ stored' = stored \cup {saved'}
       \/ /\ calls' = (calls \ {c}) \cup {x \in {[c EXCEPT !.at = "refused"]} : x.heard}
          /\ UNCHANGED <<accepted, saved, stored>>
    /\ UNCHANGED <<shape, props, drawn, boxes, pending, says, slip, wrote, draft, owed>>

\* Mutant: the message is put together from the boxes as they are by then.
NamesTheBoxes(c) ==
    /\ c.at = "accepted" /\ calls' = calls \ {c}
    /\ pending' = FALSE /\ boxes' = 0 /\ says' = Said("done", boxes) /\ draft' = 0
    /\ UNCHANGED <<shape, saved, props, drawn, slip, wrote, accepted, stored, owed>>

\* The answer to an accepted call.
AnswerOk(c) ==
    /\ c.at = "accepted" /\ calls' = calls \ {c}
    /\ pending' = (shape.ok = "leave" /\ pending)
    /\ drawn' = (drawn /\ shape.ok \notin {"close", "finish"} /\ shape # RecoveryCodesPanel)
    /\ boxes' = IF shape.ok \in {"empty", "finish"} THEN 0 ELSE boxes
    /\ says' = Said(IF shape.ok = "leave" THEN "left" ELSE "done", c.of)
    /\ slip' = IF shape.ok \in {"show", "end"} THEN c.of + 1 ELSE slip
    /\ owed' = IF shape.ok \in {"show", "end"} THEN owed \cup {c.of + 1} ELSE owed
    /\ draft' = IF shape.ok \in {"stay", "part"} /\ boxes # c.of THEN draft ELSE 0
    /\ UNCHANGED <<shape, saved, props, wrote, accepted, stored>>

\* Mutant: a refused form starts again.
EmptyAnyway(c) ==
    /\ c.at = "refused" /\ calls' = calls \ {c}
    /\ pending' = FALSE /\ says' = Said("error", c.of) /\ boxes' = 0
    /\ UNCHANGED <<shape, saved, props, drawn, slip, wrote, draft, accepted, stored, owed>>

\* The answer to a refused one.
AnswerNo(c) ==
    /\ c.at = "refused" /\ calls' = calls \ {c}
    /\ pending' = FALSE /\ says' = Said("error", c.of)
    /\ UNCHANGED <<shape, saved, props, drawn, boxes, slip, wrote, draft, accepted, stored, owed>>

\* The call or its answer is lost, and the call throws.
Thrown(c) ==
    /\ c.heard /\ calls' = calls \ {c}
    /\ IF shape.throws = "break" THEN pending' = FALSE /\ says' = Said("broken", c.of) ELSE UNCHANGED <<pending, says>>
    /\ UNCHANGED <<shape, saved, props, drawn, boxes, slip, wrote, draft, accepted, stored, owed>>

\* "I've saved them" renders the page anew; "Done" closes the form and "Add
\* another" starts it again.
Dismiss ==
    /\ slip # 0 /\ shape.ok = "show" /\ (drawn \/ shape # InviteUserForm)
    /\ slip' = 0 /\ owed' = owed \ {slip} /\ boxes' = 0 /\ draft' = 0
    /\ says' = IF shape = EnrollMfaFlow THEN Said("left", says.of) ELSE Quiet
    /\ drawn' \in {~shape.door, shape = InviteUserForm}
    /\ UNCHANGED <<shape, saved, props, pending, calls, wrote, accepted, stored>>

\* The page's data arrives anew, after a save or because something else on the
\* page asked for it; the component keeps its state.
RefreshProps ==
    /\ props # saved /\ props' = saved
    /\ UNCHANGED <<shape, saved, drawn, boxes, pending, calls, says, slip, wrote, draft, accepted, stored, owed>>

\* Somebody else saves the same thing.
OtherSaves ==
    /\ Keeps /\ wrote < TypeBound
    /\ wrote' = wrote + 1 /\ saved' = wrote' /\ stored' = stored \cup {saved'}
    /\ UNCHANGED <<shape, props, drawn, boxes, pending, calls, says, slip, draft, accepted, owed>>

\* The page is loaded anew: nobody waits for the calls any more.
ReloadForm ==
    /\ Mounted /\ UNCHANGED <<shape, saved, wrote, accepted, stored>>

FormsNext ==
    \/ OpenForm \/ TypeIn \/ CancelForm \/ Submit \/ Dismiss \/ RefreshProps \/ OtherSaves \/ ReloadForm
    \/ \E c \in calls : Served(c) \/ AnswerOk(c) \/ AnswerNo(c) \/ Thrown(c)

FormsSpec == FormsInit /\ [][FormsNext]_formVars

---------------------------------------------------------------------------
FormsTypeOK ==
    /\ shape \in FormShapes /\ {saved, props, boxes, draft, wrote} \subseteq 0..TypeBound
    /\ {drawn, pending} \subseteq BOOLEAN
    /\ \A c \in calls : c.of \in 0..TypeBound /\ c.heard \in BOOLEAN /\ c.at \in {"asked", "accepted", "refused"}
    /\ says.what \in {"nothing", "done", "error", "left", "broken"} /\ says.of \in 0..TypeBound
    /\ accepted \subseteq 0..TypeBound /\ stored \subseteq 0..TypeBound
    /\ slip \in 0..(TypeBound + 1) /\ owed \subseteq 0..(TypeBound + 1)

\* What the page says was done is something the server did, though the boxes
\* may hold other text by then; and a person is not told of two calls by one
\* message, because there is one at a time.
SaysWhatWasDone ==
    /\ says.what \in {"done", "left"} => says.of \in accepted
    /\ Cardinality({c \in calls : c.heard}) <= 1

\* The sheets that are shown once - a temporary password, recovery codes, a
\* payment reference - stay on the page until the person dismisses them, also
\* when the form was closed before the answer came: the server can't show
\* them again.
SheetsStay == owed \subseteq {slip}

\* A refusal leaves in the boxes what the person wrote.
RefusedTextStays == says.what = "error" /\ drawn /\ draft # 0 => boxes = draft

FormsHold == SaysWhatWasDone /\ SheetsStay /\ RefusedTextStays
=============================================================================
