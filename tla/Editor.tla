------------------------------- MODULE Editor -------------------------------
(***************************************************************************)
(* The article form in the editor's browser: what is typed, the saves it   *)
(* makes by itself and on request, and the articles they leave on the      *)
(* server (dashboard/articles/ArticleForm.tsx).                            *)
(*                                                                         *)
(* A save keeps the article number of the rendering that began it, even    *)
(* when it first waits for the save before it.  The browser sends requests *)
(* one after another; an answer may be a refusal, or never come.           *)
(***************************************************************************)
EXTENDS Naturals, Sequences, FiniteSets

CONSTANTS
    TextBound,      \* bound of the model: changes made on the screen
    SaveBound       \* bound of the model: saves begun

ASSUME EditorAssumption == TextBound \in Nat /\ SaveBound \in Nat \ {0}

VARIABLES
    form,           \* the form's own state
    saves,          \* the calls of persist, in the order they began
    inFlight,       \* the save that the next one waits for, or 0
    rows,           \* Article rows of this form, in the order they were created
    slipped,        \* history: changes were made while a save was on its way
    overtaken       \* history: a save began, or was lost, while one was creating the article

editorVars == <<form, saves, inFlight, rows, slipped, overtaken>>

Buttons == {"submit", "publish", "preview"}
Form == [text : 0..TextBound, dirty : BOOLEAN, armed : BOOLEAN, articleId : 0..SaveBound,
         pending : Buttons \cup {"none"}, open : BOOLEAN]
Save == [text : 0..TextBound, id : 0..SaveBound, why : Buttons \cup {"autosave"},
         pc : {"waiting", "sent", "saved", "refused", "lost", "acting", "over"}, made : 0..SaveBound]

Blank == [text |-> 0, dirty |-> FALSE, armed |-> FALSE, articleId |-> 0, pending |-> "none", open |-> TRUE]

\* A new article, or one that is stored already.
EditorInit ==
    /\ \/ form = Blank /\ rows = <<>>
       \/ form = [Blank EXCEPT !.articleId = 1] /\ rows = <<[text |-> 0, public |-> FALSE]>>
    /\ saves = <<>> /\ inFlight = 0
    /\ slipped = FALSE /\ overtaken = FALSE

OnItsWay == {i \in DOMAIN saves : saves[i].pc \in {"waiting", "sent", "saved"}}
Creating == {i \in OnItsWay : saves[i].id = 0}

\* The timer of the autosave runs while there is something to save and no button works.
Rearmed(f) == [f EXCEPT !.armed = f.dirty /\ f.pending = "none"]

\* touch, and the effect that depends on every field.
Type ==
    /\ form.open /\ form.text < TextBound
    /\ form' = Rearmed([form EXCEPT !.text = @ + 1, !.dirty = TRUE])
    /\ slipped' = (slipped \/ OnItsWay # {})
    /\ UNCHANGED <<saves, inFlight, rows, overtaken>>

\* persist: wait for the save in flight, or go at once.
Persist(why) ==
    /\ form.open /\ Len(saves) < SaveBound
    /\ saves' = Append(saves, [text |-> form.text, id |-> form.articleId, why |-> why, made |-> 0,
                               pc |-> IF inFlight # 0 THEN "waiting" ELSE "sent"])
    /\ inFlight' = IF inFlight # 0 THEN inFlight ELSE Len(saves')
    /\ overtaken' = (overtaken \/ Creating # {})
    /\ UNCHANGED <<rows, slipped>>

Autosave ==
    /\ form.armed
    /\ Persist("autosave")
    /\ form' = [form EXCEPT !.armed = FALSE]

\* onSubmit and runAction; the preview button needs no other to be idle.
Press(why) ==
    /\ form.pending = "none"
    /\ form.dirty \/ form.articleId = 0 \/ why = "submit"
    /\ Persist(why)
    /\ form' = IF why = "preview" THEN form ELSE Rearmed([form EXCEPT !.pending = why])

\* Nothing to save: the action is asked for at once.
PublishSaved ==
    /\ form.open /\ form.pending = "none" /\ ~form.dirty /\ form.articleId # 0
    /\ Len(saves) < SaveBound
    /\ saves' = Append(saves, [text |-> form.text, id |-> form.articleId, why |-> "publish",
                               made |-> form.articleId, pc |-> "acting"])
    /\ form' = [form EXCEPT !.pending = "publish"]
    /\ UNCHANGED <<inFlight, rows, slipped, overtaken>>

---------------------------------------------------------------------------
(* The server's side, in the order the requests were sent                  *)

InTurn(i) == \A j \in 1..(i - 1) : saves[j].pc \notin {"sent", "acting"}

\* createArticle or updateArticle; uniqueSlug finds every new one a name.
Serve(i) ==
    /\ saves[i].pc = "sent" /\ InTurn(i)
    /\ LET s == saves[i]  row == [text |-> s.text, public |-> FALSE] IN
       /\ rows' = IF s.id = 0 THEN Append(rows, row) ELSE [rows EXCEPT ![s.id].text = s.text]
       /\ saves' = [saves EXCEPT ![i].pc = "saved", ![i].made = IF s.id = 0 THEN Len(rows') ELSE s.id]
    /\ UNCHANGED <<form, inFlight, slipped, overtaken>>

Refuse(i) ==
    /\ saves[i].pc = "sent" /\ InTurn(i)
    /\ saves' = [saves EXCEPT ![i].pc = "refused"]
    /\ UNCHANGED <<form, inFlight, rows, slipped, overtaken>>

\* The request, or the answer to it, is lost.
Lose(i) ==
    /\ \/ saves[i].pc = "saved"
       \/ saves[i].pc = "sent" /\ InTurn(i)
    /\ saves' = [saves EXCEPT ![i].pc = "lost"]
    /\ overtaken' = (overtaken \/ saves[i].id = 0)
    /\ UNCHANGED <<form, inFlight, rows, slipped>>

---------------------------------------------------------------------------
(* The answer in the browser                                               *)

\* Those that waited for this one are sent; the last of them is waited for.
Released(i) == {j \in DOMAIN saves : saves[j].pc = "waiting" /\ i = inFlight}
Onward(i, pc) ==
    /\ saves' = [j \in DOMAIN saves |->
           IF j = i THEN [saves[j] EXCEPT !.pc = pc]
           ELSE IF j \in Released(i) THEN [saves[j] EXCEPT !.pc = "sent"] ELSE saves[j]]
    /\ inFlight' = IF Released(i) = {} THEN 0
                   ELSE CHOOSE j \in Released(i) : \A k \in Released(i) : k <= j

\* Mutant: whatever the answer, nothing is left to save.
CleanWhateverCame(f, s) ==
    [f EXCEPT !.dirty = FALSE, !.armed = FALSE,
              !.articleId = IF s.pc = "saved" /\ s.id = 0 THEN s.made ELSE @]

\* What an answer makes of the form before the caller goes on.
Settled(f, s) ==
    IF s.pc = "saved"
    THEN [f EXCEPT !.dirty = FALSE, !.armed = FALSE, !.articleId = IF s.id = 0 THEN s.made ELSE @]
    ELSE f

\* The button is free again, unless onSubmit was thrown out of: it has no finally.
AfterButton(f, s) ==
    CASE s.why \in {"autosave", "preview"} -> f
      [] s.why = "submit" /\ s.pc = "saved" -> [f EXCEPT !.pending = "none", !.open = FALSE]
      [] s.why = "submit" /\ s.pc = "lost" -> f
      [] s.why = "publish" /\ s.pc = "saved" -> f
      [] OTHER -> Rearmed([f EXCEPT !.pending = "none"])

Settle(i) ==
    /\ saves[i].pc \in {"saved", "refused", "lost"} /\ form.open
    /\ form' = AfterButton(Settled(form, saves[i]), saves[i])
    /\ Onward(i, IF saves[i].why = "publish" /\ saves[i].pc = "saved" THEN "acting" ELSE "over")
    /\ UNCHANGED <<rows, slipped, overtaken>>

\* publishArticle on the number the save knew, or was given; it may be
\* refused, and what came of it may not be heard.
Act(i) ==
    /\ saves[i].pc = "acting" /\ InTurn(i)
    /\ \E ok \in BOOLEAN : rows' = [rows EXCEPT ![saves[i].made].public = @ \/ ok]
    /\ saves' = [saves EXCEPT ![i].pc = "over"]
    /\ form' = Rearmed([form EXCEPT !.pending = "none"])
    /\ UNCHANGED <<inFlight, slipped, overtaken>>

EditorNext ==
    \/ Type \/ Autosave \/ PublishSaved
    \/ \E why \in Buttons : Press(why)
    \/ \E i \in DOMAIN saves : Serve(i) \/ Refuse(i) \/ Lose(i) \/ Settle(i) \/ Act(i)

EditorSpec == EditorInit /\ [][EditorNext]_editorVars

---------------------------------------------------------------------------
EditorTypeOK ==
    /\ form \in Form /\ saves \in Seq(Save) /\ inFlight \in 0..Len(saves)
    /\ rows \in Seq([text : 0..TextBound, public : BOOLEAN])

\* Nothing typed is lost, and it is saved to one article: a form that says
\* all is saved has its text in the row, what was published held what was
\* on the screen, unless something was typed while a save was on its way
\* (its end clears the mark of the new text).  And no second article came
\* about, unless a save began or was lost while the first created the row.
FormKeepsItsStory ==
    /\ ~slipped /\ ~form.dirty /\ form.articleId # 0 => rows[form.articleId].text = form.text
    /\ ~slipped => \A i \in DOMAIN saves :
           saves[i].pc = "acting" => rows[saves[i].made].text = saves[i].text
    /\ ~overtaken => Len(rows) <= 1
=============================================================================
