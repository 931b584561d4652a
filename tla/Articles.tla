------------------------------ MODULE Articles ------------------------------
(***************************************************************************)
(* Stories from draft to archive: the server actions of the editors        *)
(* (articles/actions.ts), the rights of the files a story shows            *)
(* (media/actions.ts, lib/articleMedia.ts) and the scheduler that rides on *)
(* ordinary visits (lib/scheduledPublishing.ts).                           *)
(*                                                                         *)
(* Every await of an action lets the others run, and the scheduler works   *)
(* through a list it read when it started.  The caller of an action is the *)
(* story's author or an administrator: assertCanEdit refuses anyone else   *)
(* and leaves no trace.                                                    *)
(***************************************************************************)
EXTENDS Naturals, FiniteSets

CONSTANTS
    Story,
    MediaFile,      \* media that stories show
    Desk,           \* editors' requests that may be in flight at once
    ArticleInputs,  \* what the forms send: a time, if any, is still to come
    EventBound      \* bound of the model: requests, changes of terms and faults

\* The article schema: parsed fields, and a time that is still to come.
ASSUME ArticlesAssumption ==
    ArticleInputs \subseteq
        [body : SUBSET MediaFile, isBreaking : BOOLEAN, scheduledFor : {"none", "later"}]

VARIABLES
    story,          \* Article rows
    attached,       \* by story, the files joined to its row
    licensed,       \* files whose terms are complete and confirmed
    alerted,        \* stories with BREAKING_NEWS rows
    desk,           \* requests in flight
    pass,           \* the scheduler: what it is doing with which story
    quiet,          \* less than a minute since the scheduler last started
    events,         \* counter of the bound
    withdrawn,      \* history: unpublished or archived, and not put up again since
    raced,          \* history: two hands had the story, or its files, at once
    news            \* history: stories that went up while breaking

articleVars == <<story, attached, licensed, alerted, desk, pass, quiet, events, withdrawn, raced, news>>
history == <<withdrawn, raced, news>>

Status == {"absent", "DRAFT", "SCHEDULED", "PUBLISHED", "ARCHIVED"}
Times == {"none", "later", "due"}
StoryRow == [status : Status, scheduledFor : Times, body : SUBSET MediaFile, isBreaking : BOOLEAN]

NoRequest == [pc |-> "idle"]
NoPass == [pc |-> "idle", left |-> {}]
InPass(s) == pass.pc # "idle" /\ s \in {d.id : d \in pass.left}
AtDesk(s) == \E d \in Desk : desk[d] # NoRequest /\ desk[d].id = s
InHand == {s \in Story : InPass(s) \/ AtDesk(s)}

NoStory == [status |-> "absent", scheduledFor |-> "none", body |-> {}, isBreaking |-> FALSE]
\* Drafts saved before the behaviour starts.
FirstDrafts == [status : {"DRAFT"}, scheduledFor : {"none"}, body : SUBSET MediaFile,
                isBreaking : {FALSE}]

ArticlesInit ==
    /\ story \in [Story -> {NoStory} \cup FirstDrafts]
    /\ attached = [s \in Story |-> story[s].body]
    /\ licensed \in SUBSET MediaFile /\ alerted = {}
    /\ desk = [d \in Desk |-> NoRequest]
    /\ pass = NoPass /\ quiet = FALSE
    /\ events = 0
    /\ withdrawn = {} /\ raced = {} /\ news = {}

---------------------------------------------------------------------------
(* An editor's request, await by await                                     *)

\* mediaReferencedBy and rightsBlockers.
Blocked(body) == ~(body \subseteq licensed)

Event == events < EventBound /\ events' = events + 1

\* The request reads the row first: what it needs of it travels with it.
Ask(d, s, pc, seen) ==
    /\ desk[d] = NoRequest
    /\ Event
    /\ desk' = [desk EXCEPT ![d] = [pc |-> pc, id |-> s, seen |-> seen]]
    /\ raced' = raced \cup ({s} \cap InHand)
    /\ UNCHANGED <<story, attached, licensed, alerted, pass, quiet, withdrawn, news>>

Step(d, pc) == desk' = [desk EXCEPT ![d] = [@ EXCEPT !.pc = pc]]
Done(d) == desk' = [desk EXCEPT ![d] = NoRequest]
AtPc(d, pc) == desk[d] # NoRequest /\ desk[d].pc = pc
DeskOnly == UNCHANGED <<licensed, alerted, pass, quiet, events>>

\* scheduleFields: only a draft or a scheduled story is moved by saving it.
ScheduleFields(input, status) ==
    IF status \notin {"absent", "DRAFT", "SCHEDULED"} THEN [moves |-> FALSE]
    ELSE IF input.scheduledFor # "none"
    THEN [moves |-> TRUE, status |-> "SCHEDULED", scheduledFor |-> input.scheduledFor]
    ELSE IF status = "SCHEDULED"
    THEN [moves |-> TRUE, status |-> "DRAFT", scheduledFor |-> "none"]
    ELSE [moves |-> FALSE]

SaveArticle(d, s, input) ==
    Ask(d, s, "save: rights", [status |-> story[s].status, input |-> input])
PublishArticle(d, s) ==
    story[s].status # "absent" /\ Ask(d, s, "publish: rights", story[s].body)
UnpublishArticle(d, s) == story[s].status # "absent" /\ Ask(d, s, "unpublish", {})
ArchiveArticle(d, s) == story[s].status # "absent" /\ Ask(d, s, "archive", {})

\* Mutant: only scheduling asks for the rights of the files.
CheckWhenScheduling(d) ==
    /\ AtPc(d, "save: rights")
    /\ LET r == desk[d].seen  to == ScheduleFields(r.input, r.status) IN
       IF to.moves /\ to.status = "SCHEDULED" /\ Blocked(r.input.body)
       THEN Done(d) ELSE Step(d, "save: write")
    /\ UNCHANGED <<story, attached, history>> /\ DeskOnly

\* Scheduling, and saving what is live already, need every file credited.
CheckSavedRights(d) ==
    /\ AtPc(d, "save: rights")
    /\ LET r == desk[d].seen  to == ScheduleFields(r.input, r.status) IN
       IF ((to.moves /\ to.status = "SCHEDULED") \/ r.status = "PUBLISHED")
             /\ Blocked(r.input.body)
       THEN Done(d) ELSE Step(d, "save: write")
    /\ UNCHANGED <<story, attached, history>> /\ DeskOnly

\* createArticle and updateArticle: the row with the fields of the form.
WriteSaved(d) ==
    /\ AtPc(d, "save: write")
    /\ LET s == desk[d].id
           r == desk[d].seen
           to == ScheduleFields(r.input, r.status)
           text == [story[s] EXCEPT !.body = r.input.body, !.isBreaking = r.input.isBreaking]
           status == IF to.moves THEN to.status
                     ELSE IF r.status = "absent" THEN "DRAFT" ELSE text.status
       IN /\ story' = [story EXCEPT ![s] =
                 [text EXCEPT !.status = status,
                              !.scheduledFor = IF to.moves THEN to.scheduledFor ELSE @]]
          /\ withdrawn' = IF status = "SCHEDULED" THEN withdrawn \ {s} ELSE withdrawn
    /\ Step(d, "save: link")
    /\ UNCHANGED <<attached, raced, news>> /\ DeskOnly

\* linkArticleMedia, with the files the request resolved earlier.
LinkSaved(d) ==
    /\ AtPc(d, "save: link")
    /\ attached' = [attached EXCEPT ![desk[d].id] = desk[d].seen.input.body]
    /\ Done(d)
    /\ UNCHANGED <<story, history>> /\ DeskOnly

CheckPublishedRights(d) ==
    /\ AtPc(d, "publish: rights")
    /\ IF Blocked(desk[d].seen) THEN Done(d) ELSE Step(d, "publish: link")
    /\ UNCHANGED <<story, attached, history>> /\ DeskOnly

LinkPublished(d) ==
    /\ AtPc(d, "publish: link")
    /\ attached' = [attached EXCEPT ![desk[d].id] = desk[d].seen]
    /\ Step(d, "publish: write")
    /\ UNCHANGED <<story, history>> /\ DeskOnly

GoesUp(s) == news' = IF story[s].isBreaking THEN news \cup {s} ELSE news

\* notifyBreakingNews re-reads the story; a repeat writes no second row.
Alert(s) == alerted' =
    IF story[s].status = "PUBLISHED" /\ story[s].isBreaking THEN alerted \cup {s} ELSE alerted

\* Mutant: the followers are alerted before the story is up.
AlertBeforeWriting(d) ==
    /\ AtPc(d, "publish: write")
    /\ LET s == desk[d].id IN
       /\ Alert(s)
       /\ story' = [story EXCEPT ![s].status = "PUBLISHED"]
       /\ withdrawn' = withdrawn \ {s}
       /\ GoesUp(s)
    /\ Done(d)
    /\ UNCHANGED <<attached, raced, licensed, pass, quiet, events>>

WritePublished(d) ==
    /\ AtPc(d, "publish: write")
    /\ LET s == desk[d].id IN
       /\ story' = [story EXCEPT ![s].status = "PUBLISHED"]
       /\ withdrawn' = withdrawn \ {s}
       /\ GoesUp(s)
    /\ Step(d, "publish: alert")
    /\ UNCHANGED <<attached, raced>> /\ DeskOnly

AlertPublished(d) ==
    /\ AtPc(d, "publish: alert")
    /\ Alert(desk[d].id) /\ Done(d)
    /\ UNCHANGED <<story, attached, licensed, pass, quiet, events, history>>

\* unpublishArticle and archiveArticle leave scheduledFor as it is.
Withdraw(d) ==
    /\ \E w \in {<<"unpublish", "DRAFT">>, <<"archive", "ARCHIVED">>} :
           /\ AtPc(d, w[1])
           /\ story' = [story EXCEPT ![desk[d].id].status = w[2]]
    /\ withdrawn' = withdrawn \cup {desk[d].id}
    /\ Done(d)
    /\ UNCHANGED <<attached, raced, news>> /\ DeskOnly

\* setMediaRights: new terms, with the confirmation or without it.
SetMediaRights(f, confirmed) ==
    /\ Event
    /\ licensed' = IF confirmed THEN licensed \cup {f} ELSE licensed \ {f}
    /\ raced' = raced \cup IF f \in licensed /\ ~confirmed THEN Story ELSE {}
    /\ UNCHANGED <<story, attached, alerted, desk, pass, quiet, withdrawn, news>>

---------------------------------------------------------------------------
(* The scheduler                                                           *)

\* Mutant: every story whose time has come is due.
DueByTime == {s \in Story : story[s].scheduledFor = "due"}

DueNow == {s \in Story : story[s].status = "SCHEDULED" /\ story[s].scheduledFor = "due"}

Snapshot(s) == [id |-> s, body |-> story[s].body, isBreaking |-> story[s].isBreaking]

\* publishDueArticles after a visit: at most one pass, at most once a minute.
Visit ==
    /\ pass.pc = "idle" /\ ~quiet
    /\ quiet' = TRUE
    /\ pass' = IF DueNow = {} THEN NoPass
               ELSE [pc |-> "next", left |-> {Snapshot(s) : s \in DueNow}]
    /\ raced' = raced \cup {s \in DueNow : AtDesk(s)}
    /\ UNCHANGED <<story, attached, licensed, alerted, desk, events, withdrawn, news>>

MinutePasses ==
    /\ quiet /\ quiet' = FALSE
    /\ UNCHANGED <<story, attached, licensed, alerted, desk, pass, events, history>>

\* The pass holds the story it works on until it is through with it.
Holding(pc, d) == [pc |-> pc, left |-> pass.left, now |-> d]
Through(d) == IF pass.left = {d} THEN NoPass ELSE [pc |-> "next", left |-> pass.left \ {d}]
SchedulerOnly == UNCHANGED <<attached, licensed, desk, quiet, events, raced>>

\* A story with an uncredited file stays scheduled; the pass goes on.
CheckDueRights ==
    /\ pass.pc = "next"
    /\ \E d \in pass.left : pass' = IF Blocked(d.body) THEN Through(d) ELSE Holding("write", d)
    /\ UNCHANGED <<story, alerted, withdrawn, news>> /\ SchedulerOnly

\* The row is written by id, whatever became of it since the list was read.
WriteDue ==
    /\ pass.pc = "write"
    /\ LET s == pass.now.id IN
       /\ story' = [story EXCEPT ![s].status = "PUBLISHED", ![s].scheduledFor = "none"]
       /\ GoesUp(s)
    /\ pass' = IF pass.now.isBreaking THEN Holding("alert", pass.now) ELSE Through(pass.now)
    /\ UNCHANGED <<alerted, withdrawn>> /\ SchedulerOnly

AlertDue ==
    /\ pass.pc = "alert"
    /\ Alert(pass.now.id)
    /\ pass' = Through(pass.now)
    /\ UNCHANGED <<story, withdrawn, news>> /\ SchedulerOnly

PassStep == CheckDueRights \/ WriteDue \/ AlertDue

\* Mutant: the promise of a pass that threw is kept.
PassHangs ==
    /\ Event /\ pass.pc \in {"next", "write", "alert"}
    /\ pass' = [pc |-> "threw", left |-> {}]
    /\ raced' = raced \cup {s \in Story : InPass(s)}
    /\ UNCHANGED <<story, attached, licensed, alerted, desk, quiet, withdrawn, news>>

\* A statement of the pass throws: finally() clears the promise.
PassThrows ==
    /\ Event /\ pass.pc \in {"next", "write", "alert"}
    /\ pass' = NoPass
    /\ raced' = raced \cup {s \in Story : InPass(s)}
    /\ UNCHANGED <<story, attached, licensed, alerted, desk, quiet, withdrawn, news>>

\* The process goes down with everything that was under way.
Restart ==
    /\ Event
    /\ desk' = [d \in Desk |-> NoRequest] /\ pass' = NoPass /\ quiet' = FALSE
    /\ raced' = raced \cup InHand
    /\ UNCHANGED <<story, attached, licensed, alerted, withdrawn, news>>

\* The time of a scheduled story comes.
TimeComes(s) ==
    /\ story[s].scheduledFor = "later"
    /\ story' = [story EXCEPT ![s].scheduledFor = "due"]
    /\ UNCHANGED <<attached, licensed, alerted, desk, pass, quiet, events, history>>

DeskStep(d) ==
    \/ CheckSavedRights(d) \/ WriteSaved(d) \/ LinkSaved(d)
    \/ CheckPublishedRights(d) \/ LinkPublished(d) \/ WritePublished(d) \/ AlertPublished(d)
    \/ Withdraw(d)

ArticlesNext ==
    \/ \E d \in Desk, s \in Story :
           \/ \E input \in ArticleInputs : SaveArticle(d, s, input)
           \/ PublishArticle(d, s) \/ UnpublishArticle(d, s) \/ ArchiveArticle(d, s)
    \/ \E d \in Desk : DeskStep(d)
    \/ \E f \in MediaFile, confirmed \in BOOLEAN : SetMediaRights(f, confirmed)
    \/ Visit \/ MinutePasses \/ PassStep \/ PassThrows \/ Restart
    \/ \E s \in Story : TimeComes(s)

ArticlesSpec == ArticlesInit /\ [][ArticlesNext]_articleVars

---------------------------------------------------------------------------
ArticlesTypeOK ==
    /\ story \in [Story -> StoryRow] /\ attached \in [Story -> SUBSET MediaFile]
    /\ licensed \subseteq MediaFile /\ alerted \subseteq Story
    /\ \A d \in Desk : desk[d] = NoRequest \/ desk[d].id \in Story
    /\ {d.id : d \in pass.left} \subseteq Story
    /\ pass.pc \in {"idle", "next", "write", "alert"} /\ quiet \in BOOLEAN

\* A story that was taken down is not public again unless somebody put it
\* up, or it was in another hand while it was taken down: the scheduler
\* writes by id what it read before.
WithdrawnStaysWithdrawn ==
    \A s \in withdrawn : story[s].status = "PUBLISHED" => s \in raced

\* What readers see is credited, licensed and confirmed, and joined to its
\* story: unless the terms were withdrawn or two hands had the story.
PublicFilesAreCleared ==
    \A s \in Story \ raced :
        story[s].status = "PUBLISHED" =>
            /\ story[s].body \subseteq licensed
            /\ s \notin InHand => attached[s] = story[s].body

\* A story that went up as breaking news has alerted its followers once
\* nobody is at work on it.
NewsIsAnnounced ==
    \A s \in news \ raced : s \in InHand \/ s \in alerted

\* A cleared story whose time has come goes up, by the visits alone, unless
\* somebody takes it off the schedule or a file loses its terms.
DueIsPublished ==
    \A s \in Story :
        story[s].status = "SCHEDULED" /\ story[s].scheduledFor = "due" ~>
            story[s].status # "SCHEDULED" \/ story[s].scheduledFor # "due" \/ Blocked(story[s].body)
=============================================================================
