----------------------------- MODULE Discussion -----------------------------
(***************************************************************************)
(* Comments under one story, how they come to be public and who is told:   *)
(* components/comments/actions.ts, dashboard/comments/actions.ts,          *)
(* lib/notifications.ts and the site settings with their cache             *)
(* (lib/settings.ts), which decide whether a comment waits for a           *)
(* moderator.                                                              *)
(*                                                                         *)
(* Requests interleave at their awaits.  A moderator acts on a page that   *)
(* was loaded earlier.                                                     *)
(***************************************************************************)
EXTENDS Naturals, FiniteSets

CONSTANTS
    Reader,             \* confirmed readers, not staff
    FirstReader,        \* the one of them who wrote first
    CommentLanes,       \* bound of the model: how many requests may be in flight at once
    CommentBound,       \* bound of the model: comments, in the order they are written
    TalkBound,          \* bound of the model: requests begun and settings saved
    TRUSTED_AFTER       \* approved comments that earn trust

ASSUME DiscussionAssumption ==
    FirstReader \in Reader /\ CommentBound \in Nat \ {0} /\ TalkBound \in Nat

VARIABLES
    comments,           \* Comment rows, by number
    notices,            \* Notification rows about comments
    stored,             \* SiteSetting row: commentModeration
    cache,              \* the settings this process remembers, or "none"
    page,               \* the comment a moderator is looking at, as it was loaded
    talk,               \* the requests in flight
    talks,              \* history: requests begun
    down,               \* history: taken down, and not let through by a moderator since
    vetted,             \* history: by comment, the text a moderator let through
    crossed,            \* history: comments two hands had at once
    lateFill            \* history: a save came between reading the settings and keeping them

commentVars == <<comments, notices, stored, cache, page, talk, talks,
                 down, vetted, crossed, lateFill>>

CommentId == 1..CommentBound
CommentLane == 1..CommentLanes
CommentStatus == {"none", "PENDING", "APPROVED", "HIDDEN", "DELETED"}
Modes == {"trusted", "new_accounts", "all"}
Texts == {"plain", "spam"}
NoComment == [status |-> "none", by |-> "nobody", parent |-> 0, text |-> "plain"]
\* Somebody has written before the behaviour starts.
FirstComment == [status |-> "APPROVED", by |-> FirstReader, parent |-> 0, text |-> "plain"]
CommentRow == [status : CommentStatus, by : Reader \cup {"nobody"}, parent : 0..CommentBound, text : Texts]
Notice == [user : Reader, type : {"COMMENT_REPLY", "COMMENT_APPROVED"}, comment : CommentId]

NoTalk == [pc |-> "idle", id |-> 0]
Request(pc, id, by, parent, text) ==
    [pc |-> pc, id |-> id, by |-> by, parent |-> parent, text |-> text, as |-> "undecided"]
Busy == {l \in CommentLane : talk[l] # NoTalk}
Talked(c) == \E l \in CommentLane : talk[l].id = c /\ c # 0

DiscussionInit ==
    /\ comments = [c \in CommentId |-> IF c = 1 THEN FirstComment ELSE NoComment]
    /\ notices = {}
    /\ stored = "new_accounts" /\ cache = "none"
    /\ page = [id |-> 0]
    /\ talk = [l \in CommentLane |-> NoTalk]
    /\ talks = 0
    /\ down = {} /\ vetted = [c \in CommentId |-> "plain"]
    /\ crossed = {} /\ lateFill = FALSE

OnOldPage(request) ==
    request.pc \in {"approve", "hide"} /\ page.row # comments[page.id]

Bring(l, request) ==
    /\ talk[l] = NoTalk /\ 1..(l - 1) \subseteq Busy
    /\ talks < TalkBound /\ talks' = talks + 1
    /\ talk' = [talk EXCEPT ![l] = request]
    /\ crossed' = crossed \cup {c \in {request.id} : Talked(c) \/ OnOldPage(request)}
    /\ page' = IF request.pc \in {"approve", "hide"} THEN [id |-> 0] ELSE page
    /\ UNCHANGED <<comments, notices, stored, cache, down, vetted, lateFill>>

TalkOn(l, request) == talk' = [talk EXCEPT ![l] = request] /\ UNCHANGED <<talks, page>>
TalkDone(l) == TalkOn(l, NoTalk)
TalkOnly == UNCHANGED <<comments, notices, stored, down, vetted, crossed>>
At(l, pc) == talk[l].pc = pc

---------------------------------------------------------------------------
(* Writing and editing                                                     *)

\* postComment: a reply needs an approved parent.  Row 0 is yet to be created.
PostComment(l, reader, parent, text) ==
    /\ parent # 0 => comments[parent].status = "APPROVED"
    /\ Bring(l, Request("decide", 0, reader, parent, text))

\* Mutant: what was taken down may still be edited.
EditAnyComment(l, c, text) ==
    /\ comments[c].status # "none"
    /\ Bring(l, Request("decide", c, comments[c].by, comments[c].parent, text))

\* editComment: one's own comment, not taken down, within the time allowed.
EditComment(l, c, text) ==
    /\ comments[c].status \in {"PENDING", "APPROVED"}
    /\ Bring(l, Request("decide", c, comments[c].by, comments[c].parent, text))

ApprovedOf(reader) ==
    {c \in CommentId : comments[c].by = reader /\ comments[c].status = "APPROVED"}
Trusted(reader) == Cardinality(ApprovedOf(reader)) >= TRUSTED_AFTER

\* Mutant: an edit is decided by the mode, not by its text.
DecideByMode(mode, r) ==
    IF (r.text = "spam" /\ r.id = 0) \/ mode = "all" \/ (mode # "trusted" /\ ~Trusted(r.by))
    THEN "PENDING" ELSE "APPROVED"

\* decideCommentStatus.
Decide(mode, r) ==
    IF r.text = "spam" \/ mode = "all" \/ (mode # "trusted" /\ ~Trusted(r.by))
    THEN "PENDING" ELSE "APPROVED"

Decided(l, mode) ==
    TalkOn(l, [talk[l] EXCEPT !.pc = "write", !.as = Decide(mode, talk[l])])

\* getSettings: what this process remembers, else the rows ...
DecideFromCache(l) ==
    /\ At(l, "decide") /\ cache # "none"
    /\ Decided(l, cache)
    /\ TalkOnly /\ UNCHANGED <<cache, lateFill>>

ReadSettings(l) ==
    /\ At(l, "decide") /\ cache = "none"
    /\ TalkOn(l, [talk[l] EXCEPT !.pc = "fill", !.as = stored])
    /\ TalkOnly /\ UNCHANGED <<cache, lateFill>>

\* ... which are remembered when they arrive.
FillCache(l) ==
    /\ At(l, "fill")
    /\ cache' = talk[l].as
    /\ lateFill' = (stored # talk[l].as)
    /\ Decided(l, talk[l].as)
    /\ TalkOnly

WriteComment(l) ==
    /\ At(l, "write")
    /\ LET r == talk[l]
           c == IF r.id # 0 THEN r.id ELSE
                CHOOSE k \in CommentId : comments[k].status = "none"
                                          /\ \A j \in 1..(k - 1) : comments[j].status # "none"
       IN /\ comments[CommentBound].status = "none" \/ r.id # 0
          /\ comments' = [comments EXCEPT ![c] =
                 [status |-> r.as, by |-> r.by, parent |-> r.parent, text |-> r.text]]
          /\ IF r.as = "APPROVED" /\ r.parent # 0
             THEN TalkOn(l, [r EXCEPT !.pc = "announce", !.id = c]) ELSE TalkDone(l)
    /\ UNCHANGED <<notices, stored, cache, down, vetted, crossed, lateFill>>

---------------------------------------------------------------------------
(* Telling people                                                          *)

\* The unique keys (userId, type, commentId) and (userId, type, articleId):
\* under one story the second of them leaves one row of each type.
Notify(user, type, c) ==
    IF \E n \in notices : n.user = user /\ n.type = type THEN notices
    ELSE notices \cup {[user |-> user, type |-> type, comment |-> c]}

\* notifyReply re-reads the reply and its parent.
ReplyNotice(c) ==
    LET p == comments[c].parent IN
    IF p = 0 \/ comments[c].status # "APPROVED" THEN notices
    ELSE IF comments[p].status # "APPROVED" \/ comments[p].by = comments[c].by THEN notices
    ELSE Notify(comments[p].by, "COMMENT_REPLY", c)

AnnounceReply(l) ==
    /\ At(l, "announce")
    /\ notices' = ReplyNotice(talk[l].id)
    /\ TalkDone(l)
    /\ UNCHANGED <<comments, stored, cache, down, vetted, crossed, lateFill>>

\* notifyCommentApproved, then notifyReply.
AnnounceApproval(l) ==
    /\ At(l, "announce approval")
    /\ LET c == talk[l].id IN
       notices' = IF comments[c].status = "APPROVED"
                  THEN Notify(comments[c].by, "COMMENT_APPROVED", c) ELSE notices
    /\ TalkOn(l, [talk[l] EXCEPT !.pc = "announce"])
    /\ UNCHANGED <<comments, stored, cache, down, vetted, crossed, lateFill>>

---------------------------------------------------------------------------
(* Taking down and letting through                                         *)

TakeDown(c, status) ==
    /\ comments' = [comments EXCEPT ![c].status = status]
    /\ down' = down \cup {c}

\* deleteOwnComment, and a moderator's hide or delete.
DeleteOwnComment(l, c) ==
    /\ comments[c].status \notin {"none", "DELETED"}
    /\ Bring(l, Request("delete", c, comments[c].by, 0, "plain"))

\* The dashboard lists what is held, and what readers reported; acting on
\* a comment loads the page anew.
OpenPage(c) ==
    /\ page.id = 0 /\ comments[c].status # "none"
    /\ page' = [id |-> c, row |-> comments[c]]
    /\ UNCHANGED <<comments, notices, stored, cache, talk, talks, down, vetted,
                   crossed, lateFill>>

Moderate(l, pc) ==
    /\ page.id # 0 /\ (pc = "approve" => page.row.status = "PENDING")
    /\ Bring(l, Request(pc, page.id, page.row.by, 0, page.row.text))

TakeDownNow(l) ==
    /\ \E how \in {<<"delete", "DELETED">>, <<"hide", "HIDDEN">>} :
           At(l, how[1]) /\ TakeDown(talk[l].id, how[2])
    /\ TalkDone(l)
    /\ UNCHANGED <<notices, stored, cache, vetted, crossed, lateFill>>

\* approve is by number, whatever became of the comment on the page.
ApproveNow(l) ==
    /\ At(l, "approve")
    /\ LET c == talk[l].id IN
       /\ comments' = [comments EXCEPT ![c].status = "APPROVED"]
       /\ down' = down \ {c}
       /\ vetted' = [vetted EXCEPT ![c] = talk[l].text]
    /\ TalkOn(l, [talk[l] EXCEPT !.pc = "announce approval"])
    /\ UNCHANGED <<notices, stored, cache, crossed, lateFill>>

---------------------------------------------------------------------------
(* Settings                                                                *)

SettingsOnly == UNCHANGED <<comments, notices, page, talk, down, vetted, crossed>>
Saved == talks < TalkBound /\ talks' = talks + 1

\* Mutant: what is remembered is left to expire.
SaveRowsOnly(mode) ==
    /\ Saved /\ stored' = mode
    /\ UNCHANGED <<cache, lateFill>> /\ SettingsOnly

SaveSettings(mode) ==
    /\ Saved /\ stored' = mode /\ cache' = mode /\ lateFill' = FALSE
    /\ SettingsOnly

\* A minute has passed, or the process started anew.
ForgetSettings ==
    /\ cache # "none" /\ cache' = "none" /\ lateFill' = FALSE
    /\ UNCHANGED <<stored, talks>> /\ SettingsOnly

TalkStep(l) ==
    \/ DecideFromCache(l) \/ ReadSettings(l) \/ FillCache(l) \/ WriteComment(l)
    \/ AnnounceReply(l) \/ AnnounceApproval(l) \/ TakeDownNow(l) \/ ApproveNow(l)

DiscussionNext ==
    \/ \E l \in CommentLane :
           \/ \E reader \in Reader, parent \in 0..CommentBound, text \in Texts :
                  PostComment(l, reader, parent, text)
           \/ \E c \in CommentId :
                  \/ \E text \in Texts : EditComment(l, c, text)
                  \/ DeleteOwnComment(l, c)
           \/ \E pc \in {"approve", "hide", "delete"} : Moderate(l, pc)
           \/ TalkStep(l)
    \/ \E c \in CommentId : OpenPage(c)
    \/ \E mode \in Modes : SaveSettings(mode)
    \/ ForgetSettings

\* The comments by themselves; in Site their steps are those of one concern.
DiscussionSpec == DiscussionInit /\ [][DiscussionNext]_commentVars

---------------------------------------------------------------------------
DiscussionTypeOK ==
    /\ comments \in [CommentId -> CommentRow] /\ notices \subseteq Notice
    /\ stored \in Modes /\ cache \in Modes \cup {"none"}
    /\ talks \in 0..TalkBound /\ down \subseteq CommentId

\* What was taken down, by its author or a moderator, is public again only
\* through a moderator; unless another request had it in hand, or the
\* moderator's page was old.
TakenDownStaysDown ==
    \A c \in down \ crossed : comments[c].status \in {"HIDDEN", "DELETED"}

\* Nobody reads a suspicious text that no moderator has read: editing is
\* not a way around the queue.
PublicTextWasVetted ==
    \A c \in CommentId \ crossed :
        comments[c].status = "APPROVED" /\ comments[c].text = "spam" => vetted[c] = "spam"

\* What the process remembers of the settings is what is stored, unless a
\* save came while they were being read.
SettingsAreCurrent == cache \in {"none", stored} \/ lateFill

\* lib/notifications.ts: writes are idempotent by (user, type, comment), so
\* whoever is answered in public by somebody else is told of each answer.
\* It does not hold: see the README.
EveryAnswerIsAnnounced ==
    Busy = {} => \A c \in CommentId \ crossed :
        LET p == comments[c].parent IN
        p # 0 /\ comments[c].status = "APPROVED"
              /\ comments[p] = FirstComment /\ comments[c].by # FirstReader
        => \E n \in notices : n.type = "COMMENT_REPLY" /\ n.comment = c
=============================================================================
