------------------------------- MODULE Thread -------------------------------
(*************************************************************************)
(* The conversation under an article, in two parts: what the page shows  *)
(* of it, and the boxes it is written in.                                *)
(*************************************************************************)
EXTENDS Naturals, FiniteSets, Sequences
LOCAL INSTANCE Relation
LOCAL INSTANCE SequencesExt

(*************************************************************************)
(* The conversation under an article as a page shows it                  *)
(* (components/comments/CommentSection.tsx, CommentThread.tsx): the rows *)
(* of the table are made into a tree, comments their authors deleted     *)
(* stay as empty places where replies hang off them, and what waits for  *)
(* or was taken down by a moderator is left out with all below it.       *)
(*************************************************************************)

CONSTANTS
    Post,           \* comments in the order they are written, 1..n
    MaxReplyDepth,  \* MAX_REPLY_DEPTH
    InitialRoots    \* INITIAL_ROOTS

VARIABLE posts      \* Comment rows of one article

threadVars == <<posts>>

Unwritten == [status |-> "none", parent |-> 0]
ThreadInit == posts = [c \in Post |-> Unwritten]

\* replyDepth: how far up the conversation a comment hangs.
ReplyDepth[c \in Post] == IF posts[c].parent = 0 THEN 1 ELSE 1 + ReplyDepth[posts[c].parent]

\* postComment: a reply needs a parent that is public and not too deep.
WritePost(c, parent) ==
    /\ posts[c].status = "none" /\ \A b \in Post : b < c => posts[b].status # "none"
    /\ parent # 0 => posts[parent].status = "APPROVED" /\ ReplyDepth[parent] <= MaxReplyDepth
    /\ \E status \in {"PENDING", "APPROVED"} :
           posts' = [posts EXCEPT ![c] = [status |-> status, parent |-> parent]]

\* Its author edits or deletes it, moderators approve, hide or delete it.
SettlePost(c, status) ==
    /\ posts[c].status # "none"
    /\ posts' = [posts EXCEPT ![c].status = status]

ThreadNext ==
    \E c \in Post :
        \/ \E parent \in Post \cup {0} : WritePost(c, parent)
        \/ \E status \in {"PENDING", "APPROVED", "HIDDEN", "DELETED"} : SettlePost(c, status)

\* The rows by themselves.
ThreadSpec == ThreadInit /\ [][ThreadNext]_threadVars

---------------------------------------------------------------------------
(* CommentSection, of the rows r                                           *)

Loaded(r) == {c \in Post : r[c].status \in {"APPROVED", "DELETED"}}
Roots(r) == {c \in Loaded(r) : r[c].parent = 0}
Replies(r, c) == {d \in Loaded(r) : r[d].parent = c}

\* Mutant: what has been answered is kept, whatever became of the answers.
PruneOnce(r) == [c \in Post |-> r[c].status = "DELETED" => Replies(r, c) # {}]

\* pruneTombstones, from the bottom up.
Prune(r) ==
    LET kept[c \in Post] == r[c].status = "DELETED" => \E d \in Replies(r, c) : kept[d]
    IN kept

\* What the tree holds: a reply whose parent was not loaded belongs nowhere.
Tree(r) ==
    LET kept == Prune(r)
        inTree[c \in Post] ==
            /\ c \in Loaded(r) /\ kept[c]
            /\ r[c].parent # 0 => inTree[r[c].parent]
    IN {c \in Post : inTree[c]}

Legible(r) == {c \in Tree(r) : r[c].status = "APPROVED"}

\* countVisible over the tree.
CountVisible(r) ==
    LET below[c \in Post] ==
            (IF r[c].status = "DELETED" THEN 0 ELSE 1)
                + FoldSet(LAMBDA d, n : n + below[d], 0, Replies(r, c) \cap Tree(r))
    IN FoldSet(LAMBDA c, n : n + below[c], 0, Roots(r) \cap Tree(r))

\* sortRoots; replies always stay as they were written.
SortRoots(r, sort, likes) ==
    LET before(a, b) == CASE sort = "oldest" -> a < b
                          [] sort = "newest" -> a > b
                          [] sort = "top" -> likes[a] > likes[b] \/ (likes[a] = likes[b] /\ a < b)
    IN SetToSortSeq(Roots(r) \cap Tree(r), before)

\* The first of them, with a link to all when there are more.
ShownRoots(r, sort, likes, all) ==
    LET tree == SortRoots(r, sort, likes) IN
    IF all \/ Len(tree) <= InitialRoots THEN tree ELSE SubSeq(tree, 1, InitialRoots)
HiddenRoots(r, sort, likes, all) ==
    Len(SortRoots(r, sort, likes)) - Len(ShownRoots(r, sort, likes, all))

---------------------------------------------------------------------------
ThreadTypeOK ==
    posts \in [Post -> [status : {"none", "PENDING", "APPROVED", "HIDDEN", "DELETED"},
                        parent : Post \cup {0}]]

Below(c) ==
    LET under == TransitiveClosure([d, e \in Post |-> posts[d].parent = e], Post)
    IN {d \in Post : under[d, c]}

With(c, status) == [posts EXCEPT ![c].status = status]

\* Nobody erases what others wrote: when its author deletes a comment, that
\* comment is gone and every other one is read as before; when a moderator
\* takes one down, what hangs off it goes, and nothing else.
OthersAreStillRead ==
    \A c \in Legible(posts) :
        /\ Legible(With(c, "DELETED")) = Legible(posts) \ {c}
        /\ Legible(With(c, "HIDDEN")) = Legible(posts) \ (Below(c) \cup {c})

\* An empty place is there for the sake of an answer that is read below it,
\* the heading counts what is read, and the conversation is not too deep.
PlacesHoldAnswers ==
    /\ \A c \in Tree(posts) : posts[c].status = "DELETED" => Below(c) \cap Legible(posts) # {}
    /\ CountVisible(posts) = Cardinality(Legible(posts))
    /\ \A c \in Post : ReplyDepth[c] <= MaxReplyDepth + 1

\* Whichever the order, all roots are listed once, and the page without its
\* link shows the first of them and says how many it leaves out.
EveryOrderIsWhole ==
    \A all \in BOOLEAN, sort \in {"oldest", "newest", "top"} :
        \A likes \in [Roots(posts) -> IF sort = "top" THEN 0..1 ELSE {0}] :
            LET tree == SortRoots(posts, sort, likes)
                shown == ShownRoots(posts, sort, likes, all) IN
            /\ IsPrefix(shown, tree) /\ Len(shown) + HiddenRoots(posts, sort, likes, all) = Len(tree)
            /\ ToSet(tree) = Roots(posts) \cap Tree(posts)
            /\ \A i, j \in DOMAIN tree : i < j => likes[tree[i]] >= likes[tree[j]]

ConversationHolds == OthersAreStillRead /\ PlacesHoldAnswers /\ EveryOrderIsWhole

---------------------------------------------------------------------------
(*************************************************************************)
(* The boxes a reader writes a comment in, in one browser tab: the form  *)
(* for a comment or a reply (components/comments/CommentForm.tsx) and    *)
(* the one that corrects a comment (CommentThread.tsx).  The server      *)
(* answers a call some time later or, when the connection fails, never,  *)
(* and the reader goes on typing and clicking meanwhile.                 *)
(*************************************************************************)
CONSTANTS
    WordBound,      \* pieces of text the reader writes
    CallBound       \* calls on their way at once

ASSUME ComposerAssumption == WordBound \in Nat

VARIABLES
    writing,        \* "comment" or "reply", or "edit": what this tab does
    box,            \* the form: shown, what is written in it, and waiting for an answer
    calls,          \* postComment calls on their way
    posted,         \* by piece, the comments of the table that hold it
    gone,           \* history: discarded by the reader, or typed while a call was on its way
    typed,          \* pieces written so far
    comment,        \* the comment being corrected: in the table and on the page
    edit,           \* the form that corrects it
    hasty           \* history: the form was used before the answer and the page came back,
                    \* or the comment was edited in another tab

postVars == <<box, calls, posted, gone>>
editVars == <<comment, edit, hasty>>
composerVars == <<writing, typed, postVars, editVars>>

Word == 1..WordBound
Call == [words : SUBSET Word, at : {"sent", "APPROVED", "PENDING", "refused"}, mine : BOOLEAN]
EmptyBox(open) == [open |-> open, words |-> {}, pending |-> FALSE]

ComposerInit ==
    /\ writing \in {"comment", "reply", "edit"}
    /\ box = EmptyBox(writing = "comment") /\ calls = {} /\ posted = [w \in Word |-> 0] /\ gone = {}
    /\ typed = 0
    /\ comment = [text |-> 0, shown |-> 0]
    /\ edit = [open |-> FALSE, draft |-> 0, pending |-> FALSE, sent |-> 0, at |-> "none"]
    /\ hasty = FALSE

---------------------------------------------------------------------------
(* CommentForm                                                             *)

Typing == typed < WordBound /\ typed' = typed + 1
Posting == writing # "edit" /\ UNCHANGED <<writing, editVars>>

OpenReply ==
    /\ Posting /\ writing = "reply" /\ ~box.open
    /\ box' = EmptyBox(TRUE)
    /\ UNCHANGED <<typed, calls, posted, gone>>

TypeWords ==
    /\ Posting /\ box.open /\ Typing
    /\ box' = [box EXCEPT !.words = @ \cup {typed'}]
    /\ gone' = IF calls = {} THEN gone ELSE gone \cup {typed'}
    /\ UNCHANGED <<calls, posted>>

\* Mutant: the box is emptied as its text is sent.
EmptyAtOnce ==
    /\ Posting /\ box.open /\ ~box.pending /\ box.words # {} /\ Cardinality(calls) < CallBound
    /\ calls' = calls \cup {[words |-> box.words, at |-> "sent", mine |-> TRUE]}
    /\ box' = [box EXCEPT !.pending = TRUE, !.words = {}]
    /\ UNCHANGED <<typed, posted, gone>>

\* onSubmit: the button is disabled while an answer is awaited.
SubmitWords ==
    /\ Posting /\ box.open /\ ~box.pending /\ box.words # {} /\ Cardinality(calls) < CallBound
    /\ calls' = calls \cup {[words |-> box.words, at |-> "sent", mine |-> TRUE]}
    /\ box' = [box EXCEPT !.pending = TRUE]
    /\ UNCHANGED <<typed, posted, gone>>

\* postComment: public, held, or refused.
ServePost(c) ==
    /\ Posting /\ c.at = "sent"
    /\ \E at \in {"APPROVED", "PENDING", "refused"} :
           /\ calls' = (calls \ {c}) \cup {[c EXCEPT !.at = at]}
           /\ posted' = IF at = "refused" THEN posted
                        ELSE [w \in Word |-> posted[w] + (IF w \in c.words THEN 1 ELSE 0)]
    /\ UNCHANGED <<typed, box, gone>>

\* The form that asked empties itself.  A public reply closes the form under
\* its comment, be it the one that asked or another opened since.
AnswerPost(c) ==
    /\ Posting /\ c.at # "sent"
    /\ calls' = IF c.at = "APPROVED" /\ writing = "reply"
                THEN {[d EXCEPT !.mine = FALSE] : d \in calls \ {c}} ELSE calls \ {c}
    /\ box' = CASE c.at = "APPROVED" /\ writing = "reply" -> EmptyBox(FALSE)
                [] c.at # "refused" /\ c.mine /\ ~(c.at = "APPROVED" /\ writing = "reply") -> EmptyBox(TRUE)
                [] c.at = "refused" /\ c.mine -> [box EXCEPT !.pending = FALSE]
                [] OTHER -> box
    /\ UNCHANGED <<typed, posted, gone>>

\* Mutant: a call that fails releases the button.
TryAgain(c) ==
    /\ Posting /\ calls' = calls \ {c}
    /\ box' = [box EXCEPT !.pending = FALSE]
    /\ UNCHANGED <<typed, posted, gone>>

\* The call throws before or after the server has acted on it; nothing
\* catches it, and the form goes on waiting.
LosePost(c) ==
    /\ Posting /\ calls' = calls \ {c}
    /\ UNCHANGED <<typed, box, posted, gone>>

\* Cancel, or Reply clicked again: the text goes with the form.
CancelReply ==
    /\ Posting /\ writing = "reply" /\ box.open
    /\ gone' = gone \cup box.words /\ box' = EmptyBox(FALSE)
    /\ calls' = {[c EXCEPT !.mine = FALSE] : c \in calls}
    /\ UNCHANGED <<typed, posted>>

---------------------------------------------------------------------------
(* The correction of one's own comment                                     *)

Editing == writing = "edit" /\ UNCHANGED <<writing, postVars>>
Hasty == hasty' = (hasty \/ edit.pending \/ comment.shown # comment.text)

\* The draft is what it was: it is set from the comment when the comment is
\* first shown, by typing, and by Cancel.
OpenEdit ==
    /\ Editing /\ ~edit.open
    /\ edit' = [edit EXCEPT !.open = TRUE]
    /\ Hasty /\ UNCHANGED <<typed, comment>>

TypeEdit ==
    /\ Editing /\ edit.open /\ Typing
    /\ edit' = [edit EXCEPT !.draft = typed']
    /\ Hasty /\ UNCHANGED comment

\* Mutant: Cancel leaves the draft as it is.
CancelAndKeep ==
    /\ Editing /\ edit.open
    /\ edit' = [edit EXCEPT !.open = FALSE]
    /\ Hasty /\ UNCHANGED <<typed, comment>>

CancelEdit ==
    /\ Editing /\ edit.open
    /\ edit' = [edit EXCEPT !.open = FALSE, !.draft = comment.shown]
    /\ Hasty /\ UNCHANGED <<typed, comment>>

SaveEdit ==
    /\ Editing /\ edit.open /\ ~edit.pending
    /\ edit' = [edit EXCEPT !.pending = TRUE, !.sent = edit.draft, !.at = "sent"]
    /\ UNCHANGED <<typed, comment, hasty>>

\* editComment.
ServeEdit ==
    /\ Editing /\ edit.at = "sent"
    /\ \E at \in {"ok", "refused"} :
           /\ edit' = [edit EXCEPT !.at = at]
           /\ comment' = IF at = "ok" THEN [comment EXCEPT !.text = edit.sent] ELSE comment
    /\ UNCHANGED <<typed, hasty>>

\* The form closes and the page is asked for again.
AnswerEdit ==
    /\ Editing /\ edit.at \in {"ok", "refused"}
    /\ edit' = [edit EXCEPT !.pending = FALSE, !.at = "none",
                            !.open = @ /\ edit.at = "refused"]
    /\ UNCHANGED <<typed, comment, hasty>>

LoseEdit ==
    /\ Editing /\ edit.at # "none"
    /\ edit' = [edit EXCEPT !.at = "none"]
    /\ UNCHANGED <<typed, comment, hasty>>

RefreshComment ==
    /\ Editing /\ comment.shown # comment.text
    /\ comment' = [comment EXCEPT !.shown = comment.text]
    /\ UNCHANGED <<typed, edit, hasty>>

EditElsewhere ==
    /\ Editing /\ Typing
    /\ comment' = [comment EXCEPT !.text = typed'] /\ hasty' = TRUE
    /\ UNCHANGED edit

ComposerNext ==
    \/ OpenReply \/ TypeWords \/ SubmitWords \/ CancelReply
    \/ \E c \in calls : ServePost(c) \/ AnswerPost(c) \/ LosePost(c)
    \/ OpenEdit \/ TypeEdit \/ CancelEdit \/ SaveEdit \/ ServeEdit \/ AnswerEdit \/ LoseEdit
    \/ RefreshComment \/ EditElsewhere

\* The boxes by themselves.
ComposerSpec == ComposerInit /\ [][ComposerNext]_composerVars

---------------------------------------------------------------------------
ComposerTypeOK ==
    /\ writing \in {"comment", "reply", "edit"} /\ typed \in 0..WordBound
    /\ box \in [open : BOOLEAN, words : SUBSET Word, pending : BOOLEAN]
    /\ calls \subseteq Call /\ posted \in [Word -> Nat] /\ gone \subseteq Word
    /\ comment \in [text : 0..WordBound, shown : 0..WordBound]
    /\ edit \in [open : BOOLEAN, draft : 0..WordBound, pending : BOOLEAN, sent : 0..WordBound,
                 at : {"none", "sent", "ok", "refused"}]

\* What a reader wrote is in the box until the server has it, whatever
\* becomes of the calls, unless the reader discarded it or wrote it while an
\* earlier text was on its way; and no text is posted twice.
WordsArePostedOnce ==
    writing # "edit" =>
        /\ \A w \in 1..typed : posted[w] > 0 \/ w \in box.words \cup gone
        /\ \A w \in Word : posted[w] <= 1

\* A correction starts from the comment as the page shows it, and what is
\* sent as a correction was typed in sight of it: a closed form holds no
\* older text that the next correction would bring back.
EditStartsFromTheComment ==
    writing = "edit" /\ ~edit.open /\ ~edit.pending /\ ~hasty
        => edit.draft = comment.text

ComposerHolds == WordsArePostedOnce /\ EditStartsFromTheComment
=============================================================================
